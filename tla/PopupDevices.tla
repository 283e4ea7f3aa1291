---------------------------- MODULE PopupDevices ----------------------------
(***************************************************************************)
(* The devices of an account in the extension's popup: the panel over the  *)
(* map that disconnects a device or signs it out, and the dialogue that    *)
(* frees a slot when the limit keeps this browser from connecting.  The    *)
(* popup acts on what it was last shown; the devices go on meanwhile.      *)
(***************************************************************************)
EXTENDS Happenings

CONSTANTS
    Handsets,       \* the account's other devices
    Slots,          \* maxDevices
    MaxTunnels      \* bound of the model: sessions of all handsets together

\* An account has finitely many devices, and its plan at least one slot.
ASSUME DevicesAssumption == IsFiniteSet(Handsets) /\ Slots \in Nat \ {0}

VARIABLES
    live,           \* handsets with an ACTIVE row
    carries,         \* [Handsets -> 0..]: the open session of each, 0 for none
    dialled,         \* sessions opened so far
    member,         \* this browser holds a slot
    sees,           \* activeMapData: session by handset, of those that had one
    act,            \* the panel's call under way
    modal,          \* the limit dialogue
    freeing         \* [Handsets -> ..]: its calls under way

listVars == <<live, carries, dialled, member, sees, act, modal, freeing>>

NoAct == [does |-> None, of |-> None, tunnel |-> 0, pc |-> "idle"]
Shut == [open |-> FALSE, print |-> {}, lists |-> {}, disabled |-> {}, dismissed |-> {}]
NotFreeing == [h \in Handsets |-> "idle"]

DevicesInit ==
    /\ live \in {L \in SUBSET Handsets : Cardinality(L) = Slots}
    /\ carries = [h \in Handsets |-> 0] /\ dialled = 0
    /\ member = FALSE
    /\ sees = [h \in {} |-> 0] /\ act = NoAct /\ modal = Shut /\ freeing = NotFreeing

Taken == Cardinality(live) + (IF member THEN 1 ELSE 0)

----------------------------------------------------------------------------
\* The other devices.
SignsIn(h) ==
    /\ Happens("sign_in") /\ h \notin live /\ Taken < Slots
    /\ live' = live \cup {h}
    /\ UNCHANGED <<carries, dialled, member, sees, act, modal, freeing>>

\* A device that connects again gets a new session in place of the old one.
Dials(h) ==
    /\ h \in live /\ dialled < MaxTunnels
    /\ dialled' = dialled + 1 /\ carries' = [carries EXCEPT ![h] = dialled']
    /\ UNCHANGED <<live, member, sees, act, modal, freeing>> /\ Quiet

\* revokeDeviceAccess: the row and its session, in one transaction.
Revoked(h) ==
    /\ live' = live \ {h}
    /\ carries' = [carries EXCEPT ![h] = 0]

----------------------------------------------------------------------------
\* refreshServiceAndMap
SeesMap ==
    /\ act = NoAct /\ ~modal.open
    /\ sees' = [h \in {g \in live : carries[g] # 0} |-> carries[h]]
    /\ UNCHANGED <<live, carries, dialled, member, act, modal, freeing>> /\ Quiet

\* "Disconnect" and "Sign out" on a device of the panel; both are disabled by a press.
PressesOff(h) ==
    /\ act = NoAct /\ ~modal.open /\ h \in DOMAIN sees
    /\ act' = [does |-> "off", of |-> h, tunnel |-> sees[h], pc |-> "close"]
    /\ UNCHANGED <<live, carries, dialled, member, sees, modal, freeing>> /\ Quiet

PressesOut(h) ==
    /\ act = NoAct /\ ~modal.open /\ h \in DOMAIN sees
    /\ act' = [does |-> "out", of |-> h, tunnel |-> sees[h], pc |-> "close"]
    /\ UNCHANGED <<live, carries, dialled, member, sees, modal, freeing>> /\ Quiet

\* POST /api/vpn/disconnect with a session: a session already closed is no error.
SameDevice(h) == h = act.of
SameTunnel(h) == h = act.of /\ carries[h] = act.tunnel

ClosesTunnel ==
    /\ act.pc = "close"
    /\ \/ /\ carries' = [h \in Handsets |-> IF SameTunnel(h) THEN 0 ELSE carries[h]]
          /\ act' = [act EXCEPT !.pc = IF act.does = "out" THEN "revoke" ELSE "refresh"] /\ Quiet
       \* a failure is shown by "Disconnect" and passed over by "Sign out"
       \/ /\ Happens("call_fails") /\ UNCHANGED carries
          /\ act' = IF act.does = "out" THEN [act EXCEPT !.pc = "revoke"] ELSE NoAct
    /\ UNCHANGED <<live, dialled, member, sees, modal, freeing>>

RevokesOther ==
    /\ act.pc = "revoke"
    /\ \/ Revoked(act.of) /\ act' = [act EXCEPT !.pc = "refresh"] /\ Quiet
       \/ UNCHANGED <<live, carries>> /\ act' = NoAct /\ Happens("call_fails")
    /\ UNCHANGED <<dialled, member, sees, modal, freeing>>

RefreshesMap ==
    /\ act.pc = "refresh" /\ act' = NoAct
    /\ sees' = [h \in {g \in live : carries[g] # 0} |-> carries[h]]
    /\ UNCHANGED <<live, carries, dialled, member, modal, freeing>> /\ Quiet

----------------------------------------------------------------------------
\* connect in a browser without a slot: it registers, or is told who holds the slots.
\* A list the user has already waved away is not shown again.
WantsIn ==
    /\ ~member /\ ~modal.open
    /\ IF Taken < Slots
       THEN member' = TRUE /\ UNCHANGED modal
       ELSE /\ modal' = IF modal.dismissed = live THEN modal
                        ELSE [modal EXCEPT !.open = TRUE, !.print = live, !.lists = live, !.disabled = {}]
            /\ UNCHANGED member
    /\ UNCHANGED <<live, carries, dialled, sees, act, freeing>> /\ Quiet

Dismisses ==
    /\ modal.open
    /\ modal' = [Shut EXCEPT !.dismissed = modal.print]
    /\ UNCHANGED <<live, carries, dialled, member, sees, act, freeing>> /\ Quiet

\* A press disables its own button only.
PressesRelease(h) ==
    /\ modal.open /\ h \in modal.lists \ modal.disabled /\ freeing[h] = "idle"
    /\ modal' = [modal EXCEPT !.disabled = @ \cup {h}]
    /\ freeing' = [freeing EXCEPT ![h] = "revoke"]
    /\ UNCHANGED <<live, carries, dialled, member, sees, act>> /\ Quiet

Enabled(m, h) == [m EXCEPT !.disabled = @ \ {h}]

\* A device that has gone already is as good as revoked.
RevokesHolder(h) ==
    /\ freeing[h] = "revoke"
    /\ \/ /\ Revoked(h) /\ freeing' = [freeing EXCEPT ![h] = "retry"]
          /\ UNCHANGED modal /\ Quiet
       \/ /\ Happens("call_fails")
          /\ modal' = Enabled(modal, h) /\ freeing' = [freeing EXCEPT ![h] = "idle"]
          /\ UNCHANGED <<live, carries>>
    /\ UNCHANGED <<dialled, member, sees, act>>

StaysDisabled(m, h) == m
AfterFailure(m, h) == Enabled(m, h)

\* retryPendingConnect: in, still full (the new list is drawn), or another error.
Retries(h) ==
    /\ freeing[h] = "retry" /\ freeing' = [freeing EXCEPT ![h] = "idle"]
    /\ \/ /\ member \/ Taken < Slots
          /\ member' = TRUE /\ modal' = Shut /\ Quiet
       \/ /\ ~member /\ Taken >= Slots /\ UNCHANGED member /\ Quiet
          /\ modal' = [modal EXCEPT !.lists = live, !.disabled = {}]
       \/ /\ Happens("call_fails") /\ UNCHANGED member
          /\ modal' = AfterFailure(modal, h)
    /\ UNCHANGED <<live, carries, dialled, sees, act>>

DevicesNext ==
    \/ \E h \in Handsets :
          SignsIn(h) \/ Dials(h) \/ PressesOff(h) \/ PressesOut(h)
          \/ PressesRelease(h) \/ RevokesHolder(h) \/ Retries(h)
    \/ SeesMap \/ ClosesTunnel \/ RevokesOther \/ RefreshesMap
    \/ WantsIn \/ Dismisses

----------------------------------------------------------------------------
\* "Disconnect" ends the session that was shown, never one the device has dialled
\* since: somebody may have dialled again behind the panel.
OffSparesNewer ==
    [][ClosesTunnel /\ act.does = "off" =>
         \A h \in Handsets : carries'[h] = 0 => carries[h] \in {0, act.tunnel}]_listVars

\* The dialogue covers the whole popup, so it must leave a way out: unless a call is
\* under way one of the devices it lists can be pressed, whatever failed before.
ModalLeadsOut ==
    modal.open /\ freeing = NotFreeing => modal.lists \ modal.disabled # {}
=============================================================================
