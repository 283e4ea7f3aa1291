----------------------------- MODULE DeviceSlots -----------------------------
(***************************************************************************)
(* The devices of one account: slots and their allowance, an installation  *)
(* that takes its twin's row, removal, sign-out, purging, and what these   *)
(* do to the tunnels and addresses of the devices; and the account's own   *)
(* switches, blocking and deletion.                                        *)
(*                                                                         *)
(* A tunnel is up as soon as it is asked for and comes down when the node  *)
(* gets to it: the way there is the subject of SessionLifecycle.           *)
(***************************************************************************)
EXTENDS Happenings

CONSTANTS
    Keys,       \* installations of a client, each with a key pair of its own
    NameOf,     \* the device name and system an installation reports
    MaxRows,    \* bound of the model: rows ever made in the devices table
    MaxVersion, \* bound of the model: how often a row may change hands
    Addrs,      \* addresses of the tunnel network, numbers
    PlanLimit   \* the device allowance of a paid plan; without one it is one

ASSUME SlotsAssumption ==
    /\ MaxRows \in Nat /\ PlanLimit \in Nat \ {0}
    /\ None \notin 1 .. MaxRows /\ None \notin Keys /\ None \notin Addrs

VARIABLES
    row,        \* row[d]: the devices table, numbered in the order of creation
    cred,       \* cred[k]: the device token installation k holds
    session,    \* session[d]: the row's session, open or closing, and its peer's key
    lease,      \* lease[a]: the row whose session leases address a
    peer,       \* peer[k]: the address the node has installed for key k
    removals,   \* REMOVE_PEER commands in the queue, by key
    account,    \* status and allowance of the account
    switch,     \* an operation on the account between two of its statements
    orphaned    \* keys whose row was deleted while the node still had the peer

slotVars == <<row, cred, session, lease, peer, removals, account, switch, orphaned>>

Rows == 1 .. MaxRows
NoRow == [status |-> "none", key |-> None, version |-> 0]
NoSession == [state |-> "none", key |-> None]
NoCred == [row |-> None, version |-> 0]

SlotsInit ==
    /\ row = [d \in Rows |-> NoRow]
    /\ cred = [k \in Keys |-> NoCred]
    /\ session = [d \in Rows |-> NoSession]
    /\ lease = [a \in Addrs |-> None]
    /\ peer = [k \in Keys |-> None]
    /\ removals = {}
    /\ account = [status |-> "ACTIVE", paid |-> TRUE, limit |-> PlanLimit]
    /\ switch = [pc |-> "idle", row |-> None]
    /\ orphaned = {}

Active == {d \in Rows : row[d].status = "active"}
Stored == {d \in Rows : row[d].status \in {"active", "revoked"}}
RowOf(k) == {d \in Stored : row[d].key = k}
Lowest(S) == {x \in S : \A y \in S : x <= y}
NewRow == Lowest({d \in Rows : row[d].status = "none"})
FreeAddr == Lowest({a \in Addrs : lease[a] = None})
Live(d) == session[d].state = "open"
\* requireUser and requireDeviceScope.
Authenticated(k) ==
    \E d \in Active : cred[k] = [row |-> d, version |-> row[d].version] /\ account.status = "ACTIVE"

tunnelVars == <<session, lease, peer, removals, orphaned>>

-----------------------------------------------------------------------------
\* Fault: the new key takes the row and the version stays.
VersionKept(d) == row[d].version
BumpedVersion(d) == row[d].version + 1

\* The device of the same name and system, if it has no tunnel, is this one reinstalled.
Twins(k) == {d \in Active : NameOf[row[d].key] = NameOf[k] /\ ~Live(d)}

\* Fault: the count is taken without the lock, and may be stale by one.
HasSlotUnlocked == Cardinality(Active) <= account.limit
HasSlot == Cardinality(Active) < account.limit

Holding(k, d, version) == [cred EXCEPT ![k] = [row |-> d, version |-> version]]

\* registerDeviceSlot, under the lock on the account's row, and the tokens for its result.
RegisterAgain(k) ==
    /\ account.status = "ACTIVE"
    /\ \E d \in RowOf(k) :
         /\ row[d].status = "revoked" => HasSlot
         /\ LET v == IF row[d].status = "active" THEN row[d].version ELSE BumpedVersion(d)
            IN  /\ v <= MaxVersion
                /\ row' = [row EXCEPT ![d].status = "active", ![d].version = v]
                /\ cred' = Holding(k, d, v)
    /\ UNCHANGED <<tunnelVars, account, switch>> /\ Quiet

TakeTwin(k) ==
    /\ account.status = "ACTIVE"
    /\ RowOf(k) = {}
    /\ \E d \in Twins(k) :
         /\ row[d].version < MaxVersion
         /\ row' = [row EXCEPT ![d].key = k, ![d].version = BumpedVersion(d)]
         /\ cred' = Holding(k, d, BumpedVersion(d))
    /\ UNCHANGED <<tunnelVars, account, switch>> /\ Quiet

RegisterNew(k) ==
    /\ account.status = "ACTIVE"
    /\ RowOf(k) = {} /\ Twins(k) = {}
    /\ HasSlot
    /\ \E d \in NewRow :
         /\ row' = [row EXCEPT ![d] = [status |-> "active", key |-> k, version |-> 0]]
         /\ cred' = Holding(k, d, 0)
    /\ UNCHANGED <<tunnelVars, account, switch>> /\ Quiet

-----------------------------------------------------------------------------
\* The node takes its commands in order: a former tunnel is removed before the new one
\* is installed.
ConnectDevice(k) ==
    /\ Authenticated(k)
    /\ session[cred[k].row] = NoSession
    /\ k \notin removals
    /\ \E a \in FreeAddr :
         /\ lease' = [lease EXCEPT ![a] = cred[k].row]
         /\ peer' = [peer EXCEPT ![k] = a]
    /\ session' = [session EXCEPT ![cred[k].row] = [state |-> "open", key |-> k]]
    /\ orphaned' = orphaned \ {k}
    /\ UNCHANGED <<row, cred, removals, account, switch>> /\ Quiet

\* closeSession for the open sessions of rows D.
KeysOf(D) == {session[d].key : d \in {e \in D : Live(e)}}
ClosedIn(D) == [d \in Rows |-> IF d \in D /\ Live(d) THEN [session[d] EXCEPT !.state = "closing"]
                               ELSE session[d]]

\* The node removes the peer and acknowledges: the address is free again.
NodeRemoves(k) ==
    /\ k \in removals
    /\ peer' = [peer EXCEPT ![k] = None]
    /\ removals' = removals \ {k}
    /\ orphaned' = orphaned \ {k}
    /\ LET D == {d \in Rows : session[d] = [state |-> "closing", key |-> k]}
       IN  /\ session' = [d \in Rows |-> IF d \in D THEN NoSession ELSE session[d]]
           /\ lease' = [a \in Addrs |-> IF lease[a] \in D THEN None ELSE lease[a]]
    /\ UNCHANGED <<row, cred, account, switch>> /\ Quiet

\* The answer to a report of the node names the peers without a session that is open,
\* and the node removes them.
NodeReports(k) ==
    /\ peer[k] # None
    /\ ~\E d \in Rows : Live(d) /\ session[d].key = k
    /\ peer' = [peer EXCEPT ![k] = None]
    /\ orphaned' = orphaned \ {k}
    /\ UNCHANGED <<row, cred, session, lease, removals, account, switch>> /\ Quiet

DisconnectDevice(k) ==
    /\ Authenticated(k)
    /\ Live(cred[k].row)
    /\ session' = ClosedIn({cred[k].row})
    /\ removals' = removals \cup {k}
    /\ UNCHANGED <<row, cred, lease, peer, account, switch, orphaned>> /\ Quiet

-----------------------------------------------------------------------------
\* Fault: the addresses go with the tunnels.
ReleasedAtOnce(D) == [a \in Addrs |-> IF lease[a] \in D THEN None ELSE lease[a]]
\* The addresses stay leased until the node has removed the peers.
KeptForNode(D) == lease

\* The rows D are revoked, their tokens and tunnels end; one transaction.
RevokeRows(D) ==
    /\ row' = [d \in Rows |-> IF d \in D THEN [row[d] EXCEPT !.status = "revoked", !.version = @ + 1]
                              ELSE row[d]]
    /\ session' = ClosedIn(D)
    /\ removals' = removals \cup KeysOf(D)
    /\ lease' = KeptForNode(D)
    /\ UNCHANGED <<cred, peer, orphaned>>

\* DELETE /api/devices/:id, from another device, the site or Telegram.
RemoveDevice(d) ==
    /\ Happens("remove")
    /\ d \in Active
    /\ RevokeRows({d})
    /\ UNCHANGED <<account, switch>>

\* Fault: the latest devices stay and the first one goes.
FirstOnes(n) == {d \in Active : Cardinality({e \in Active : e > d}) >= n}
\* All but the n devices registered first.
AllButFirst(n) == {d \in Active : Cardinality({e \in Active : e < d}) >= n}

\* The plan ends; downgradeToPlanAllowance lowers the allowance, and in a transaction
\* of its own signs the other devices out.
PlanEnds ==
    /\ Happens("plan_ends")
    /\ account.paid
    /\ switch.pc = "idle"
    /\ account' = [account EXCEPT !.paid = FALSE, !.limit = 1]
    /\ switch' = [switch EXCEPT !.pc = "enforce"]
    /\ UNCHANGED <<row, cred, tunnelVars>>

EnforceAllowance ==
    /\ switch.pc = "enforce"
    /\ RevokeRows(AllButFirst(account.limit))
    /\ switch' = [switch EXCEPT !.pc = "idle"]
    /\ UNCHANGED account /\ Quiet

\* grantPlan raises the allowance and never lowers it.
PlanBegins ==
    /\ ~account.paid /\ switch.pc = "idle"
    /\ Happens("plan_begins")
    /\ account' = [account EXCEPT !.paid = TRUE, !.limit = PlanLimit]
    /\ UNCHANGED <<row, cred, tunnelVars, switch>>

-----------------------------------------------------------------------------
\* The rows D are deleted, and their sessions, tokens and leases with them; a command
\* that names the session loses the name and stays.
DeleteRows(D) ==
    /\ row' = [d \in Rows |-> IF d \in D THEN [row[d] EXCEPT !.status = "deleted"] ELSE row[d]]
    /\ session' = [d \in Rows |-> IF d \in D THEN NoSession ELSE session[d]]
    /\ lease' = [a \in Addrs |-> IF lease[a] \in D THEN None ELSE lease[a]]
    /\ orphaned' = orphaned \cup {k \in Keys : peer[k] # None /\ lease[peer[k]] \in D}
    /\ UNCHANGED <<cred, peer, removals, account>>

\* POST /api/auth/logout closes the tunnel, and then deletes the row.
BeginSignOut(k) ==
    /\ Happens("sign_out")
    /\ Authenticated(k)
    /\ switch.pc = "idle"
    /\ session' = ClosedIn({cred[k].row})
    /\ removals' = removals \cup KeysOf({cred[k].row})
    /\ switch' = [pc |-> "delete_row", row |-> cred[k].row]
    /\ UNCHANGED <<row, cred, lease, peer, account, orphaned>>

FinishSignOut ==
    /\ switch.pc = "delete_row"
    /\ DeleteRows({switch.row})
    /\ switch' = [pc |-> "idle", row |-> None]
    /\ Quiet

\* ... or, with allDevices, deletes every row at once.
SignOutEverywhere ==
    /\ Happens("sign_out_everywhere")
    /\ \E k \in Keys : Authenticated(k)
    /\ switch.pc = "idle"
    /\ DeleteRows(Stored)
    /\ UNCHANGED switch

\* Rows of removed devices without a session, and those whose sessions are all closed.
Purgeable(d) == row[d].status = "revoked" /\ ~Live(d)
Purged == {d \in Rows : Purgeable(d)}

\* The administrator's clean-up with no retention at all; the monitor's waits for weeks.
PurgeDevices ==
    /\ Happens("purge")
    /\ Purged # {}
    /\ DeleteRows(Purged)
    /\ UNCHANGED switch

-----------------------------------------------------------------------------
\* An administrator disables or blocks the account, or it is deleted: tunnels first,
\* then the status, then, for a deletion, the rows.
CloseAccount(status) ==
    /\ Happens("close_account")
    /\ account.status = "ACTIVE" /\ switch.pc = "idle"
    /\ session' = ClosedIn(Rows)
    /\ removals' = removals \cup KeysOf(Rows)
    /\ switch' = [switch EXCEPT !.pc = status]
    /\ UNCHANGED <<row, cred, lease, peer, account, orphaned>>

SetStatus ==
    /\ switch.pc \in {"DISABLED", "BLOCKED", "DELETED"}
    /\ account' = [account EXCEPT !.status = switch.pc]
    /\ switch' = [switch EXCEPT !.pc = IF @ = "DELETED" THEN "delete_all" ELSE "idle"]
    /\ UNCHANGED <<row, cred, tunnelVars>> /\ Quiet

EraseAccount ==
    /\ switch.pc = "delete_all"
    /\ DeleteRows(Stored)
    /\ switch' = [switch EXCEPT !.pc = "idle"]
    /\ Quiet

\* Enabling and unblocking ask nothing about the status the account had.
ReopenAccount ==
    /\ Happens("reopen_account")
    /\ account.status # "ACTIVE" /\ switch.pc = "idle"
    /\ account' = [account EXCEPT !.status = "ACTIVE"]
    /\ UNCHANGED <<row, cred, tunnelVars, switch>>

\* Fault: the devices are looked at, and not the account.
DeviceRemoved(d) == row[d].status # "active"
\* What the monitor closes: tunnels of removed devices and of closed accounts.
MustClose(d) == row[d].status # "active" \/ account.status # "ACTIVE"

MonitorCloses(d) ==
    /\ Live(d)
    /\ MustClose(d)
    /\ session' = ClosedIn({d})
    /\ removals' = removals \cup KeysOf({d})
    /\ UNCHANGED <<row, cred, lease, peer, account, switch, orphaned>> /\ Quiet

SlotsNext ==
    \/ \E k \in Keys : \/ RegisterAgain(k) \/ TakeTwin(k) \/ RegisterNew(k)
                       \/ ConnectDevice(k) \/ DisconnectDevice(k)
                       \/ NodeRemoves(k) \/ NodeReports(k) \/ BeginSignOut(k)
    \/ \E d \in Rows : RemoveDevice(d) \/ MonitorCloses(d)
    \/ \E s \in {"DISABLED", "BLOCKED", "DELETED"} : CloseAccount(s)
    \/ PlanEnds \/ EnforceAllowance \/ PlanBegins
    \/ FinishSignOut \/ SignOutEverywhere \/ PurgeDevices
    \/ SetStatus \/ EraseAccount \/ ReopenAccount

\* The node gets to its commands and reports, the monitor to its rounds, and what was
\* begun is finished.
SlotsFairness ==
    /\ \A k \in Keys : WF_slotVars(Runs("slots") /\ NodeRemoves(k)) /\ WF_slotVars(Runs("slots") /\ NodeReports(k))
    /\ \A d \in Rows : WF_slotVars(Runs("slots") /\ MonitorCloses(d))
    /\ WF_slotVars(Runs("slots") /\ (EnforceAllowance \/ FinishSignOut \/ SetStatus \/ EraseAccount))

-----------------------------------------------------------------------------
\* An account never has more devices than its allowance, however its installations
\* race for a slot, but for the moment in which a lapsed plan is being enforced.
SlotsRespected == switch.pc # "enforce" => Cardinality(Active) <= account.limit

\* Two installations never hold a good token for the same row: the one that takes a
\* twin's row ends the other, and a removed device that comes back starts anew.
OneInstallPerRow ==
    \A k, m \in Keys : Authenticated(k) /\ Authenticated(m) /\ k # m => cred[k].row # cred[m].row

\* The device a person keeps when the plan ends is the one registered first.
FirstDeviceKept ==
    [][EnforceAllowance =>
         \A d, e \in Active : e < d /\ row'[d].status = "active"
                                => row'[e].status = "active"]_slotVars

\* An address is leased as long as the node has a peer on it, so no two devices share
\* it; rows that were deleted under a peer are the exception, and are known.
AddressKept ==
    \A k \in Keys : peer[k] # None /\ k \notin orphaned => lease[peer[k]] # None

\* A peer on the node whose device may not use it any more, because it was removed, the
\* account closed or the row deleted, is removed in the end, or its right comes back.
Entitled(k) == \E d \in RowOf(k) : row[d].status = "active" /\ account.status = "ACTIVE"
DeadPeersEnd ==
    \A k \in Keys : []<>(peer[k] # None => Entitled(k))

\* Device rows: within the allowance, of one installation each, and no address free
\* while a peer still uses it.
SlotsSafe == SlotsRespected /\ OneInstallPerRow /\ AddressKept

\* What a lowered allowance and a removal do to the tunnels that are up.
SlotsFollow == FirstDeviceKept /\ DeadPeersEnd
=============================================================================
