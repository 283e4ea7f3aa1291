--------------------------- MODULE Administration ---------------------------
(***************************************************************************)
(* Administrators, support, and the panel: what a request of a member of   *)
(* staff may do to an account or to the service settings, and what the     *)
(* panel of each of them shows of the settings and of the member's role.   *)
(***************************************************************************)
EXTENDS Happenings

CONSTANTS
    Staff,      \* accounts; the first administrator is one of them
    Founder,
    Switches,   \* of the service settings: registration, maintenance
    MaxVersion2 \* bound of the model: changes of the settings

\* There is somebody to begin with (scripts/cli.ts makes the first administrator).
ASSUME StaffAssumption == Founder \in Staff

VARIABLES
    person,     \* person[p]: status and flags
    settings,   \* ServiceSettings: the switches and the version
    doing,      \* doing[p]: the request that p has running on the server
    panel       \* panel[p]: the panel in the browser of p

adminVars == <<person, settings, doing, panel>>

Statuses == {"ACTIVE", "DISABLED", "BLOCKED", "DELETED"}
NoRequest == [what |-> None, whom |-> None, to |-> None]
SignedOutPanel == [in |-> FALSE, asAdmin |-> FALSE, shows |-> None, answer |-> None, saving |-> FALSE]
Flags == {"admin", "support"}

AdminInit ==
    /\ person = [p \in Staff |-> [status |-> "ACTIVE", admin |-> p = Founder, support |-> FALSE]]
    /\ settings = [on |-> [s \in Switches |-> FALSE], version |-> 0]
    /\ doing = [p \in Staff |-> NoRequest]
    /\ panel = [p \in Staff |-> SignedOutPanel]

IsAdmin(p) == person[p].status = "ACTIVE" /\ person[p].admin
IsStaff(p) == person[p].status = "ACTIVE" /\ (person[p].admin \/ person[p].support)
NobodyActs == \A p \in Staff : doing[p] = NoRequest

-----------------------------------------------------------------------------
\* Fault: a tombstone is like any other account.
Anyone(p) == TRUE
\* The flag routes leave a deleted account alone.
NotDeleted(p) == person[p].status # "DELETED"

\* Fault: oneself, too.
AnyTarget(p, t) == TRUE
\* No one takes the keys from themselves.
Other(p, t) == p # t

\* What the routes look at before they write; the second gate keeps support out.
Permits(p, what, t) ==
    /\ IsAdmin(p)
    /\ CASE what = "admin"               -> Other(p, t) /\ NotDeleted(t)
         [] what = "support"             -> NotDeleted(t)
         [] what \in {"disable", "block"} -> Other(p, t)
         [] what = "enable"              -> TRUE
         [] what = "delete"              -> Other(p, t) /\ ~person[t].admin

\* A request passes the gates and reads its target; another that runs has read its own.
Acts(p, what, t, to) ==
    /\ doing[p] = NoRequest
    /\ \/ NobodyActs /\ Happens("staff_acts")
       \/ ~NobodyActs /\ Happens("overlap")
    /\ Permits(p, what, t)
    /\ doing' = [doing EXCEPT ![p] = [what |-> what, whom |-> t, to |-> to]]
    /\ UNCHANGED <<person, settings, panel>>

\* Fault: the flags outlive the account.
FlagsKept(r) == [r EXCEPT !.status = "DELETED"]
\* deleteAccount writes the tombstone in one statement.
Tombstone(r) == [status |-> "DELETED", admin |-> FALSE, support |-> FALSE]

Effect(r, what, to) ==
    CASE what = "admin"   -> [r EXCEPT !.admin = to]
      [] what = "support" -> [r EXCEPT !.support = to]
      [] what = "disable" -> [r EXCEPT !.status = "DISABLED"]
      [] what = "block"   -> [r EXCEPT !.status = "BLOCKED"]
      [] what = "enable"  -> [r EXCEPT !.status = "ACTIVE"]
      [] what = "delete"  -> Tombstone(r)

\* Tokens and sessions of the target end with it (see RefreshTokens, SessionLifecycle).
Performs(p) ==
    /\ doing[p] # NoRequest
    /\ person' = [person EXCEPT ![doing[p].whom] = Effect(@, doing[p].what, doing[p].to)]
    /\ doing' = [doing EXCEPT ![p] = NoRequest]
    /\ UNCHANGED <<settings, panel>> /\ Quiet

\* DELETE /api/account, which refuses an administrator.
LeavesService(p) ==
    /\ person[p].status = "ACTIVE" /\ ~person[p].admin /\ NobodyActs
    /\ Happens("close_account")
    /\ person' = [person EXCEPT ![p] = Tombstone(@)]
    /\ UNCHANGED <<settings, doing, panel>>

-----------------------------------------------------------------------------
\* The login form of the panel.
EntersPanel(p) ==
    /\ ~panel[p].in /\ IsStaff(p)
    /\ panel' = [panel EXCEPT ![p] = [SignedOutPanel EXCEPT !.in = TRUE, !.asAdmin = person[p].admin]]
    /\ UNCHANGED <<person, settings, doing>> /\ Quiet

\* Fault: a refusal says nothing about the role.
SignedOutOnly(p) == ~IsStaff(p) /\ ~panel[p].asAdmin
\* The server refuses what the panel asks for.
ShutOut(p) == ~IsStaff(p) \/ (panel[p].asAdmin /\ ~person[p].admin)

\* Fault: the timer does not read what is already on the screen.
AsksOnce(p) == panel[p].asAdmin /\ panel[p].shows = None
\* loadServiceSettings is part of every round of an administrator's panel.
AsksSettings(p) == panel[p].asAdmin

\* loadAll, every ten seconds. What support may not read, a panel that thinks itself an
\* administrator's reads all the same, and the refusal signs it out; another panel shows
\* what it may.
Refreshes(p) ==
    /\ panel[p].in /\ panel[p].answer = None
    /\ panel' = IF ShutOut(p) THEN [panel EXCEPT ![p] = SignedOutPanel]
                ELSE IF AsksSettings(p) THEN [panel EXCEPT ![p].answer = settings]
                ELSE panel
    /\ UNCHANGED <<person, settings, doing>> /\ Quiet

\* The answer arrives, maybe after that of a change that was made meanwhile.
Shows(p) ==
    /\ panel[p].answer # None
    /\ panel' = [panel EXCEPT ![p].shows = panel[p].answer, ![p].answer = None]
    /\ UNCHANGED <<person, settings, doing>> /\ Quiet

\* Fault: the version is not compared.
AnyVersion(seen) == TRUE
\* updateServiceSettings holds the lock and compares the version.
VersionShown(seen) == seen = settings.version

\* mutateServiceSettings: the switch, with the version that the panel shows; a refusal
\* reloads, an answer that is lost does so too.
Flips(p, sw) ==
    /\ panel[p].in /\ panel[p].asAdmin /\ panel[p].shows # None
    /\ settings.version < MaxVersion2
    /\ IsAdmin(p)
    /\ IF VersionShown(panel[p].shows.version)
       THEN settings' = [on |-> [settings.on EXCEPT ![sw] = ~panel[p].shows.on[sw]], version |-> settings.version + 1]
       ELSE UNCHANGED settings
    /\ \/ Quiet /\ panel' = [panel EXCEPT ![p].shows = settings']
       \/ Happens("reply_lost") /\ panel' = [panel EXCEPT ![p].shows = None]
    /\ UNCHANGED <<person, doing>>

LeavesPanel(p) ==
    /\ panel[p].in
    /\ Happens("sign_out")
    /\ panel' = [panel EXCEPT ![p] = SignedOutPanel]
    /\ UNCHANGED <<person, settings, doing>>

AdminNext ==
    \E p \in Staff :
       \/ Performs(p) \/ LeavesService(p)
       \/ \E t \in Staff :
             \/ \E what \in Flags, to \in BOOLEAN : Acts(p, what, t, to)
             \/ \E what \in {"disable", "block", "enable", "delete"} : Acts(p, what, t, None)
       \/ EntersPanel(p) \/ Refreshes(p) \/ Shows(p) \/ LeavesPanel(p)
       \/ \E sw \in Switches : Flips(p, sw)

\* A request ends, the panel's timer fires, and its answers arrive.
AdminFairness ==
    \A p \in Staff : WF_adminVars(Runs("staff") /\ Performs(p)) /\ WF_adminVars(Runs("staff") /\ Refreshes(p)) /\ WF_adminVars(Runs("staff") /\ Shows(p))

-----------------------------------------------------------------------------
\* There is always an administrator who can sign in: nobody demotes, disables or deletes
\* themselves, and whoever does it to others stays.
SomeAdmin == \E p \in Staff : IsAdmin(p)

\* No privilege survives on a deleted account, whatever was asked for it before or after.
DeadHasNoRights ==
    \A p \in Staff : person[p].status = "DELETED" => ~person[p].admin /\ ~person[p].support

\* A switch is only ever flipped by a panel that showed the settings as they were: the
\* change of one administrator is never undone by another who had not seen it.
NeverBlind ==
    [][settings' # settings =>
         \E p \in Staff : panel[p].shows = settings]_adminVars

\* A panel that its member has no right to any more is signed out.
LosesPanel ==
    \A p \in Staff : []<>(panel[p].in => ~panel[p].asAdmin \/ IsAdmin(p))

\* When nobody changes anything any more, what an administrator's panel shows is what is.
PanelCatchesUp ==
    \A p \in Staff : <>[](panel[p].in /\ panel[p].asAdmin) => <>[](panel[p].shows = settings \/ ~panel[p].in)

\* Administration: somebody is left in charge, a closed account has no rights, and no
\* switch is flipped blindly.
StaffHolds == []SomeAdmin /\ []DeadHasNoRights /\ NeverBlind
=============================================================================
