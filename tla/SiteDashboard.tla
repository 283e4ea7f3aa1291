---------------------------- MODULE SiteDashboard ----------------------------
(***************************************************************************)
(* The site's session (auth.js) and the dashboard that hangs on it (app.js,*)
(* the device dialogue of sprint2.js).  The refresh token is shared by the *)
(* tabs of a browser, so the account of a page may change under it; what   *)
(* was asked for one account may be answered when the page shows another.  *)
(* The devices stand for all three lists the page loads.                   *)
(***************************************************************************)
EXTENDS Happenings

CONSTANTS
    Visitors,   \* accounts
    Rows        \* device rows an account has at first

\* No account is nobody.
ASSUME SiteAssumption == None \notin Visitors

VARIABLES
    savedToken,     \* localStorage: the account of the refresh token
    status,     \* state.status
    visitor,    \* state.user
    access,     \* the account of the access token in the page's memory
    leaving,    \* a sign-out whose answer is not there
    checks,     \* boot()s under way: the account of the token each sent
    shownFor,   \* accountKey
    epoch,
    inflight,
    loads,      \* loadAll()s whose answers are not all there
    listed,     \* what the page lists, and of whom
    owned,      \* the rows each account has
    removals    \* DELETEs carried out whose answers are on their way

sessionVars == <<savedToken, access, leaving, checks>>
shownVars == <<status, visitor, shownFor, epoch>>
loadVars == <<inflight, loads>>
rowVars == <<owned, removals>>
siteVars == <<sessionVars, shownVars, loadVars, rowVars, listed>>

SiteInit ==
    /\ savedToken \in Visitors
    /\ status = "loading" /\ visitor = None /\ access = None /\ leaving = FALSE /\ checks = {savedToken}
    /\ shownFor = None /\ epoch = 0 /\ inflight = FALSE /\ loads = {}
    /\ listed = None
    /\ owned = [v \in Visitors |-> Rows] /\ removals = {}

----------------------------------------------------------------------------
Load(version, asker) ==
    [version |-> version, asker |-> asker, at |-> "asked", of |-> None, rows |-> {}]

\* Signing out ends the tokens of the account.  A call that is refused renews
\* with the token the tabs share, whosever it is, and goes on with that.
Caller == IF access = savedToken THEN access ELSE savedToken

\* loadAll: a load at a time.
StartsLoad(version, already, running) ==
    /\ inflight' = TRUE
    /\ loads' = IF already THEN running ELSE running \cup {Load(version, visitor')}

\* resetAccount: what is under way no longer counts.
StillBusy == inflight
NotBusy == FALSE

\* apply, on every gluk:auth.
Shows ==
    IF visitor' = shownFor
    THEN UNCHANGED <<loadVars, shownFor, epoch, listed>>
    ELSE /\ shownFor' = visitor' /\ epoch' = epoch + 1 /\ listed' = None
         /\ IF visitor' # None
            THEN StartsLoad(epoch + 1, NotBusy, loads)
            ELSE inflight' = NotBusy /\ UNCHANGED loads

Enters(v) == status' = "in" /\ visitor' = v /\ Shows
\* guest
Leaves == status' = "out" /\ visitor' = None /\ Shows

\* boot's answer: renewed, maybe just before the account was signed out.  Only a
\* refusal loses what is stored: without a network it is kept.
Checked(v) ==
    /\ checks' = checks \ {v}
    /\ \/ Enters(v) /\ savedToken' = v /\ access' = v /\ Quiet
       \/ savedToken # v /\ savedToken' = None /\ Leaves /\ UNCHANGED access /\ Quiet
       \/ Leaves /\ UNCHANGED <<savedToken, access>> /\ Happens("offline")
    /\ UNCHANGED <<rowVars, leaving>>

\* Another tab signs out, and may sign in as somebody else.
OtherTab(v) ==
    /\ Happens("other_tab")
    /\ savedToken' = v
    /\ UNCHANGED <<shownVars, loadVars, rowVars, access, leaving, checks, listed>>

LogsOut ==
    /\ status = "in" /\ Happens("sign_out")
    /\ savedToken' = None /\ leaving' = TRUE
    /\ UNCHANGED <<shownVars, loadVars, rowVars, access, checks, listed>>

SignedOff ==
    /\ leaving
    /\ leaving' = FALSE /\ access' = None /\ Leaves
    /\ UNCHANGED <<rowVars, savedToken, checks>> /\ Quiet

\* refresh: the session is checked again while the lists load.
Refreshes ==
    /\ IF savedToken = None
       THEN Leaves /\ UNCHANGED checks
       ELSE /\ checks' = checks \cup {savedToken}
            /\ UNCHANGED <<shownVars, listed>>
            /\ IF status = "in" THEN StartsLoad(epoch, inflight, loads)
               ELSE UNCHANGED loadVars
    /\ UNCHANGED <<savedToken, access, leaving, owned>>

PressesRefresh == Happens("refresh") /\ Refreshes /\ UNCHANGED removals

\* Every 45 seconds, on a page that is seen and signed in.
NeverDue == FALSE
Due == status = "in" /\ ~inflight

Reloads ==
    /\ Due
    /\ UNCHANGED <<sessionVars, shownVars, rowVars, listed>>
    /\ StartsLoad(epoch, inflight, loads) /\ Quiet

----------------------------------------------------------------------------
ReadsRows(l) ==
    /\ l.at = "asked"
    /\ loads' = (loads \ {l}) \cup {[l EXCEPT !.at = "read", !.of = Caller,
                                       !.rows = IF Caller = None THEN {} ELSE owned[Caller]]}
    /\ access' = IF Caller = None THEN access ELSE Caller
    /\ UNCHANGED <<shownVars, rowVars, savedToken, leaving, checks, inflight, listed>>
    /\ Quiet

AnyLoad(l) == status = "in"
Mine(l) == l.version = epoch /\ status = "in"

\* The devices, or an empty list with an excuse.
RowsArrive(l) ==
    /\ l.at = "read"
    /\ loads' = (loads \ {l}) \cup {[l EXCEPT !.at = "shown", !.rows = {}]}
    /\ \E rows \in {l.rows, {}} :
         /\ listed' = IF Mine(l) THEN [asker |-> l.asker, of |-> l.of, rows |-> rows] ELSE listed
         /\ IF rows = l.rows THEN Quiet ELSE Happens("offline")
    /\ UNCHANGED <<sessionVars, shownVars, rowVars, inflight>>

\* done, when the sessions and the orders are there too, or fifteen seconds are over.
LoadEnds(l) ==
    /\ l.at = "shown"
    /\ loads' = loads \ {l}
    /\ inflight' = IF l.version = epoch THEN FALSE ELSE inflight
    /\ UNCHANGED <<sessionVars, shownVars, rowVars, listed>>
    /\ Quiet

\* kick, or the dialogue's removeDevice, of a row the page lists.
Removes(r) ==
    /\ status = "in" /\ listed # None /\ r \in listed.rows
    \* a row of another account is not found
    /\ Caller = listed.of /\ Happens("remove")
    /\ owned' = [owned EXCEPT ![Caller] = @ \ {r}]
    /\ removals' = removals \cup {r}
    /\ access' = Caller
    /\ UNCHANGED <<shownVars, loadVars, savedToken, leaving, checks, listed>>

\* gluk:devices-changed
HearsRemoval(r) ==
    /\ removals' = removals \ {r}
    /\ \/ Refreshes /\ Quiet
       \/ Happens("offline")
          /\ UNCHANGED <<sessionVars, shownVars, loadVars, listed, owned>>

SiteNext ==
    \/ \E v \in checks : Checked(v)
    \/ \E v \in Visitors \cup {None} : OtherTab(v)
    \/ LogsOut \/ SignedOff \/ PressesRefresh \/ Reloads
    \/ \E l \in loads : ReadsRows(l) \/ RowsArrive(l) \/ LoadEnds(l)
    \/ \E r \in Rows : Removes(r)
    \/ \E r \in removals : HearsRemoval(r)

\* Every request ends in an answer or in its timeout, and the interval goes on.
SiteFairness ==
    /\ WF_siteVars(Runs("site") /\ \E v \in checks : Checked(v))
    /\ WF_siteVars(Runs("site") /\ \E l \in loads : ReadsRows(l) \/ RowsArrive(l) \/ LoadEnds(l))
    /\ WF_siteVars(Runs("site") /\ Reloads) /\ WF_siteVars(Runs("site") /\ SignedOff)

----------------------------------------------------------------------------
\* What the dashboard lists was asked for by the account the page shows, however often
\* the account changed before the answer came (app.js, epoch).
PageIsMine == listed # None => status = "in" /\ listed.asker = visitor

\* A load never blocks the ones after it for good, though the account changed under
\* it (resetAccount, done).
LoadingEnds == []<>(~inflight)

\* A device that was removed leaves the list, though the load after its removal was
\* dropped because an earlier one was under way, or the answer was lost.
RemovedLeaves == []<>(listed # None => \A r \in listed.rows : r \in owned[listed.of])
=============================================================================
