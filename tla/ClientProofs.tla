---------------------------- MODULE ClientProofs ----------------------------
(***************************************************************************)
(* What the machines of MCClient keep for every value of the constants:    *)
(* the worker of the extension, its popup, the gateway it goes through and *)
(* the bot.  A behaviour is of one machine, so a proof about one has to    *)
(* look at its own steps only.                                             *)
(***************************************************************************)
EXTENDS MCClient, FiniteSetTheorems, TLAPS

-----------------------------------------------------------------------------
(* The service worker of the extension.                                    *)

\* What the popup is told the browser is doing.
Phases == {"idle", "connecting", "connected", "disconnecting", "error", "signedOut"}
\* How far an attempt to connect is.
ConnectSteps == {"idle", "register", "ask", "probe", "apply", "save"}
\* How far a teardown is.
TeardownSteps == {"idle", "clear", "tell", "settle"}
\* Why it began.
Reasons == {None, "user", "sign_out", "select", "gateway", "closed"}

\* What the variables of the worker hold.
WorkerTypeOK ==
    /\ phase \in Phases
    /\ routed \in BOOLEAN /\ stranded \in BOOLEAN /\ unheard \in BOOLEAN
    /\ awake \in BOOLEAN /\ signedIn \in BOOLEAN
    /\ opened \in SessionIds \cup {0}
    /\ conn \in [pc : ConnectSteps, got : SessionIds \cup {0}]
    /\ tear \in [pc : TeardownSteps, why : Reasons]

\* One handler at a time, neither one nor an answer awaited in a worker that was stopped,
\* and no tunnel is dialled or shown for nobody.
OneHandler ==
    /\ conn.pc = "idle" \/ tear.pc = "idle"
    /\ ~awake => Apart /\ asked = NoPoll
    /\ conn.pc # "idle" => phase # "connected" /\ signedIn
    /\ ~signedIn => phase # "connected"
    /\ tear.pc # "idle" /\ tear.why = "select" => signedIn

\* Where the proxy points while a handler is at work, at rest, and while the worker is
\* stopped; only a proxy that is set can be left behind.
ProxyFollows ==
    /\ stranded => routed
    /\ ~stranded /\ phase # "connected" /\ tear.pc = "idle" => (routed <=> conn.pc = "save")
    /\ conn.pc = "save" => ~stranded /\ routed
    /\ tear.pc \in {"tell", "settle"} => ~routed
    /\ AtRest /\ ~stranded /\ phase = "connected" => routed
    /\ ~awake /\ phase = "connected" /\ opened # 0 /\ ~unheard => routed

\* Whose the session is that the server has open, and that somebody knows of it: the
\* connect that asked for it, the teardown that has yet to tell, or the phase.
SessionFollows ==
    opened # 0 /\ ~unheard =>
        /\ Apart => phase = "connected"
        /\ conn.pc # "idle" => conn.pc \in {"probe", "apply", "save"} /\ opened = conn.got
        /\ tear.pc # "settle"

\* What holds between any two steps of the worker, and each step keeps.
WorkerInv == WorkerTypeOK /\ OneHandler /\ ProxyFollows /\ SessionFollows

\* A step of one machine leaves the worker alone, unless it is the worker's.
LEMMA WorkerSteps ==
    ASSUME [MCNext]_clientVars
    PROVE  [WorkerNext]_workerVars
BY DEF MCNext, Only, clientVars, partVars

\* Each step of the worker keeps its invariant: one case for each handler's step.
LEMMA WorkerStep ==
    ASSUME "overlap" \notin Events, WorkerInv, [WorkerNext]_workerVars
    PROVE  WorkerInv'
<1> USE DEF WorkerInv, WorkerTypeOK, OneHandler, ProxyFollows, SessionFollows, Phases, ConnectSteps,
        TeardownSteps, Reasons, AtRest, Apart, Alone, Happens, BeginConnect, BeginTeardown, NoConn, NoTear,
        Failed, EnterMaintenance, Closes
<1>1. CASE UserConnects BY <1>1 DEF UserConnects
<1>2. CASE RegisterFails BY <1>2 DEF RegisterFails
<1>3. CASE Registers BY <1>3 DEF Registers
<1>4. CASE AsksForTunnel
  <2>1. PICK s : s \in SessionIds /\ opened' = s BY <1>4 DEF AsksForTunnel, Fresh
  <2>2. /\ conn.pc = "ask"
        /\ UNCHANGED <<routed, signedIn, tear, awake, stranded>>
        /\ \/ conn' = [pc |-> "probe", got |-> s] /\ UNCHANGED <<phase, unheard>>
           \/ phase' = "error" /\ conn' = NoConn /\ unheard' = TRUE
    BY <1>4, <2>1 DEF AsksForTunnel
  <2>3. CASE conn' = [pc |-> "probe", got |-> s] /\ UNCHANGED <<phase, unheard>>
    <3>1. conn'.pc = "probe" /\ conn'.got = s BY <2>3
    <3>2. conn' \in [pc : ConnectSteps, got : SessionIds \cup {0}] BY <2>3, <2>1
    <3>3. QED BY <2>1, <2>2, <2>3, <3>1, <3>2
  <2>4. CASE phase' = "error" /\ conn' = NoConn /\ unheard' = TRUE
    BY <2>1, <2>2, <2>4
  <2>5. QED BY <2>2, <2>3, <2>4
<1>5. CASE RefusedForMaintenance BY <1>5 DEF RefusedForMaintenance
<1>6. CASE ProbeFails BY <1>6 DEF ProbeFails
<1>7. CASE ProbeAnswers BY <1>7 DEF ProbeAnswers
<1>8. CASE AppliesProxy BY <1>8 DEF AppliesProxy
<1>9. CASE SavesConnected BY <1>9 DEF SavesConnected
<1>10. CASE AnswersLate BY <1>10 DEF AnswersLate
<1>11. CASE UserDisconnects BY <1>11 DEF UserDisconnects
<1>12. CASE SignsOut BY <1>12 DEF SignsOut
<1>13. CASE SelectsNode BY <1>13 DEF SelectsNode
<1>14. CASE ClearsProxy BY <1>14 DEF ClearsProxy
<1>15. CASE TellsServer BY <1>15 DEF TellsServer
<1>16. CASE Settles
  <2>1. /\ tear.pc = "settle" /\ tear' = NoTear
        /\ UNCHANGED <<routed, opened, awake, stranded, unheard>>
        /\ signedIn' = (signedIn /\ tear.why \notin {"sign_out", "revoked"})
    BY <1>16 DEF Settles
  <2>2. CASE tear.why = "select"
    <3>1. conn' = [NoConn EXCEPT !.pc = "register"] /\ phase' = "connecting" /\ signedIn' = signedIn
      BY <1>16, <2>2, <2>1 DEF Settles
    <3>2. signedIn BY <2>1, <2>2
    <3>3. conn'.pc = "register" /\ conn' \in [pc : ConnectSteps, got : SessionIds \cup {0}]
      BY <3>1
    <3>4. tear'.pc = "idle" /\ tear' \in [pc : TeardownSteps, why : Reasons] BY <2>1
    <3>5. QED BY <2>1, <3>1, <3>2, <3>3, <3>4
  <2>3. CASE tear.why # "select"
    <3>1. conn' = conn /\ phase' = IF signedIn' THEN "idle" ELSE "signedOut"
      BY <1>16, <2>3 DEF Settles
    <3>2. tear'.pc = "idle" /\ tear' \in [pc : TeardownSteps, why : Reasons] BY <2>1
    <3>3. signedIn' \in BOOLEAN /\ (signedIn' => signedIn) BY <2>1
    <3>4. QED BY <2>1, <3>1, <3>2, <3>3
  <2>4. QED BY <2>2, <2>3
<1>17. CASE UserSignsIn BY <1>17 DEF UserSignsIn
<1>18. CASE AsksStatus BY <1>18 DEF AsksStatus
<1>19. CASE HearsUp
  <2>1. /\ UNCHANGED <<phase, routed, opened, signedIn, conn, awake, stranded, unheard>>
        /\ tear' = tear \/ (Apart /\ BeginTeardown("gateway"))
        /\ awake /\ awake'
    BY <1>19, WorkerAssumption DEF HearsUp, NoPoll
  <2>2. CASE tear' = tear BY <2>1, <2>2
  <2>3. CASE Apart /\ BeginTeardown("gateway")
    <3>1. tear' = [pc |-> "clear", why |-> "gateway"] /\ conn.pc = "idle" /\ tear.pc = "idle"
      BY <2>3
    <3>2. tear'.pc = "clear" /\ tear'.why = "gateway" /\ tear' \in [pc : TeardownSteps, why : Reasons]
      BY <3>1
    <3>3. QED BY <2>1, <3>1, <3>2
  <2>4. QED BY <2>1, <2>2, <2>3
<1>20. CASE HearsClosed BY <1>20 DEF HearsClosed
<1>21. CASE HearsMaintenance BY <1>21 DEF HearsMaintenance
<1>22. CASE ServerCloses BY <1>22 DEF ServerCloses
<1>23. CASE MaintenanceBegins BY <1>23 DEF MaintenanceBegins
<1>24. CASE MaintenanceEnds BY <1>24 DEF MaintenanceEnds
<1>25. CASE FindsServiceBack
  <2>1. /\ awake /\ Apart /\ UNCHANGED <<routed, opened, signedIn, tear, awake, stranded, unheard>>
        /\ waiting' = FALSE
    BY <1>25 DEF FindsServiceBack
  <2>2. CASE Resumable
    <3>1. conn' = [NoConn EXCEPT !.pc = "register"] /\ phase' = "connecting"
          /\ phase # "connected" /\ signedIn
      BY <1>25, <2>2 DEF FindsServiceBack, Resumable
    <3>2. conn'.pc = "register" /\ conn' \in [pc : ConnectSteps, got : SessionIds \cup {0}]
      BY <3>1
    <3>3. QED BY <2>1, <3>1, <3>2
  <2>3. CASE ~Resumable
    <3>1. UNCHANGED <<phase, conn>> BY <1>25, <2>3 DEF FindsServiceBack
    <3>2. QED BY <2>1, <3>1
  <2>4. QED BY <2>2, <2>3
<1>26. CASE FindsMaintenance BY <1>26 DEF FindsMaintenance
<1>27. CASE WorkerStops BY <1>27 DEF WorkerStops
<1>28. CASE WorkerWakes BY <1>28 DEF WorkerWakes, Repair, Interrupted
<1>29. CASE BrowserStarts
  <2>1. /\ ~awake /\ awake' = TRUE /\ unheard' = (unheard \/ opened # 0)
        /\ UNCHANGED <<opened, waiting, intent, signedIn, tear>>
    BY <1>29 DEF BrowserStarts
  <2>2. CASE /\ ~signedIn /\ UNCHANGED conn
             /\ phase' = "signedOut" /\ routed' = FALSE /\ stranded' = FALSE
    BY <2>1, <2>2
  <2>3. CASE /\ signedIn /\ conn' = [NoConn EXCEPT !.pc = "register"] /\ phase' = "connecting"
             /\ stranded' = routed /\ UNCHANGED routed
    <3>1. conn'.pc = "register" /\ conn' \in [pc : ConnectSteps, got : SessionIds \cup {0}]
      BY <2>3
    <3>2. QED BY <2>1, <2>3, <3>1
  <2>4. CASE /\ phase' = "idle" /\ UNCHANGED conn /\ stranded' = routed /\ UNCHANGED routed
    BY <2>1, <2>4
  <2>5. QED BY <1>29, <2>2, <2>3, <2>4 DEF BrowserStarts
<1>30. CASE UNCHANGED workerVars BY <1>30 DEF workerVars
<1>31. QED BY <1>1, <1>2, <1>3, <1>4, <1>5, <1>6, <1>7, <1>8, <1>9, <1>10, <1>11, <1>12, <1>13, <1>14, <1>15, <1>16, <1>17, <1>18, <1>19, <1>20, <1>21, <1>22, <1>23, <1>24, <1>25, <1>26, <1>27, <1>28, <1>29, <1>30 DEF WorkerNext, ConnectGoesOn, TeardownGoesOn, PollGoesOn

\* The extension as it is shown is the browser as it is routed, and no session stays open
\* that nobody uses, for any number of ids, whichever calls fail, whenever the browser
\* stops the worker, as long as a handler does not begin in the middle of another
\* (connect, disconnect, enterMaintenance, repairStalePhase, bootstrap).
THEOREM WorkerKept == "overlap" \notin Events => (MCSpec => []WorkerSafe)
<1> SUFFICES ASSUME "overlap" \notin Events PROVE MCSpec => []WorkerSafe
  OBVIOUS
<1>1. MCInit => WorkerInv
  <2>1. MCInit => WorkerInit BY DEF MCInit
  <2>2. WorkerInit => conn.pc = "idle" /\ tear.pc = "idle"
    BY DEF WorkerInit, NoConn, NoTear
  <2>3. ASSUME WorkerInit PROVE WorkerTypeOK
    <3>1. conn = NoConn /\ tear = NoTear BY <2>3 DEF WorkerInit
    <3>2. conn \in [pc : ConnectSteps, got : SessionIds \cup {0}]
      BY <3>1 DEF NoConn, ConnectSteps
    <3>3. tear \in [pc : TeardownSteps, why : Reasons]
      BY <3>1 DEF NoTear, TeardownSteps, Reasons
    <3>4. QED BY <2>3, <3>2, <3>3 DEF WorkerInit, WorkerTypeOK, Phases
  <2>4. WorkerInit => OneHandler /\ ProxyFollows /\ SessionFollows
    BY <2>2 DEF WorkerInit, OneHandler, ProxyFollows, SessionFollows, AtRest, Apart
  <2>5. QED BY <2>1, <2>3, <2>4 DEF WorkerInv
<1>2. WorkerInv /\ [MCNext]_clientVars => WorkerInv' BY WorkerSteps, WorkerStep
<1>3. WorkerInv => WorkerSafe
  BY DEF WorkerInv, WorkerTypeOK, OneHandler, ProxyFollows, SessionFollows, WorkerSafe, ShownIsRouted,
         NoHalfOpenSession, AtRest, Apart
<1>4. QED BY <1>1, <1>2, <1>3, PTL DEF MCSpec

-----------------------------------------------------------------------------
(* The page of statistics and the dialogue of the limit, in the popup.     *)

\* A request is never newer than the page, and the newest is of the page's period.
StatsInv ==
    /\ revision \in Nat
    /\ \A r \in requests : r.revision \in Nat /\ r.revision <= revision
                           /\ (r.revision = revision => r.of = period)
    /\ FiguresFit

\* A step of one machine leaves the page of statistics alone, unless it is the page's.
LEMMA StatsSteps ==
    ASSUME [MCNext]_clientVars
    PROVE  [StatsNext]_statsVars
BY DEF MCNext, Only, clientVars, partVars

\* Each step of the page keeps its invariant.
LEMMA StatsStep ==
    ASSUME StatsInv, [StatsNext]_statsVars
    PROVE  StatsInv'
<1>1. ASSUME NEW p \in Periods, LoadsStats(p) PROVE StatsInv'
  <2> DEFINE asking == [of |-> p, revision |-> revision + 1]
  <2>1. /\ revision' = revision + 1 /\ figures' = None
        /\ period' = p /\ requests' = requests \cup {asking}
    BY <1>1 DEF LoadsStats
  <2>2. asking.revision = revision + 1 /\ asking.of = p OBVIOUS
  <2> HIDE DEF asking
  <2>3. \A r \in requests' : r.revision \in Nat /\ r.revision <= revision'
                             /\ (r.revision = revision' => r.of = period')
    BY <2>1, <2>2 DEF StatsInv
  <2>4. QED BY <2>1, <2>3 DEF StatsInv, FiguresFit
<1>2. ASSUME NEW r \in requests, StatsArrive(r) PROVE StatsInv'
  <2>1. /\ requests' = requests \ {r} /\ UNCHANGED <<period, revision>>
        /\ figures' = IF r.revision = revision THEN r.of ELSE figures
    BY <1>2 DEF StatsArrive, Latest
  <2>2. figures' \in {None, period} BY <2>1 DEF StatsInv, FiguresFit
  <2>3. QED BY <2>1, <2>2 DEF StatsInv, FiguresFit
<1>3. CASE UNCHANGED statsVars BY <1>3 DEF statsVars, StatsInv, FiguresFit
<1>4. QED BY <1>1, <1>2, <1>3 DEF StatsNext

\* Where a call that frees a slot may be.
HolderSteps == {"idle", "revoke", "retry"}

\* What the dialogue may hold.
Dialogues ==
    LET devices == SUBSET Handsets
    IN  [open : BOOLEAN, print : devices, lists : devices, disabled : devices, dismissed : devices]

\* A dialogue that is open lists somebody, and a button it has disabled belongs to a call
\* that is under way.
ModalInv ==
    /\ live \subseteq Handsets /\ member \in BOOLEAN
    /\ freeing \in [Handsets -> HolderSteps]
    /\ modal \in Dialogues
    /\ modal.open => modal.lists # {}
    /\ \A h \in modal.disabled : freeing[h] # "idle"

\* A step of one machine leaves the devices alone, unless it is theirs.
LEMMA DevicesSteps ==
    ASSUME [MCNext]_clientVars
    PROVE  [DevicesNext]_listVars
BY DEF MCNext, Only, clientVars, partVars

\* As long as this browser waits for a slot, somebody holds one.
LEMMA SomebodyHolds ==
    ASSUME live \subseteq Handsets, ~member, Taken >= Slots
    PROVE  live # {}
<1>1. Cardinality(live) >= Slots
  <2>1. Cardinality(live) \in Nat BY FS_Subset, FS_CardinalityType, DevicesAssumption
  <2>2. QED BY <2>1 DEF Taken
<1>2. Cardinality({}) = 0 BY FS_EmptySet
<1>3. QED BY <1>1, <1>2, DevicesAssumption

-----------------------------------------------------------------------------
\* Each step of the devices keeps the invariant of the dialogue: those that change neither
\* it, nor the calls under way, nor who holds a slot, and the others one by one.
LEMMA DevicesStep ==
    ASSUME ModalInv, [DevicesNext]_listVars
    PROVE  ModalInv'
<1>1. ASSUME live' \subseteq Handsets, UNCHANGED <<member, modal, freeing>> PROVE ModalInv'
  BY <1>1 DEF ModalInv
<1>2. CASE \E h \in Handsets : SignsIn(h) \/ Dials(h) \/ PressesOff(h) \/ PressesOut(h)
  <2>1. live' \subseteq Handsets /\ UNCHANGED <<member, modal, freeing>>
    BY <1>2 DEF SignsIn, Dials, PressesOff, PressesOut, ModalInv
  <2>2. QED BY <1>1, <2>1
<1>3. CASE SeesMap \/ ClosesTunnel \/ RevokesOther \/ RefreshesMap
  <2>1. live' \subseteq Handsets /\ UNCHANGED <<member, modal, freeing>>
    BY <1>3 DEF SeesMap, ClosesTunnel, RevokesOther, RefreshesMap, Revoked, ModalInv
  <2>2. QED BY <1>1, <2>1
<1>4. CASE UNCHANGED listVars BY <1>1, <1>4 DEF listVars, ModalInv
<1>5. CASE WantsIn
  <2>1. UNCHANGED <<live, freeing>> /\ ~member /\ ~modal.open BY <1>5 DEF WantsIn
  <2>2. CASE modal' = modal
    <3>1. member' \in BOOLEAN BY <1>5, <2>2 DEF WantsIn, ModalInv
    <3>2. QED BY <2>1, <2>2, <3>1 DEF ModalInv
  <2>3. CASE modal' # modal
    <3>1. /\ ~(Taken < Slots) /\ member' = member
          /\ modal' = [modal EXCEPT !.open = TRUE, !.print = live, !.lists = live, !.disabled = {}]
      BY <1>5, <2>3 DEF WantsIn
    <3>2. Taken >= Slots
      <4>1. Cardinality(live) \in Nat BY FS_Subset, FS_CardinalityType, DevicesAssumption DEF ModalInv
      <4>2. QED BY <3>1, <4>1, <2>1, DevicesAssumption DEF Taken
    <3>3. live # {} BY <2>1, <3>2, SomebodyHolds DEF ModalInv
    <3>4. modal' \in Dialogues /\ modal'.lists = live /\ modal'.disabled = {}
      BY <3>1 DEF ModalInv, Dialogues
    <3>5. QED BY <2>1, <3>1, <3>3, <3>4 DEF ModalInv
  <2>4. QED BY <2>2, <2>3
<1>6. CASE Dismisses
  <2>1. UNCHANGED <<live, member, freeing>> /\ modal' = [Shut EXCEPT !.dismissed = modal.print]
    BY <1>6 DEF Dismisses
  <2>2. modal' \in Dialogues /\ ~modal'.open /\ modal'.disabled = {}
    BY <2>1 DEF ModalInv, Dialogues, Shut
  <2>3. QED BY <2>1, <2>2 DEF ModalInv
<1>7. ASSUME NEW h \in Handsets, PressesRelease(h) PROVE ModalInv'
  <2>1. /\ UNCHANGED <<live, member>>
        /\ modal' = [modal EXCEPT !.disabled = @ \cup {h}]
        /\ freeing' = [freeing EXCEPT ![h] = "revoke"]
    BY <1>7 DEF PressesRelease
  <2>2. modal' \in Dialogues /\ modal'.disabled = modal.disabled \cup {h}
        /\ modal'.open = modal.open /\ modal'.lists = modal.lists
    BY <2>1 DEF ModalInv, Dialogues
  <2>3. freeing' \in [Handsets -> HolderSteps] BY <2>1 DEF ModalInv, HolderSteps
  <2>4. \A g \in modal'.disabled : freeing'[g] # "idle"
    BY <2>1, <2>2 DEF ModalInv, Dialogues
  <2>5. QED BY <2>1, <2>2, <2>3, <2>4 DEF ModalInv
<1>8. ASSUME NEW h \in Handsets, RevokesHolder(h) PROVE ModalInv'
  <2>1. CASE Revoked(h) /\ freeing' = [freeing EXCEPT ![h] = "retry"] /\ UNCHANGED <<modal, member>>
    <3>1. live' \subseteq Handsets BY <2>1 DEF Revoked, ModalInv
    <3>2. freeing' \in [Handsets -> HolderSteps] BY <2>1 DEF ModalInv, HolderSteps
    <3>3. \A g \in modal'.disabled : freeing'[g] # "idle" BY <2>1 DEF ModalInv, Dialogues
    <3>4. QED BY <2>1, <3>1, <3>2, <3>3 DEF ModalInv
  <2>2. CASE /\ modal' = Enabled(modal, h) /\ freeing' = [freeing EXCEPT ![h] = "idle"]
             /\ UNCHANGED <<live, member>>
    <3>1. modal' \in Dialogues /\ modal'.disabled = modal.disabled \ {h}
          /\ modal'.open = modal.open /\ modal'.lists = modal.lists
      BY <2>2 DEF ModalInv, Dialogues, Enabled
    <3>2. freeing' \in [Handsets -> HolderSteps] BY <2>2 DEF ModalInv, HolderSteps
    <3>3. \A g \in modal'.disabled : freeing'[g] # "idle"
      BY <2>2, <3>1 DEF ModalInv, Dialogues
    <3>4. QED BY <2>2, <3>1, <3>2, <3>3 DEF ModalInv
  <2>3. QED BY <1>8, <2>1, <2>2 DEF RevokesHolder
<1>9. ASSUME NEW h \in Handsets, Retries(h) PROVE ModalInv'
  <2>1. freeing' = [freeing EXCEPT ![h] = "idle"] /\ UNCHANGED live BY <1>9 DEF Retries
  <2>2. freeing' \in [Handsets -> HolderSteps] BY <2>1 DEF ModalInv, HolderSteps
  <2>3. CASE member' = TRUE /\ modal' = Shut
    <3>1. modal' \in Dialogues /\ ~modal'.open /\ modal'.disabled = {}
      BY <2>3 DEF Dialogues, Shut
    <3>2. QED BY <2>1, <2>2, <2>3, <3>1 DEF ModalInv
  <2>4. CASE /\ ~member /\ Taken >= Slots /\ UNCHANGED member
             /\ modal' = [modal EXCEPT !.lists = live, !.disabled = {}]
    <3>1. live # {} BY <2>4, SomebodyHolds DEF ModalInv
    <3>2. modal' \in Dialogues /\ modal'.lists = live /\ modal'.disabled = {}
      BY <2>4 DEF ModalInv, Dialogues
    <3>3. QED BY <2>1, <2>2, <2>4, <3>1, <3>2 DEF ModalInv
  <2>5. CASE UNCHANGED member /\ modal' = Enabled(modal, h)
    <3>1. modal' \in Dialogues /\ modal'.disabled = modal.disabled \ {h}
          /\ modal'.open = modal.open /\ modal'.lists = modal.lists
      BY <2>5 DEF ModalInv, Dialogues, Enabled
    <3>2. \A g \in modal'.disabled : freeing'[g] # "idle"
      BY <2>1, <3>1 DEF ModalInv, Dialogues
    <3>3. QED BY <2>1, <2>2, <2>5, <3>1, <3>2 DEF ModalInv
  <2>6. QED BY <1>9, <2>3, <2>4, <2>5 DEF Retries, AfterFailure
<1>10. QED BY <1>2, <1>3, <1>4, <1>5, <1>6, <1>7, <1>8, <1>9 DEF DevicesNext

\* A dialogue whose calls have all ended has no button disabled.
LEMMA ModalOpens == ModalInv => ModalLeadsOut
BY DEF ModalInv, ModalLeadsOut, Dialogues, NotFreeing

-----------------------------------------------------------------------------
(* The settings form and the map of the devices, in the popup.             *)

\* What is stored and pushed: a channel and the choice made on it.
Settings == [channel : Channels, choice : {0, 1}]
\* The account in a place, if any.
Somebody == People \cup {None}

\* What the worker will have stored when it has worked off the patches on their way.
InTheEnd == IF saves = <<>> THEN stored ELSE saves[Len(saves)]

\* What the variables of the form hold.
FormTypeOK ==
    /\ form \in Settings /\ stored \in Settings /\ saves \in Seq(Settings) /\ chosen \in {0, 1}
    /\ timer \in BOOLEAN /\ pending \in BOOLEAN /\ guard \in BOOLEAN /\ lost \in BOOLEAN
    /\ switching \in [pc : {"idle", "probe", "save", "sign_out"}, to : Channels \cup {None}]
    /\ switching.pc = "probe" => switching.to \in Channels
    /\ answer # None => answer.settings \in Settings

\* A choice that is not waiting for its save is on its way or stored; while it waits, or an
\* answer from before it may come, the form is guarded.
FormInv ==
    /\ FormTypeOK /\ ChoiceStays
    /\ ~lost /\ ~timer => InTheEnd.choice = chosen
    /\ timer => guard
    /\ saves # <<>> /\ answer # None => guard \/ pending
    /\ answer # None /\ Accepts /\ ~lost => answer.settings.choice = chosen

\* A step of one machine leaves the popup alone, unless it is the popup's.
LEMMA PopupSteps ==
    ASSUME [MCNext]_clientVars
    PROVE  [PopupNext]_popupVars
BY DEF MCNext, Only, clientVars, partVars

\* There is always the other channel.
LEMMA OtherChannel ==
    ASSUME NEW c PROVE (CHOOSE d \in Channels : d # c) \in Channels
<1>1. \E d \in Channels : d # c BY DEF Channels
<1>2. QED BY <1>1

\* A patch that is sent is what the worker will have stored in the end.
LEMMA SentIsLast ==
    ASSUME NEW s \in Seq(Settings), NEW patch \in Settings
    PROVE  /\ Append(s, patch) \in Seq(Settings) /\ Append(s, patch) # <<>>
           /\ Append(s, patch)[Len(Append(s, patch))] = patch
OBVIOUS

\* Taking the oldest patch from the queue leaves the newest where it is.
LEMMA LastStays ==
    ASSUME NEW s \in Seq(Settings), s # <<>>
    PROVE  /\ Head(s) \in Settings /\ Tail(s) \in Seq(Settings)
           /\ Tail(s) = <<>> => s[Len(s)] = Head(s)
           /\ Tail(s) # <<>> => Tail(s)[Len(Tail(s))] = s[Len(s)]
<1>1. Len(s) \in Nat /\ Len(s) # 0 /\ Len(Tail(s)) = Len(s) - 1 OBVIOUS
<1>2. Head(s) = s[1] /\ Head(s) \in Settings /\ Tail(s) \in Seq(Settings) OBVIOUS
<1>3. Len(<<>>) = 0 OBVIOUS
<1>4. /\ Tail(s) = <<>> => Len(s) = 1
      /\ Tail(s) # <<>> => Len(Tail(s)) \in 1..(Len(s) - 1)
  BY <1>1, <1>2, <1>3
<1>5. \A i \in 1..(Len(s) - 1) : Tail(s)[i] = s[i + 1] BY <1>1
<1>6. QED BY <1>1, <1>2, <1>4, <1>5

\* The person's changes and the saves of the form keep its invariant.
LEMMA SavingFits ==
    ASSUME FormInv, Changes \/ SavesForm \/ WorkerStores
    PROVE  FormInv'
<1>1. CASE Changes
  <2>1. /\ chosen' = 1 - form.choice /\ form' = [form EXCEPT !.choice = 1 - @]
        /\ timer' = TRUE /\ guard' = TRUE /\ lost' = FALSE
        /\ UNCHANGED <<stored, pending, saves, answer, switching>>
    BY <1>1 DEF Changes, peopleVars
  <2>2. form' \in Settings /\ form'.choice = chosen' /\ chosen' \in {0, 1}
    BY <2>1 DEF FormInv, FormTypeOK, Settings
  <2>3. FormTypeOK' BY <2>1, <2>2 DEF FormInv, FormTypeOK
  <2>4. QED BY <2>1, <2>2, <2>3 DEF FormInv, ChoiceStays, Accepts
<1>2. CASE SavesForm
  <2>1. /\ timer' = FALSE /\ saves' = Append(saves, form) /\ pending' = TRUE
        /\ UNCHANGED <<form, stored, chosen, guard, answer, switching, lost>>
    BY <1>2 DEF SavesForm, Send, peopleVars
  <2>2. saves' \in Seq(Settings) /\ saves' # <<>> /\ saves'[Len(saves')] = form
    BY <2>1, SentIsLast DEF FormInv, FormTypeOK
  <2>3. FormTypeOK' BY <2>1, <2>2 DEF FormInv, FormTypeOK
  <2>4. InTheEnd' = form BY <2>2 DEF InTheEnd
  <2>5. QED BY <2>1, <2>2, <2>3, <2>4 DEF FormInv, ChoiceStays, Accepts
<1>3. CASE WorkerStores
  <2>1. /\ saves # <<>> /\ saves' = Tail(saves)
        /\ \/ stored' = Head(saves) /\ lost' = lost
           \/ lost' = TRUE /\ stored' = stored
        /\ UNCHANGED <<form, chosen, timer, pending, guard, answer, switching>>
    BY <1>3 DEF WorkerStores, peopleVars
  <2>2. /\ Head(saves) \in Settings /\ saves' \in Seq(Settings)
        /\ saves' = <<>> => saves[Len(saves)] = Head(saves)
        /\ saves' # <<>> => saves'[Len(saves')] = saves[Len(saves)]
    BY <2>1, LastStays DEF FormInv, FormTypeOK
  <2>3. FormTypeOK' BY <2>1, <2>2 DEF FormInv, FormTypeOK
  <2>4. ~lost' => InTheEnd' = InTheEnd BY <2>1, <2>2 DEF InTheEnd, FormInv, FormTypeOK
  <2>5. QED BY <2>1, <2>2, <2>3, <2>4 DEF FormInv, ChoiceStays, Accepts
<1>4. QED BY <1>1, <1>2, <1>3

\* What ends a save, and the answers of the worker, keep the form's invariant.
LEMMA AnswersFit ==
    ASSUME "late_answer" \notin Events, FormInv, SaveEnds \/ GuardEnds \/ AsksState \/ AppliesState
    PROVE  FormInv'
<1>1. CASE SaveEnds
  <2>1. /\ pending' = FALSE /\ guard' = TRUE
        /\ UNCHANGED <<stored, chosen, timer, saves, answer, lost>>
        /\ \/ UNCHANGED <<form, switching>>
           \/ switching' = [switching EXCEPT !.pc = "sign_out"] /\ UNCHANGED form
           \/ /\ switching' = NotSwitching
              /\ form' = [form EXCEPT !.channel = CHOOSE c \in Channels : c # switching.to]
    BY <1>1 DEF SaveEnds
  <2>2. switching' \in [pc : {"idle", "probe", "save", "sign_out"}, to : Channels \cup {None}]
        /\ (switching'.pc = "probe" => switching'.to \in Channels)
    BY <2>1 DEF FormInv, FormTypeOK, NotSwitching
  <2>3. form' \in Settings /\ form'.choice = form.choice
    <3>1. PICK other \in Channels : form' = form \/ form' = [form EXCEPT !.channel = other]
      BY <2>1, OtherChannel
    <3>2. QED BY <3>1 DEF FormInv, FormTypeOK, Settings
  <2>4. FormTypeOK' BY <2>1, <2>2, <2>3 DEF FormInv, FormTypeOK
  <2>5. InTheEnd' = InTheEnd BY <2>1 DEF InTheEnd
  <2>6. QED BY <2>1, <2>3, <2>4, <2>5 DEF FormInv, ChoiceStays, Accepts
<1>2. CASE GuardEnds
  <2>1. /\ ~timer /\ saves = <<>> /\ guard' = FALSE
        /\ answer = None \/ answer.settings = stored
        /\ UNCHANGED <<form, stored, chosen, timer, pending, saves, answer, switching, lost>>
    BY <1>2 DEF GuardEnds, Happens, peopleVars
  <2>2. InTheEnd = stored /\ InTheEnd' = stored BY <2>1 DEF InTheEnd
  <2>3. FormTypeOK' BY <2>1 DEF FormInv, FormTypeOK
  <2>4. QED BY <2>1, <2>2, <2>3 DEF FormInv, ChoiceStays, Accepts
<1>3. CASE AsksState
  <2>1. /\ saves = <<>> /\ answer' = [settings |-> stored, who |-> tokens.who]
        /\ UNCHANGED <<form, stored, chosen, timer, pending, guard, saves, switching, lost>>
    BY <1>3 DEF AsksState, savingVars, peopleVars
  <2>2. answer'.settings = stored BY <2>1
  <2>3. InTheEnd = stored /\ InTheEnd' = stored BY <2>1 DEF InTheEnd
  <2>4. FormTypeOK' BY <2>1, <2>2 DEF FormInv, FormTypeOK
  <2>5. QED BY <2>1, <2>2, <2>3, <2>4 DEF FormInv, ChoiceStays, Accepts
<1>4. CASE AppliesState
  <2>1. /\ answer # None /\ answer' = None /\ form' = IF Accepts THEN answer.settings ELSE form
        /\ UNCHANGED <<stored, chosen, timer, pending, guard, saves, switching, lost>>
    BY <1>4 DEF AppliesState, savingVars
  <2>2. FormTypeOK' BY <2>1 DEF FormInv, FormTypeOK
  <2>3. InTheEnd' = InTheEnd BY <2>1 DEF InTheEnd
  <2>4. QED BY <2>1, <2>2, <2>3 DEF FormInv, ChoiceStays
<1>5. QED BY <1>1, <1>2, <1>3, <1>4

-----------------------------------------------------------------------------
\* The other steps of the popup keep it: a switch of planes sends the form, a popup that
\* closes sends the change that waits.
LEMMA PanelFits ==
    ASSUME FormInv,
           \/ BeginsSwitch \/ ProbesPlane \/ SignsOutHere \/ PopupCloses \/ TriesTokens
           \/ (\E p \in People : SignsInAs(p)) \/ AsksMap \/ ShowsMap \/ HidesMap
           \/ UNCHANGED popupVars
    PROVE  FormInv'
<1>1. ASSUME UNCHANGED <<form, stored, chosen, timer, pending, guard, saves, lost>>,
             answer' \in {answer, None},
             switching' \in [pc : {"idle", "probe", "save", "sign_out"}, to : Channels \cup {None}],
             switching'.pc = "probe" => switching'.to \in Channels
      PROVE  FormInv'
  <2>1. InTheEnd' = InTheEnd BY <1>1 DEF InTheEnd
  <2>2. FormTypeOK' BY <1>1 DEF FormInv, FormTypeOK
  <2>3. QED BY <1>1, <2>1, <2>2 DEF FormInv, ChoiceStays, Accepts
<1>2. CASE BeginsSwitch
  <2>1. PICK other \in Channels : switching' = [pc |-> "probe", to |-> other]
    BY <1>2, OtherChannel DEF BeginsSwitch
  <2>2. UNCHANGED <<form, stored, chosen, timer, pending, guard, saves, lost, answer>>
    BY <1>2 DEF BeginsSwitch, savingVars
  <2>3. /\ switching' \in [pc : {"idle", "probe", "save", "sign_out"}, to : Channels \cup {None}]
        /\ switching'.to \in Channels
    BY <2>1
  <2>4. QED BY <1>1, <2>2, <2>3
<1>3. CASE ProbesPlane
  <2>1. switching.pc = "probe" /\ UNCHANGED <<stored, chosen, timer, guard, answer, lost>>
    BY <1>3 DEF ProbesPlane
  <2>2. switching' \in [pc : {"idle", "probe", "save", "sign_out"}, to : Channels \cup {None}]
        /\ switching'.pc # "probe"
    BY <1>3 DEF ProbesPlane, FormInv, FormTypeOK, NotSwitching
  <2>3. CASE UNCHANGED <<form, saves, pending>> BY <1>1, <2>1, <2>2, <2>3
  <2>4. CASE form' = [form EXCEPT !.channel = switching.to] /\ Send(form')
    <3>1. form' \in Settings /\ form'.choice = form.choice
      BY <2>1, <2>4 DEF FormInv, FormTypeOK, Settings
    <3>2. PICK patch : patch = form' OBVIOUS
    <3>3. saves' = Append(saves, patch) /\ pending' = TRUE /\ patch \in Settings
      BY <2>4, <3>1, <3>2 DEF Send
    <3>4. saves' \in Seq(Settings) /\ saves' # <<>> /\ saves'[Len(saves')] = patch
      BY <3>3, SentIsLast DEF FormInv, FormTypeOK
    <3>5. InTheEnd' = patch BY <3>4 DEF InTheEnd
    <3>6. FormTypeOK' BY <2>1, <2>2, <3>1, <3>3, <3>4 DEF FormInv, FormTypeOK
    <3>7. QED BY <2>1, <3>1, <3>2, <3>3, <3>4, <3>5, <3>6 DEF FormInv, ChoiceStays, Accepts
  <2>5. QED BY <1>3, <2>3, <2>4 DEF ProbesPlane
<1>4. CASE SignsOutHere
  <2>1. UNCHANGED <<form, stored, chosen, timer, pending, guard, saves, lost>>
        /\ answer' = None /\ switching' = NotSwitching
    BY <1>4 DEF SignsOutHere, savingVars
  <2>2. QED BY <1>1, <2>1 DEF NotSwitching
<1>5. CASE PopupCloses
  <2>1. /\ saves = <<>> /\ saves' = IF timer THEN <<form>> ELSE <<>>
        /\ timer' = FALSE /\ pending' = FALSE /\ guard' = FALSE
        /\ switching' = NotSwitching /\ answer' = None
        /\ UNCHANGED <<form, stored, chosen, lost>>
    BY <1>5 DEF PopupCloses, Flushed
  <2>2. switching' \in [pc : {"idle", "probe", "save", "sign_out"}, to : Channels \cup {None}]
        /\ switching'.pc # "probe"
    BY <2>1 DEF NotSwitching
  <2>3. saves' \in Seq(Settings) BY <2>1 DEF FormInv, FormTypeOK
  <2>4. InTheEnd' = IF timer THEN form ELSE InTheEnd BY <2>1 DEF InTheEnd
  <2>5. FormTypeOK' BY <2>1, <2>2, <2>3 DEF FormInv, FormTypeOK
  <2>6. QED BY <2>1, <2>4, <2>5 DEF FormInv, ChoiceStays, Accepts
<1>6. CASE \/ TriesTokens \/ (\E p \in People : SignsInAs(p)) \/ AsksMap \/ ShowsMap
           \/ HidesMap \/ UNCHANGED popupVars
  <2>1. UNCHANGED <<form, stored, chosen, timer, pending, guard, saves, lost, answer, switching>>
    BY <1>6 DEF TriesTokens, SignsInAs, AsksMap, ShowsMap, HidesMap, popupVars, savingVars, peopleVars
  <2>2. QED BY <1>1, <2>1 DEF FormInv, FormTypeOK
<1>7. QED BY <1>2, <1>3, <1>4, <1>5, <1>6

\* Whose the map, the answers on their way and the tokens are: one account's, as long as
\* any of them is somebody's.
MapInv ==
    /\ account \in Somebody /\ tokens.who \in Somebody /\ shownMap \in Somebody
    /\ mapAsked \in [who : Somebody, of : Somebody, current : BOOLEAN]
    /\ account # None => tokens.who \in {account, None}
    /\ answer # None /\ answer.who # None =>
          /\ tokens.who \in {answer.who, None} /\ account \in {answer.who, None}
          /\ shownMap \in {answer.who, None}
    /\ answer # None => answer.who \in Somebody
    /\ shownMap # None => tokens.who \in {shownMap, None} /\ account \in {shownMap, None}
    /\ mapAsked.current => mapAsked.who # None /\ mapAsked.of \in {mapAsked.who, None}

\* Every step of the popup keeps it.
LEMMA MapStep ==
    ASSUME MapInv, [PopupNext]_popupVars
    PROVE  MapInv'
<1>1. CASE UNCHANGED <<account, tokens, shownMap, mapAsked, answer>> BY <1>1 DEF MapInv
<1>2. CASE \/ Changes \/ SavesForm \/ WorkerStores \/ SaveEnds \/ GuardEnds \/ ProbesPlane
           \/ UNCHANGED popupVars
  BY <1>1, <1>2 DEF Changes, SavesForm, WorkerStores, SaveEnds, GuardEnds, ProbesPlane, popupVars,
                    peopleVars, mapVars
<1>3. CASE AsksState
  <2>1. answer'.who = tokens.who /\ UNCHANGED <<account, tokens, shownMap, mapAsked>>
    BY <1>3 DEF AsksState, peopleVars, mapVars
  <2>2. QED BY <2>1 DEF MapInv
<1>4. CASE AppliesState
  <2>1. /\ answer # None /\ answer' = None /\ account' = answer.who
        /\ UNCHANGED <<tokens, shownMap, mapAsked>>
    BY <1>4 DEF AppliesState, mapVars
  <2>2. QED BY <2>1 DEF MapInv
<1>5. CASE BeginsSwitch
  <2>1. /\ shownMap' = None /\ mapAsked' = [mapAsked EXCEPT !.current = FALSE]
        /\ UNCHANGED <<account, tokens, answer>>
    BY <1>5 DEF BeginsSwitch
  <2>2. QED BY <2>1 DEF MapInv, Somebody
<1>6. CASE SignsOutHere
  <2>1. /\ tokens' = NoTokens /\ account' = None /\ shownMap' = None /\ answer' = None
        /\ mapAsked' = [mapAsked EXCEPT !.current = FALSE]
    BY <1>6 DEF SignsOutHere
  <2>2. tokens'.who = None BY <2>1 DEF NoTokens
  <2>3. QED BY <2>1, <2>2 DEF MapInv, Somebody
<1>7. CASE PopupCloses
  <2>1. answer' = None /\ shownMap' = None /\ mapAsked' = NoMap /\ UNCHANGED <<account, tokens>>
    BY <1>7 DEF PopupCloses
  <2>2. QED BY <2>1 DEF MapInv, NoMap, Somebody
<1>8. CASE TriesTokens
  <2>1. tokens' = NoTokens /\ UNCHANGED <<account, shownMap, mapAsked, answer>>
    BY <1>8 DEF TriesTokens, DropsRefused, mapVars
  <2>2. tokens'.who = None BY <2>1 DEF NoTokens
  <2>3. QED BY <2>1, <2>2 DEF MapInv, Somebody
<1>9. ASSUME NEW p \in People, SignsInAs(p) PROVE MapInv'
  <2>1. /\ account = None /\ shownMap = None /\ answer = None
        /\ tokens' = [who |-> p, plane |-> stored.channel]
        /\ UNCHANGED <<account, shownMap, mapAsked, answer>>
    BY <1>9 DEF SignsInAs, mapVars
  <2>2. tokens'.who = p BY <2>1
  <2>3. QED BY <2>1, <2>2 DEF MapInv, Somebody
<1>10. CASE AsksMap
  <2>1. /\ account # None
        /\ mapAsked' = [who |-> account, of |-> tokens.who, current |-> TRUE]
        /\ UNCHANGED <<account, tokens, shownMap, answer>>
    BY <1>10 DEF AsksMap, peopleVars
  <2>2. QED BY <2>1 DEF MapInv
<1>11. CASE ShowsMap
  <2>1. /\ mapAsked' = NoMap /\ UNCHANGED <<account, tokens, answer>>
        /\ shownMap' = IF StillCurrent THEN mapAsked.of ELSE shownMap
    BY <1>11 DEF ShowsMap, peopleVars
  <2>2. mapAsked' \in [who : Somebody, of : Somebody, current : BOOLEAN] /\ ~mapAsked'.current
    BY <2>1 DEF NoMap, Somebody
  <2>3. CASE ~StillCurrent BY <2>1, <2>2, <2>3 DEF MapInv
  <2>4. CASE StillCurrent
    <3>1. mapAsked.who = account /\ account # None /\ mapAsked.of \in {account, None}
      BY <2>4 DEF StillCurrent, MapInv
    <3>2. QED BY <2>1, <2>2, <2>4, <3>1 DEF MapInv
  <2>5. QED BY <2>3, <2>4
<1>12. CASE HidesMap
  BY <1>12 DEF HidesMap, MapInv, peopleVars, Somebody
<1>13. QED BY <1>2, <1>3, <1>4, <1>5, <1>6, <1>7, <1>8, <1>9, <1>10, <1>11, <1>12 DEF PopupNext

-----------------------------------------------------------------------------
\* The popup starts with what the worker has stored, for the account it has tokens of, and
\* with no map, no figures and no dialogue.
LEMMA PopupStarts ==
    ASSUME MCInit
    PROVE  FormInv /\ MapInv /\ StatsInv /\ ModalInv
<1>1. FormInv
  <2>1. PopupInit BY DEF MCInit
  <2>2. /\ form = [channel |-> "prod", choice |-> 0] /\ stored = form /\ chosen = 0
        /\ timer = FALSE /\ pending = FALSE /\ guard = FALSE /\ lost = FALSE
        /\ saves = <<>> /\ answer = None /\ switching = NotSwitching
    BY <2>1 DEF PopupInit
  <2>3. form \in Settings /\ form.choice = 0 BY <2>2 DEF Settings, Channels
  <2>4. /\ switching \in [pc : {"idle", "probe", "save", "sign_out"}, to : Channels \cup {None}]
        /\ switching.pc # "probe"
    BY <2>2 DEF NotSwitching
  <2>5. FormTypeOK
    <3>1. <<>> \in Seq(Settings) OBVIOUS
    <3>2. stored \in Settings /\ saves \in Seq(Settings) BY <2>2, <2>3, <3>1
    <3>3. timer \in BOOLEAN /\ pending \in BOOLEAN /\ guard \in BOOLEAN /\ lost \in BOOLEAN
      BY <2>2
    <3>4. QED BY <2>2, <2>3, <2>4, <3>2, <3>3 DEF FormTypeOK
  <2>6. QED BY <2>2, <2>3, <2>5 DEF FormInv, ChoiceStays, InTheEnd
<1>2. MapInv
  <2>1. PopupInit BY DEF MCInit
  <2>2. PICK p \in People : account = p /\ tokens = [who |-> p, plane |-> "prod"]
    BY <2>1 DEF PopupInit
  <2>3. answer = None /\ shownMap = None /\ mapAsked = NoMap BY <2>1 DEF PopupInit
  <2>4. QED BY <2>2, <2>3 DEF MapInv, NoMap, Somebody
<1>3. StatsInv BY DEF MCInit, StatsInit, StatsInv, FiguresFit
<1>4. ModalInv
  <2>1. DevicesInit BY DEF MCInit
  <2>2. modal \in Dialogues /\ ~modal.open /\ modal.disabled = {}
    BY <2>1 DEF DevicesInit, Shut, Dialogues
  <2>3. QED BY <2>1, <2>2 DEF DevicesInit, ModalInv, NotFreeing, HolderSteps
<1>5. QED BY <1>1, <1>2, <1>3, <1>4

\* The popup never shows what is not: no poll sets a choice back whose save was not lost, the
\* map is of the account that is signed in, the figures are of the period chosen last, and
\* the dialogue of the limit always leaves a way out.  Whichever saves, replies and calls are
\* lost, and for any number of accounts, periods and devices, as long as an answer does not
\* outlast the guard (queueSave, applyState, switchChannel, refreshServiceAndMap, loadStats,
\* the limit dialogue).
THEOREM PopupKept == "late_answer" \notin Events => (MCSpec => []PopupSafe)
<1> SUFFICES ASSUME "late_answer" \notin Events PROVE MCSpec => []PopupSafe
  OBVIOUS
<1> DEFINE Inv == FormInv /\ MapInv /\ StatsInv /\ ModalInv
<1>1. MCInit => Inv BY PopupStarts
<1>2. Inv /\ [MCNext]_clientVars => Inv'
  <2> SUFFICES ASSUME Inv, [MCNext]_clientVars PROVE Inv'
    OBVIOUS
  <2>1. FormInv' BY PopupSteps, SavingFits, AnswersFit, PanelFits DEF PopupNext
  <2>2. MapInv' BY PopupSteps, MapStep
  <2>3. StatsInv' BY StatsSteps, StatsStep
  <2>4. ModalInv' BY DevicesSteps, DevicesStep
  <2>5. QED BY <2>1, <2>2, <2>3, <2>4
<1>3. Inv => PopupSafe
  BY ModalOpens DEF FormInv, MapInv, StatsInv, MapIsMine, PopupSafe
<1>4. QED BY <1>1, <1>2, <1>3, PTL DEF MCSpec

-----------------------------------------------------------------------------
(* The browser gateway on a node.                                          *)

\* A tunnel on the gateway.
Requests == [pc : {"none", "dialling", "live"}, of : Gadgets \cup {None}]
\* What a check on a device may answer.
Verdicts == {"ok", "refused", "maintenance", "unreachable", None}
\* The check that is under way, and what it has been told.
Rounds == [on : BOOLEAN, tunnels : SUBSET Tunnels, of : Gadgets \cup {None}, says : Verdicts]

\* What the variables of the gateway hold.
GatewayTypeOK ==
    /\ tunnel \in [Tunnels -> Requests]
    /\ \A t \in Tunnels : tunnel[t].pc # "none" => tunnel[t].of \in Gadgets
    /\ active \in [Gadgets -> Nat]
    /\ right \in [Gadgets -> BOOLEAN]
    /\ round \in Rounds

\* An answer that is awaited was true when it was given, and a refusal and a maintenance
\* are true for ever after.
AnswerIsTrue ==
    round.of # None =>
        /\ round.says = "refused" => ~right[round.of]
        /\ round.says = "maintenance" => PlaneOf[round.of] \in closedFor

\* What each step of the gateway keeps.
GatewayInv == GatewayTypeOK /\ CountIsTrue /\ AnswerIsTrue

\* A step of one machine leaves the gateway alone, unless it is the gateway's.
LEMMA GatewaySteps ==
    ASSUME [MCNext]_clientVars
    PROVE  [GatewayNext]_gatewayVars
BY DEF MCNext, Only, clientVars, partVars

\* The tunnels of a device can be counted.
LEMMA LiveAreFew ==
    ASSUME NEW S \in SUBSET Tunnels
    PROVE  IsFiniteSet(S) /\ Cardinality(S) \in Nat
BY FS_Subset, FS_CardinalityType, GatewayAssumption

\* Where no tunnel comes to live or ceases to, the count stays.
LEMMA CountStays ==
    ASSUME GatewayInv, active' = active,
           \A t \in Tunnels, d \in Gadgets :
               (tunnel'[t].pc = "live" /\ tunnel'[t].of = d) <=> (tunnel[t].pc = "live" /\ tunnel[t].of = d)
    PROVE  CountIsTrue'
<1>1. \A d \in Gadgets : LiveTunnels(d)' = LiveTunnels(d) BY DEF LiveTunnels
<1>2. QED BY <1>1 DEF GatewayInv, CountIsTrue

\* Closing any tunnels keeps the count: those that did not live were not counted.
LEMMA ClosingCounts ==
    ASSUME GatewayInv, NEW S \in SUBSET Tunnels, CloseAll(S)
    PROVE  /\ tunnel' \in [Tunnels -> Requests]
           /\ \A t \in Tunnels : tunnel'[t].pc # "none" => tunnel'[t].of \in Gadgets
           /\ \A t \in Tunnels : tunnel'[t] = IF t \in S THEN NoTunnel ELSE tunnel[t]
           /\ active' \in [Gadgets -> Nat] /\ CountIsTrue'
<1> DEFINE cut(d) == {t \in Counted(S) : tunnel[t].of = d}
<1>1. /\ tunnel' = [t \in Tunnels |-> IF t \in S THEN NoTunnel ELSE tunnel[t]]
      /\ active' = [d \in Gadgets |->
                      IF active[d] > Cardinality(cut(d)) THEN active[d] - Cardinality(cut(d)) ELSE 0]
  BY DEF CloseAll
<1>2. \A t \in Tunnels : tunnel'[t] = IF t \in S THEN NoTunnel ELSE tunnel[t] BY <1>1
<1>3. tunnel' \in [Tunnels -> Requests]
      /\ \A t \in Tunnels : tunnel'[t].pc # "none" => tunnel'[t].of \in Gadgets
  BY <1>1 DEF NoTunnel, Requests, GatewayInv, GatewayTypeOK
<1>4. ASSUME NEW d \in Gadgets
      PROVE  active'[d] \in Nat /\ active'[d] = Cardinality(LiveTunnels(d)')
  <2>1. LiveTunnels(d)' = LiveTunnels(d) \ cut(d) /\ cut(d) \subseteq LiveTunnels(d)
        /\ LiveTunnels(d) \in SUBSET Tunnels
    BY <1>2 DEF LiveTunnels, Counted, NoTunnel
  <2>2. /\ Cardinality(LiveTunnels(d) \ cut(d)) = Cardinality(LiveTunnels(d)) - Cardinality(cut(d))
        /\ Cardinality(cut(d)) \in Nat /\ Cardinality(LiveTunnels(d)) \in Nat
        /\ Cardinality(cut(d)) <= Cardinality(LiveTunnels(d))
    <3>1. LiveTunnels(d) \cap cut(d) = cut(d) BY <2>1
    <3>2. QED BY <2>1, <3>1, FS_Difference, FS_Subset, LiveAreFew
  <2>3. active[d] = Cardinality(LiveTunnels(d)) BY DEF GatewayInv, CountIsTrue
  <2> HIDE DEF cut
  <2>4. QED BY <1>1, <2>1, <2>2, <2>3
<1>5. active' \in [Gadgets -> Nat] BY <1>1, <1>4
<1>6. QED BY <1>2, <1>3, <1>4, <1>5 DEF CountIsTrue

\* A step that leaves the tunnels and the rounds where they are.
LEMMA TunnelsStay ==
    ASSUME GatewayInv, UNCHANGED <<tunnel, active, round>>,
           right' \in [Gadgets -> BOOLEAN], \A d \in Gadgets : right'[d] => right[d],
           closedFor \subseteq closedFor'
    PROVE  GatewayInv'
<1>1. CountIsTrue' BY CountStays
<1>2. AnswerIsTrue'
  <2>1. round.of # None => round.of \in Gadgets BY DEF GatewayInv, GatewayTypeOK, Rounds
  <2>2. QED BY <2>1 DEF GatewayInv, AnswerIsTrue
<1>3. QED BY <1>1, <1>2 DEF GatewayInv, GatewayTypeOK

-----------------------------------------------------------------------------
\* Every step of the gateway keeps its invariant.
LEMMA GatewayStep ==
    ASSUME GatewayInv, [GatewayNext]_gatewayVars
    PROVE  GatewayInv'
<1>1. ASSUME NEW t \in Tunnels, NEW d \in Gadgets, Connects(t, d) PROVE GatewayInv'
  <2>1. /\ tunnel[t].pc = "none" /\ UNCHANGED <<right, down, closedFor, active, round>>
        /\ tunnel' = tunnel \/ tunnel' = [tunnel EXCEPT ![t] = [pc |-> "dialling", of |-> d]]
    BY <1>1 DEF Connects, planeVars
  <2>2. tunnel' \in [Tunnels -> Requests]
        /\ \A r \in Tunnels : tunnel'[r].pc # "none" => tunnel'[r].of \in Gadgets
    BY <2>1 DEF GatewayInv, GatewayTypeOK, Requests
  <2>3. \A r \in Tunnels : tunnel'[r] = tunnel[r] \/ (tunnel[r].pc = "none" /\ tunnel'[r].pc = "dialling")
    BY <2>1 DEF GatewayInv, GatewayTypeOK
  <2>4. CountIsTrue'
    <3>1. \A r \in Tunnels, g \in Gadgets :
            (tunnel'[r].pc = "live" /\ tunnel'[r].of = g) <=> (tunnel[r].pc = "live" /\ tunnel[r].of = g)
      BY <2>3
    <3>2. QED BY <2>1, <3>1, CountStays
  <2>5. QED BY <2>1, <2>2, <2>4 DEF GatewayInv, GatewayTypeOK, AnswerIsTrue
<1>2. ASSUME NEW t \in Tunnels, Establishes(t) PROVE GatewayInv'
  <2> DEFINE who == tunnel[t].of
  <2>1. tunnel[t].pc = "dialling" /\ who \in Gadgets
        /\ UNCHANGED <<right, down, closedFor, round>>
    BY <1>2 DEF Establishes, planeVars, GatewayInv, GatewayTypeOK
  <2>2. CASE tunnel' = [tunnel EXCEPT ![t] = NoTunnel] /\ UNCHANGED active
    <3>1. tunnel' \in [Tunnels -> Requests]
          /\ \A r \in Tunnels : tunnel'[r].pc # "none" => tunnel'[r].of \in Gadgets
      BY <2>2 DEF GatewayInv, GatewayTypeOK, Requests, NoTunnel
    <3>2. \A r \in Tunnels : tunnel'[r] = tunnel[r] \/ (tunnel[r].pc = "dialling" /\ tunnel'[r].pc = "none")
      BY <2>1, <2>2 DEF GatewayInv, GatewayTypeOK, NoTunnel
    <3>3. \A r \in Tunnels, g \in Gadgets :
            (tunnel'[r].pc = "live" /\ tunnel'[r].of = g) <=> (tunnel[r].pc = "live" /\ tunnel[r].of = g)
      BY <3>2
    <3>4. CountIsTrue' BY <2>2, <3>3, CountStays
    <3>5. QED BY <2>1, <2>2, <3>1, <3>4 DEF GatewayInv, GatewayTypeOK, AnswerIsTrue
  <2>3. CASE /\ tunnel' = [tunnel EXCEPT ![t].pc = "live"]
             /\ active' = [active EXCEPT ![tunnel[t].of] = @ + 1]
    <3>1. tunnel' \in [Tunnels -> Requests]
          /\ \A r \in Tunnels : tunnel'[r].pc # "none" => tunnel'[r].of \in Gadgets
      BY <2>1, <2>3 DEF GatewayInv, GatewayTypeOK, Requests
    <3>2. tunnel'[t].pc = "live" /\ tunnel'[t].of = who
          /\ \A r \in Tunnels \ {t} : tunnel'[r] = tunnel[r]
      BY <2>3 DEF GatewayInv, GatewayTypeOK, Requests
    <3> HIDE DEF who
    <3>3. active' \in [Gadgets -> Nat] /\ active'[who] = active[who] + 1
          /\ \A g \in Gadgets \ {who} : active'[g] = active[g]
      BY <2>1, <2>3 DEF GatewayInv, GatewayTypeOK, who
    <3>4. ASSUME NEW g \in Gadgets PROVE active'[g] = Cardinality(LiveTunnels(g)')
      <4>1. active[g] = Cardinality(LiveTunnels(g)) BY DEF GatewayInv, CountIsTrue
      <4>2. IsFiniteSet(LiveTunnels(g)) BY LiveAreFew DEF LiveTunnels
      <4>3. CASE g = who
        <5>1. LiveTunnels(g)' = LiveTunnels(g) \cup {t} /\ t \notin LiveTunnels(g)
          BY <2>1, <3>2, <4>3 DEF LiveTunnels
        <5>2. QED BY <3>3, <4>1, <4>2, <4>3, <5>1, FS_AddElement, SMTT(30)
      <4>4. CASE g # who
        <5>1. LiveTunnels(g)' = LiveTunnels(g) BY <2>1, <3>2, <4>4 DEF LiveTunnels
        <5>2. QED BY <3>3, <4>1, <4>4, <5>1
      <4>5. QED BY <4>3, <4>4
    <3>5. QED BY <2>1, <3>1, <3>3, <3>4 DEF GatewayInv, GatewayTypeOK, AnswerIsTrue, CountIsTrue
  <2>4. QED BY <1>2, <2>2, <2>3 DEF Establishes
<1>3. ASSUME NEW t \in Tunnels, Hangs(t) PROVE GatewayInv'
  <2>1. CloseAll({t}) /\ UNCHANGED <<right, down, closedFor>>
        /\ round' = [round EXCEPT !.tunnels = @ \ {t}]
    BY <1>3 DEF Hangs, planeVars
  <2>2. round' \in Rounds /\ round'.of = round.of /\ round'.says = round.says
    BY <2>1 DEF GatewayInv, GatewayTypeOK, Rounds
  <2>3. QED BY <2>1, <2>2, ClosingCounts DEF GatewayInv, GatewayTypeOK, AnswerIsTrue
<1>4. ASSUME NEW d \in Gadgets, Forgets(d) \/ LosesRight(d) PROVE GatewayInv'
  <2>1. UNCHANGED <<tunnel, active, round, closedFor>>
        /\ (right' = right \/ right' = [right EXCEPT ![d] = FALSE])
    BY <1>4 DEF Forgets, LosesRight, planeVars
  <2>2. right' \in [Gadgets -> BOOLEAN] /\ \A g \in Gadgets : right'[g] => right[g]
    BY <2>1 DEF GatewayInv, GatewayTypeOK
  <2>3. QED BY <2>1, <2>2, TunnelsStay
<1>5. ASSUME NEW d \in Gadgets, AskFor(d) PROVE GatewayInv'
  <2>1. round' = [round EXCEPT !.of = d, !.says = Verdict(d)]
        /\ UNCHANGED <<right, down, closedFor, tunnel, active>>
    BY <1>5 DEF AskFor, planeVars
  <2>2. Verdict(d) \in Verdicts BY DEF Verdict, Verdicts
  <2>3. round' \in Rounds /\ round'.of = d /\ round'.says = Verdict(d)
    BY <2>1, <2>2 DEF GatewayInv, GatewayTypeOK, Rounds
  <2>4. /\ Verdict(d) = "refused" => ~right[d]
        /\ Verdict(d) = "maintenance" => PlaneOf[d] \in closedFor
    BY DEF Verdict
  <2>5. CountIsTrue' BY <2>1, CountStays
  <2>6. QED BY <2>1, <2>3, <2>4, <2>5 DEF GatewayInv, GatewayTypeOK, AnswerIsTrue
<1>6. ASSUME NEW p \in Planes, CutoffEnds(p) \/ PlaneFails(p) \/ PlaneAnswers(p) \/ MaintenanceOf(p)
      PROVE  GatewayInv'
  <2>1. UNCHANGED <<right, tunnel, active, round>> /\ closedFor \subseteq closedFor'
    BY <1>6 DEF CutoffEnds, PlaneFails, PlaneAnswers, MaintenanceOf, planeVars
  <2>2. QED BY <2>1, TunnelsStay DEF GatewayInv, GatewayTypeOK
<1>7. CASE BeginRound \/ EndRound
  <2>1. UNCHANGED <<right, down, closedFor, tunnel, active>>
    BY <1>7 DEF BeginRound, EndRound, planeVars
  <2>2. PICK S \in SUBSET Tunnels :
          round' \in {NoRound, [on |-> TRUE, tunnels |-> S, of |-> None, says |-> None]}
    BY <1>7 DEF BeginRound, EndRound, NoRound
  <2>3. round' \in Rounds /\ round'.of = None
    <3>1. NoRound \in Rounds /\ NoRound.of = None BY DEF NoRound, Rounds, Verdicts
    <3>2. [on |-> TRUE, tunnels |-> S, of |-> None, says |-> None] \in Rounds
      BY DEF Rounds, Verdicts
    <3>3. CASE round' = NoRound BY <3>1, <3>3
    <3>4. CASE round' = [on |-> TRUE, tunnels |-> S, of |-> None, says |-> None]
      BY <3>2, <3>4
    <3>5. QED BY <2>2, <3>3, <3>4
  <2>4. CountIsTrue' BY <2>1, CountStays
  <2>5. QED BY <2>1, <2>3, <2>4 DEF GatewayInv, GatewayTypeOK, AnswerIsTrue
<1>8. CASE HearAnswer
  <2>1. /\ CloseAll(ToClose) /\ UNCHANGED <<right, down, closedFor>>
        /\ round' = [round EXCEPT !.of = None, !.says = None,
                                  !.tunnels = (@ \ ToClose) \ Waiting(round.of)]
    BY <1>8 DEF HearAnswer, planeVars
  <2>2. ToClose \in SUBSET Tunnels BY DEF ToClose, Waiting, LiveTunnels
  <2>3. round' \in Rounds /\ round'.of = None
    BY <2>1 DEF GatewayInv, GatewayTypeOK, Rounds, Verdicts
  <2>4. QED BY <2>1, <2>2, <2>3, ClosingCounts DEF GatewayInv, GatewayTypeOK, AnswerIsTrue
<1>9. CASE UNCHANGED gatewayVars
  BY <1>9, TunnelsStay DEF gatewayVars, GatewayInv, GatewayTypeOK
<1>10. QED BY <1>1, <1>2, <1>3, <1>4, <1>5, <1>6, <1>7, <1>8, <1>9 DEF GatewayNext

\* What an answer closes was refused, or is of a plane under maintenance.
LEMMA AnswerClosesItsOwn ==
    ASSUME GatewayInv, HearAnswer, NEW t \in Tunnels, tunnel[t].pc = "live", tunnel'[t].pc = "none"
    PROVE  ~right[tunnel[t].of] \/ PlaneOf[tunnel[t].of] \in closedFor
<1>1. CloseAll(ToClose) /\ round.of # None BY DEF HearAnswer
<1>2. t \in ToClose BY <1>1 DEF CloseAll, GatewayInv, GatewayTypeOK
<1>3. CASE round.says = "maintenance"
  BY <1>1, <1>2, <1>3 DEF ToClose, GatewayInv, AnswerIsTrue
<1>4. CASE round.says = "refused"
  BY <1>1, <1>2, <1>4 DEF ToClose, Waiting, LiveTunnels, GatewayInv, AnswerIsTrue
<1>5. QED BY <1>2, <1>3, <1>4 DEF ToClose

\* In whatever order tunnels are dialled, established, cut and closed twice, the count that
\* the limit is held against is the number of tunnels that live, and an outage of a control
\* plane costs no tunnel: for any number of devices, tunnels and planes (handleConnect,
\* close, revalidateLiveTunnels).  The liveness conjuncts of GatewayHolds stay with TLC.
THEOREM GatewayKept == MCSpec => []CountIsTrue /\ OutageKeepsTunnels
<1>1. MCInit => GatewayInv
  <2> SUFFICES ASSUME MCInit PROVE GatewayInv
    OBVIOUS
  <2>1. GatewayInit BY DEF MCInit
  <2>2. /\ tunnel = [t \in Tunnels |-> NoTunnel] /\ active = [d \in Gadgets |-> 0]
        /\ right = [d \in Gadgets |-> TRUE] /\ round = NoRound
    BY <2>1 DEF GatewayInit
  <2>3. GatewayTypeOK
    BY <2>2 DEF GatewayTypeOK, NoTunnel, NoRound, Rounds, Requests, Verdicts
  <2>4. \A d \in Gadgets : LiveTunnels(d) = {} BY <2>2 DEF LiveTunnels, NoTunnel
  <2>5. CountIsTrue BY <2>2, <2>4, FS_EmptySet DEF CountIsTrue
  <2>6. QED BY <2>2, <2>3, <2>5 DEF GatewayInv, AnswerIsTrue, NoRound
<1>2. GatewayInv /\ [MCNext]_clientVars => GatewayInv' BY GatewaySteps, GatewayStep
<1>3. GatewayInv /\ [MCNext]_clientVars =>
        [HearAnswer =>
           \A t \in Tunnels : tunnel[t].pc = "live" /\ tunnel'[t].pc = "none"
                                => \/ ~right[tunnel[t].of]
                                   \/ PlaneOf[tunnel[t].of] \in closedFor]_gatewayVars
  BY AnswerClosesItsOwn
<1>4. GatewayInv => CountIsTrue BY DEF GatewayInv
<1>5. QED BY <1>1, <1>2, <1>3, <1>4, PTL DEF MCSpec, OutageKeepsTunnels

-----------------------------------------------------------------------------
(* The bot's desk and its digest.                                          *)

\* Updates are held in the order of their numbers, none that was begun before, and the
\* offset is past all that were begun since the bot started.
DeskInv ==
    /\ offset \in Nat /\ confirmed \in Nat /\ begun \subseteq Nat
    /\ \E S : sent \in Seq(S)
    /\ batch \in Seq(Nat)
    /\ \A i \in 1..Len(batch) : batch[i] >= offset
    /\ \A i, j \in 1..Len(batch) : i < j => batch[i] < batch[j]
    /\ \A id \in begun : id < offset

\* A step of one machine leaves the desk alone, unless it is the desk's.
LEMMA DeskSteps ==
    ASSUME [MCNext]_clientVars
    PROVE  [DeskNext]_deskVars
BY DEF MCNext, Only, clientVars, partVars

\* A sequence of anything stays one when something is appended.
LEMMA AppendedSequence ==
    ASSUME NEW S, NEW s \in Seq(S), NEW x
    PROVE  Append(s, x) \in Seq(S \cup {x})
<1>1. s \in Seq(S \cup {x}) OBVIOUS
<1>2. QED BY <1>1

\* Every step of the desk keeps its invariant.
LEMMA DeskStep ==
    ASSUME DeskInv, [DeskNext]_deskVars
    PROVE  DeskInv'
<1>1. ASSUME UNCHANGED <<offset, confirmed, begun, batch, sent>> PROVE DeskInv'
  BY <1>1 DEF DeskInv
<1>2. ASSUME NEW c \in Chats, NEW button, Asks(c, button) PROVE DeskInv'
  <2>1. sent' = Append(sent, [chat |-> c, tap |-> button])
        /\ UNCHANGED <<offset, confirmed, begun, batch>>
    BY <1>2 DEF Asks
  <2>2. \E S : sent' \in Seq(S) BY <2>1, AppendedSequence DEF DeskInv
  <2>3. QED BY <2>1, <2>2 DEF DeskInv
<1>3. CASE Polls
  <2> DEFINE gone == IF offset = 0 THEN confirmed ELSE offset - 1
  <2>1. gone < Len(sent) /\ confirmed' = gone /\ UNCHANGED <<sent, offset, begun>>
        /\ (batch' = [i \in 1..(Len(sent) - gone) |-> gone + i] \/ batch' = <<>>)
    BY <1>3 DEF Polls
  <2>2. gone \in Nat /\ gone + 1 >= offset /\ Len(sent) \in Nat BY DEF DeskInv
  <2> HIDE DEF gone
  <2>3. CASE batch' = <<>> BY <2>1, <2>2, <2>3 DEF DeskInv
  <2>4. CASE batch' = [i \in 1..(Len(sent) - gone) |-> gone + i]
    <3>1. Len(sent) - gone \in Nat BY <2>1, <2>2
    <3>2. batch' \in Seq(Nat) /\ Len(batch') = Len(sent) - gone BY <2>2, <2>4, <3>1
    <3>3. \A i \in 1..Len(batch') : batch'[i] = gone + i BY <2>4, <3>2
    <3>4. offset \in Nat BY DEF DeskInv
    <3>5. \A i \in 1..Len(batch') : batch'[i] >= offset BY <2>2, <3>3, <3>1, <3>2, <3>4
    <3>6. \A i, j \in 1..Len(batch') : i < j => batch'[i] < batch'[j]
      BY <2>2, <3>1, <3>2, <3>3
    <3>7. QED BY <2>1, <2>2, <3>2, <3>5, <3>6 DEF DeskInv
  <2>5. QED BY <2>1, <2>3, <2>4
<1>4. CASE Begins
  <2>1. /\ batch # <<>> /\ batch' = Tail(batch)
        /\ offset' = Head(batch) + 1 /\ begun' = begun \cup {Head(batch)}
        /\ UNCHANGED <<sent, confirmed>>
    BY <1>4 DEF Begins, Advanced
  <2>2. /\ Len(batch) \in Nat /\ Len(batch) >= 1 /\ Head(batch) = batch[1] /\ Head(batch) \in Nat
        /\ Tail(batch) \in Seq(Nat) /\ Len(Tail(batch)) = Len(batch) - 1
        /\ \A i \in 1..(Len(batch) - 1) : Tail(batch)[i] = batch[i + 1]
    BY <2>1 DEF DeskInv
  <2>3. \A i \in 1..Len(batch) : batch[i] \in Nat BY DEF DeskInv
  <2>4. batch[1] >= offset BY <2>2 DEF DeskInv
  <2>5. \A i \in 1..Len(batch') : batch'[i] >= offset'
    <3> SUFFICES ASSUME NEW i \in 1..Len(batch') PROVE batch'[i] >= offset'
      OBVIOUS
    <3>1. i \in 1..(Len(batch) - 1) /\ i + 1 \in 1..Len(batch) /\ 1 \in 1..Len(batch) /\ 1 < i + 1
      BY <2>1, <2>2
    <3>2. batch[1] < batch[i + 1] BY <3>1 DEF DeskInv
    <3>3. QED BY <2>1, <2>2, <2>3, <3>1, <3>2
  <2>6. \A i, j \in 1..Len(batch') : i < j => batch'[i] < batch'[j]
    <3> SUFFICES ASSUME NEW i \in 1..Len(batch'), NEW j \in 1..Len(batch'), i < j
                 PROVE  batch'[i] < batch'[j]
      OBVIOUS
    <3>1. i + 1 \in 1..Len(batch) /\ j + 1 \in 1..Len(batch) /\ i + 1 < j + 1
          /\ batch'[i] = batch[i + 1] /\ batch'[j] = batch[j + 1]
      BY <2>1, <2>2
    <3>2. QED BY <3>1 DEF DeskInv
  <2>7. \A id \in begun' : id \in Nat /\ id < offset'
    BY <2>1, <2>2, <2>4 DEF DeskInv
  <2>8. \E S : sent' \in Seq(S) BY <2>1 DEF DeskInv
  <2>9. offset' \in Nat /\ confirmed' \in Nat /\ batch' \in Seq(Nat) /\ begun' \subseteq Nat
    <3>1. begun' \subseteq Nat BY <2>7
    <3>2. batch' \in Seq(Nat) BY <2>1, <2>2
    <3>3. confirmed \in Nat BY DEF DeskInv
    <3>4. QED BY <2>1, <2>2, <3>1, <3>2, <3>3
  <2>10. QED BY <2>5, <2>6, <2>7, <2>8, <2>9 DEF DeskInv
<1>5. CASE Handles
  <2>1. UNCHANGED <<offset, confirmed, begun, batch, sent>> BY <1>5 DEF Handles
  <2>2. QED BY <1>1, <2>1
<1>6. CASE HandlerFails
  <2>1. UNCHANGED <<offset, confirmed, begun, batch, sent>> BY <1>6 DEF HandlerFails, AfterError
  <2>2. QED BY <1>1, <2>1
<1>7. CASE BotRestarts
  <2>1. offset' = 0 /\ batch' = <<>> /\ begun' = {} /\ UNCHANGED <<sent, confirmed>>
    BY <1>7 DEF BotRestarts
  <2>2. QED BY <2>1 DEF DeskInv
<1>8. CASE \/ \E c \in Chats, holder \in Accounts \cup {None} : Relinks(c, holder)
           \/ \E d \in Gear : DeviceReturns(d)
           \/ \E holder \in Accounts : PaymentSettles(holder)
           \/ UNCHANGED deskVars
  <2>1. UNCHANGED <<offset, confirmed, begun, batch, sent>>
    BY <1>8 DEF Relinks, DeviceReturns, PaymentSettles, deskVars
  <2>2. QED BY <1>1, <2>1
<1>9. QED BY <1>2, <1>3, <1>4, <1>5, <1>6, <1>7, <1>8 DEF DeskNext

\* What the bot takes in hand it has not begun since it started.
LEMMA BeginsAnew ==
    ASSUME DeskInv, [DeskNext]_deskVars, serving' \notin {None, serving}
    PROVE  serving'.id \notin begun
<1>1. CASE Begins
  <2>1. batch # <<>> /\ serving' = [id |-> Head(batch), account |-> linked[sent[Head(batch)].chat]]
    BY <1>1 DEF Begins
  <2>2. Head(batch) = batch[1] /\ Head(batch) \in Nat /\ 1 \in 1..Len(batch) BY <2>1 DEF DeskInv
  <2>3. offset \in Nat /\ Head(batch) >= offset BY <2>2 DEF DeskInv
  <2>4. QED BY <2>1, <2>2, <2>3 DEF DeskInv
<1>2. Begins
  BY DEF DeskNext, Asks, Polls, Handles, HandlerFails, BotRestarts, Relinks, DeviceReturns,
         PaymentSettles, deskVars
<1>3. QED BY <1>1, <1>2

\* A device that goes belongs to the account whose tap is in hand.
LEMMA RemovesItsOwn ==
    ASSUME [DeskNext]_deskVars, NEW d \in present \ present'
    PROVE  serving # None /\ HolderOf[d] = serving.account
<1>1. CASE Handles
  <2>1. serving # None /\ Effect(serving.account, sent[serving.id].tap) BY <1>1 DEF Handles
  <2>2. QED BY <2>1 DEF Effect, Revocable
<1>2. Handles
  BY DEF DeskNext, Asks, Polls, Begins, HandlerFails, BotRestarts, Relinks, DeviceReturns,
         PaymentSettles, deskVars
<1>3. QED BY <1>1, <1>2

-----------------------------------------------------------------------------
\* The daily job of the bot between its steps.
Ticks == [step : {"idle", "read", "claimed"}, day : Nat \cup {None}, counter : Nat]

\* What the variables of the digest hold; a tick in progress is of the day it is.
DigestTypeOK ==
    /\ day \in 1..MaxDays /\ noted \in Nat /\ counter \in Nat /\ told \in Nat
    /\ lastDigestDay \in {None} \cup 1..day
    /\ tick \in [Processes -> Ticks]
    /\ \A p \in Processes : tick[p].step # "idle" => tick[p].day = day
    /\ \A p \in Processes : tick[p].step = "idle" => tick[p] = Idle
    /\ digests \in [1..MaxDays -> Nat]

\* One control server at most has claimed the day, and only it will send; until the day is
\* claimed nobody has sent.
OneClaims ==
    /\ \A p, q \in Processes : tick[p].step = "claimed" /\ tick[q].step = "claimed" => p = q
    /\ \A p \in Processes : tick[p].step = "claimed" => lastDigestDay = day /\ digests[day] = 0
    /\ lastDigestDay # day => digests[day] = 0
    /\ \A d \in 1..MaxDays : digests[d] <= 1 /\ (d > day => digests[d] = 0)

\* What was told, what is about to be and what is counted were all noted; as long as the
\* day is not claimed nobody has read more than is still counted.
CountedOnce ==
    /\ told + counter <= noted
    /\ \A p \in Processes : tick[p].step = "claimed" => told + tick[p].counter + counter <= noted
    /\ \A p \in Processes : tick[p].step = "read" /\ lastDigestDay # day => tick[p].counter <= counter

\* What each step of the digest keeps.
DigestInv == DigestTypeOK /\ OneClaims /\ CountedOnce

\* A step of one machine leaves the digest alone, unless it is the digest's.
LEMMA DigestSteps ==
    ASSUME [MCNext]_clientVars
    PROVE  [DigestNext]_digestVars
BY DEF MCNext, Only, clientVars, partVars

\* A monitor that reads the row, also one whose query fails.
LEMMA LoadFits ==
    ASSUME DigestInv, NEW p \in Processes, LoadsState(p)
    PROVE  DigestInv'
<1>1. PICK n \in {0, counter} :
        /\ tick' = [tick EXCEPT ![p] = [step |-> "read", day |-> day, counter |-> n]]
        /\ UNCHANGED <<day, noted, counter, lastDigestDay, digests, told>>
  BY DEF LoadsState
<1> DEFINE reading == [step |-> "read", day |-> day, counter |-> n]
<1>2. reading.step = "read" /\ reading.day = day /\ reading.counter = n
      /\ n \in Nat /\ n <= counter /\ reading \in Ticks
  BY DEF DigestInv, DigestTypeOK, Ticks
<1> HIDE DEF reading
<1>3. tick' \in [Processes -> Ticks]
      /\ \A q \in Processes : tick'[q] = IF q = p THEN reading ELSE tick[q]
  BY <1>1, <1>2 DEF DigestInv, DigestTypeOK, reading
<1>4. DigestTypeOK' BY <1>1, <1>2, <1>3 DEF DigestInv, DigestTypeOK
<1>5. OneClaims' BY <1>1, <1>2, <1>3 DEF DigestInv, OneClaims
<1>6. CountedOnce' BY <1>1, <1>2, <1>3 DEF DigestInv, CountedOnce
<1>7. QED BY <1>4, <1>5, <1>6 DEF DigestInv

\* The statement that claims the day: it succeeds once, and zeroes what was counted.
LEMMA ClaimFits ==
    ASSUME DigestInv, NEW p \in Processes, ClaimsDay(p)
    PROVE  DigestInv'
<1>1. tick[p].step = "read" /\ tick[p].day = day /\ tick[p] \in Ticks
      /\ UNCHANGED <<day, noted, digests, told>>
  BY DEF ClaimsDay, DigestInv, DigestTypeOK
<1>2. CASE lastDigestDay # day
  <2>1. lastDigestDay' = day /\ counter' = 0 /\ tick' = [tick EXCEPT ![p].step = "claimed"]
    BY <1>1, <1>2 DEF ClaimsDay, Unclaimed, Zeroed
  <2>2. /\ tick' \in [Processes -> Ticks]
        /\ tick'[p].step = "claimed" /\ tick'[p].day = day /\ tick'[p].counter = tick[p].counter
        /\ \A q \in Processes \ {p} : tick'[q] = tick[q]
    BY <1>1, <2>1 DEF DigestInv, DigestTypeOK, Ticks
  <2>3. tick[p].counter <= counter /\ digests[day] = 0
        /\ \A q \in Processes : tick[q].step # "claimed"
    BY <1>1, <1>2 DEF DigestInv, CountedOnce, OneClaims
  <2>4. DigestTypeOK' BY <1>1, <2>1, <2>2 DEF DigestInv, DigestTypeOK
  <2>5. OneClaims' BY <1>1, <2>1, <2>2, <2>3 DEF DigestInv, OneClaims
  <2>6. told \in Nat /\ noted \in Nat /\ counter \in Nat /\ tick[p].counter \in Nat
    BY <1>1 DEF DigestInv, DigestTypeOK, Ticks
  <2>7. CountedOnce' BY <1>1, <2>1, <2>2, <2>3, <2>6 DEF DigestInv, CountedOnce
  <2>8. QED BY <2>4, <2>5, <2>7 DEF DigestInv
<1>3. CASE lastDigestDay = day
  <2>1. tick' = [tick EXCEPT ![p] = Idle] /\ UNCHANGED <<counter, lastDigestDay>>
    BY <1>1, <1>3 DEF ClaimsDay, Unclaimed
  <2>2. /\ tick' \in [Processes -> Ticks]
        /\ \A q \in Processes : tick'[q] = IF q = p THEN Idle ELSE tick[q]
    BY <2>1 DEF DigestInv, DigestTypeOK, Ticks, Idle
  <2>3. Idle.step = "idle" BY DEF Idle
  <2>4. DigestTypeOK' BY <1>1, <2>1, <2>2, <2>3 DEF DigestInv, DigestTypeOK
  <2>5. OneClaims' BY <1>1, <2>1, <2>2, <2>3 DEF DigestInv, OneClaims
  <2>6. CountedOnce' BY <1>1, <2>1, <2>2, <2>3 DEF DigestInv, CountedOnce
  <2>7. QED BY <2>4, <2>5, <2>6 DEF DigestInv
<1>4. QED BY <1>2, <1>3

\* The digest goes out, with what its sender read.
LEMMA SendFits ==
    ASSUME DigestInv, NEW p \in Processes, SendsDigest(p)
    PROVE  DigestInv'
<1>1. /\ tick[p].step = "claimed" /\ tick[p].day = day /\ tick[p] \in Ticks
      /\ digests' = [digests EXCEPT ![day] = @ + 1]
      /\ told' = told + tick[p].counter /\ tick' = [tick EXCEPT ![p] = Idle]
      /\ UNCHANGED <<day, noted, counter, lastDigestDay>>
  BY DEF SendsDigest, DigestInv, DigestTypeOK
<1>2. /\ tick' \in [Processes -> Ticks]
      /\ \A q \in Processes : tick'[q] = IF q = p THEN Idle ELSE tick[q]
  BY <1>1 DEF DigestInv, DigestTypeOK, Ticks, Idle
<1>3. Idle.step = "idle" BY DEF Idle
<1>4. \A q \in Processes : tick'[q].step # "claimed"
  BY <1>1, <1>2, <1>3 DEF DigestInv, OneClaims
<1>5. digests[day] = 0 /\ lastDigestDay = day BY <1>1 DEF DigestInv, OneClaims
<1>6. day \in 1..MaxDays /\ digests' \in [1..MaxDays -> Nat]
      /\ \A d \in 1..MaxDays : digests'[d] = IF d = day THEN 1 ELSE digests[d]
  BY <1>1, <1>5 DEF DigestInv, DigestTypeOK
<1>7. told \in Nat /\ noted \in Nat /\ counter \in Nat /\ tick[p].counter \in Nat
  BY <1>1 DEF DigestInv, DigestTypeOK, Ticks
<1>8. DigestTypeOK' BY <1>1, <1>2, <1>3, <1>6, <1>7 DEF DigestInv, DigestTypeOK
<1>9. OneClaims'
  <2>1. \A d \in 1..MaxDays : digests'[d] <= 1 /\ (d > day => digests'[d] = 0)
    BY <1>6 DEF DigestInv, OneClaims
  <2>2. QED BY <1>1, <1>4, <1>5, <2>1 DEF OneClaims
<1>10. CountedOnce' BY <1>1, <1>4, <1>5, <1>7 DEF DigestInv, CountedOnce
<1>11. QED BY <1>8, <1>9, <1>10 DEF DigestInv

\* Every step of the digest keeps its invariant.
LEMMA DigestStep ==
    ASSUME DigestInv, [DigestNext]_digestVars
    PROVE  DigestInv'
<1>1. CASE NotesRefusal
  <2>1. noted' = noted + 1 /\ counter' = counter + 1
        /\ UNCHANGED <<day, lastDigestDay, tick, digests, told>>
    BY <1>1 DEF NotesRefusal
  <2>2. told \in Nat /\ noted \in Nat /\ counter \in Nat
        /\ \A p \in Processes : tick[p].counter \in Nat
    BY DEF DigestInv, DigestTypeOK, Ticks
  <2>3. DigestTypeOK' BY <2>1, <2>2 DEF DigestInv, DigestTypeOK
  <2>4. OneClaims' BY <2>1 DEF DigestInv, OneClaims
  <2>5. CountedOnce' BY <2>1, <2>2 DEF DigestInv, CountedOnce
  <2>6. QED BY <2>3, <2>4, <2>5 DEF DigestInv
<1>2. CASE NextDay
  <2>1. day < MaxDays /\ day' = day + 1 /\ (\A p \in Processes : tick[p].step = "idle")
        /\ UNCHANGED <<noted, counter, lastDigestDay, tick, digests, told>>
    BY <1>2 DEF NextDay, Idle
  <2>2. day' \in 1..MaxDays /\ lastDigestDay \in {None} \cup 1..day' /\ lastDigestDay # day'
        /\ day' > day
    BY <2>1, DeskAssumption DEF DigestInv, DigestTypeOK
  <2>3. DigestTypeOK' BY <2>1, <2>2 DEF DigestInv, DigestTypeOK
  <2>4. \A d \in 1..MaxDays : d > day' => d > day BY <2>1 DEF DigestInv, DigestTypeOK
  <2>5. OneClaims' BY <2>1, <2>2, <2>4 DEF DigestInv, OneClaims
  <2>6. CountedOnce' BY <2>1 DEF DigestInv, CountedOnce
  <2>7. QED BY <2>3, <2>5, <2>6 DEF DigestInv
<1>3. CASE UNCHANGED digestVars
  BY <1>3 DEF digestVars, DigestInv, DigestTypeOK, OneClaims, CountedOnce
<1>4. QED BY <1>1, <1>2, <1>3, LoadFits, ClaimFits, SendFits DEF DigestNext

\* A tap begins no update twice and removes nothing of another account; two control servers
\* whose ticks overlap send one digest a day, and tell of no refused sign-up twice.  For any
\* chats, accounts, devices, servers and days, whichever updates, edits and queries are lost
\* and whenever the bot restarts (telegramBot, telegramAccount, telegramAdmin).  That every
\* tap is served stays with TLC.
THEOREM DeskKept == MCSpec => BegunOnce /\ OnlyOwnRemoved /\ []DigestOnce /\ []ToldOnce
<1> DEFINE Inv == DeskInv /\ DigestInv
<1>1. MCInit => Inv
  <2> SUFFICES ASSUME MCInit PROVE Inv
    OBVIOUS
  <2>1. DeskInit /\ DigestInit BY DEF MCInit
  <2>2. DeskInv
    <3>1. <<>> \in Seq({}) /\ <<>> \in Seq(Nat) /\ Len(<<>>) = 0 OBVIOUS
    <3>2. sent = <<>> /\ confirmed = 0 /\ offset = 0 /\ batch = <<>> /\ begun = {}
      BY <2>1 DEF DeskInit
    <3>3. \E S : sent \in Seq(S) BY <3>1, <3>2
    <3>4. QED BY <3>1, <3>2, <3>3 DEF DeskInv
  <2>3. /\ day = 1 /\ noted = 0 /\ counter = 0 /\ lastDigestDay = None /\ told = 0
        /\ tick = [p \in Processes |-> Idle] /\ digests = [d \in 1..MaxDays |-> 0]
    BY <2>1 DEF DigestInit
  <2>4. Idle.step = "idle" /\ Idle \in Ticks BY DEF Idle, Ticks
  <2>5. DigestTypeOK BY <2>3, <2>4, DeskAssumption DEF DigestTypeOK
  <2>6. OneClaims /\ CountedOnce BY <2>3, <2>4, DeskAssumption DEF OneClaims, CountedOnce
  <2>7. QED BY <2>2, <2>5, <2>6 DEF DigestInv
<1>2. Inv /\ [MCNext]_clientVars => Inv' BY DeskSteps, DeskStep, DigestSteps, DigestStep
<1>3. Inv /\ [MCNext]_clientVars =>
        [serving' \notin {None, serving} => serving'.id \notin begun]_deskVars
  BY DeskSteps, BeginsAnew
<1>4. Inv /\ [MCNext]_clientVars =>
        [\A d \in present \ present' : serving # None /\ HolderOf[d] = serving.account]_deskVars
  BY DeskSteps, RemovesItsOwn
<1>5. Inv => DigestOnce /\ ToldOnce
  BY DEF DigestInv, DigestTypeOK, OneClaims, CountedOnce, DigestOnce, ToldOnce
<1> HIDE DEF Inv
<1>6. QED BY <1>1, <1>2, <1>3, <1>4, <1>5, PTL DEF MCSpec, BegunOnce, OnlyOwnRemoved
=============================================================================
