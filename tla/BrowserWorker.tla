--------------------------- MODULE BrowserWorker ---------------------------
(***************************************************************************)
(* The service worker of the browser extension: its phase, the proxy       *)
(* setting of the browser, the session the control server has open for it, *)
(* and the connect, disconnect, poll and maintenance handlers, which run   *)
(* between each other's awaits in a worker the browser may stop at any     *)
(* moment.                                                                 *)
(***************************************************************************)
EXTENDS Happenings

CONSTANTS
    SessionIds,   \* ids of the sessions at the server, numbers from 1, used again when unknown
    AutoConnect   \* the setting: connect when the browser starts

\* Nothing heard is not an answer of the server.
ASSUME WorkerAssumption == None \notin {"up", "closed", "maintenance"}

VARIABLES
    phase,     \* runtime.phase in the extension's storage
    routed,    \* the proxy setting of the browser points at the gateway
    shown,     \* runtime.session: the session the extension believes in, 0 for none
    opened,    \* the session the server has open for this device, 0 for none
    intent,    \* runtime.connectIntent: the person asked for a tunnel
    waiting,   \* runtime.maintenance: the tunnel is to be resumed after maintenance
    signedIn,  \* the extension has tokens
    service,   \* the control server: up or under maintenance
    conn,      \* the connect handler: where it is, and the session it was given
    tear,      \* the disconnect handler: where it is, and what it was called for
    asked,     \* the poll: nothing, or the answer on its way and the session it is about
    awake,     \* the worker runs
    stranded,  \* a stop left the proxy set: by a worker that had not saved the phase, or
               \* by a browser that dials anew on top of it
    unheard    \* the server was not told of the end of a session, or its reply was lost

workerVars == <<phase, routed, shown, opened, intent, waiting, signedIn, service,
                conn, tear, asked, awake, stranded, unheard>>

NoConn == [pc |-> "idle", got |-> 0]
NoTear == [pc |-> "idle", why |-> None]
NoPoll == [says |-> None, about |-> 0]

WorkerInit ==
    /\ phase = "idle" /\ routed = FALSE /\ shown = 0 /\ opened = 0
    /\ intent = FALSE /\ waiting = FALSE /\ signedIn = TRUE /\ service = "up"
    /\ conn = NoConn /\ tear = NoTear /\ asked = NoPoll
    /\ awake = TRUE /\ stranded = FALSE /\ unheard = FALSE

\* A handler begins when none is under way, or in the middle of another.
Apart == conn.pc = "idle" /\ tear.pc = "idle"
Alone == awake /\ IF Apart THEN Quiet ELSE Happens("overlap")

-----------------------------------------------------------------------------
\* connect, up to its first call: only the id of a former session is kept.
BeginConnect ==
    /\ conn.pc = "idle"
    /\ conn' = [NoConn EXCEPT !.pc = "register"]
    /\ phase' = "connecting"

UserConnects ==
    /\ Alone /\ signedIn /\ tear.pc # "tell"
    /\ phase \in {"idle", "error"}
    /\ intent' = TRUE
    /\ BeginConnect
    /\ UNCHANGED <<routed, shown, opened, waiting, signedIn, service, tear, asked,
                   awake, stranded, unheard>>

\* fail: the phase says so, and nothing else changes.
Failed == phase' = "error" /\ conn' = NoConn

\* ensureDeviceScope is refused (the devices are at their limit), or there is no network.
RegisterFails ==
    /\ conn.pc = "register"
    /\ Happens("refused")
    /\ Failed
    /\ UNCHANGED <<routed, shown, opened, intent, waiting, signedIn, service, tear,
                   asked, awake, stranded, unheard>>

Registers ==
    /\ conn.pc = "register"
    /\ conn' = [conn EXCEPT !.pc = "ask"]
    /\ UNCHANGED <<phase, routed, shown, opened, intent, waiting, signedIn, service,
                   tear, asked, awake, stranded, unheard>> /\ Quiet

\* The next id: one that neither the server nor the extension knows.
Fresh == {s \in SessionIds \ {opened, shown, asked.about} :
            \A r \in SessionIds \ {opened, shown, asked.about} : s <= r}

\* POST /api/vpn/connect: a session of this device that is open makes room for the new one.
AsksForTunnel ==
    /\ conn.pc = "ask" /\ service = "up"
    /\ \E s \in Fresh : opened' = s
    /\ \/ /\ conn' = [pc |-> "probe", got |-> opened']
          /\ UNCHANGED <<phase, unheard>> /\ Quiet
       \/ /\ Happens("reply_lost")
          /\ Failed
          /\ unheard' = TRUE
    /\ UNCHANGED <<routed, shown, intent, waiting, signedIn, service, tear, asked, awake, stranded>>

\* enterMaintenance: off the proxy, the wish is kept, and an alarm is set. It takes the
\* wish from a tunnel that was up, and tells the server nothing, which has usually closed
\* the session itself.
EnterMaintenance ==
    /\ routed' = FALSE /\ stranded' = FALSE
    /\ phase' = "idle"
    /\ shown' = 0
    /\ intent' = (intent \/ phase = "connected")
    /\ waiting' = TRUE
    /\ unheard' = (unheard \/ opened # 0)

RefusedForMaintenance ==
    /\ conn.pc = "ask" /\ service = "maintenance"
    /\ EnterMaintenance
    /\ conn' = NoConn
    /\ UNCHANGED <<opened, signedIn, service, tear, asked, awake>> /\ Quiet

\* Fault: the session is left to the server when the gateway does not answer.
LeftOpen(s) == opened
\* POST /api/vpn/disconnect: the session it names, or the one there is.
Closes(s) == IF s \in {0, opened} THEN 0 ELSE opened

\* Nothing answers at the gateway: the session that was just opened is closed again.
ProbeFails ==
    /\ conn.pc = "probe"
    /\ Happens("gateway_down")
    /\ opened' = Closes(conn.got)
    /\ Failed
    /\ UNCHANGED <<routed, shown, intent, waiting, signedIn, service, tear, asked,
                   awake, stranded, unheard>>

ProbeAnswers ==
    /\ conn.pc = "probe"
    /\ conn' = [conn EXCEPT !.pc = "apply"]
    /\ UNCHANGED <<phase, routed, shown, opened, intent, waiting, signedIn, service,
                   tear, asked, awake, stranded, unheard>> /\ Quiet

AppliesProxy ==
    /\ conn.pc = "apply"
    /\ routed' = TRUE /\ stranded' = FALSE
    /\ conn' = [conn EXCEPT !.pc = "save"]
    /\ UNCHANGED <<phase, shown, opened, intent, waiting, signedIn, service, tear,
                   asked, awake, unheard>> /\ Quiet

SavesConnected ==
    /\ conn.pc = "save"
    /\ phase' = "connected"
    /\ shown' = conn.got
    /\ conn' = NoConn
    /\ unheard' = FALSE
    /\ UNCHANGED <<routed, opened, intent, waiting, signedIn, service, tear, asked,
                   awake, stranded>> /\ Quiet

\* The popup is answered after forty seconds; the handler goes on.
AnswersLate ==
    /\ conn.pc # "idle"
    /\ Happens("slow")
    /\ phase' = "error"
    /\ UNCHANGED <<routed, shown, opened, intent, waiting, signedIn, service, conn,
                   tear, asked, awake, stranded, unheard>>

-----------------------------------------------------------------------------
\* disconnect: a person's shows in the phase, the worker's own does not.
BeginTeardown(why) ==
    /\ tear.pc = "idle"
    /\ tear' = [pc |-> "clear", why |-> why]

UserDisconnects ==
    /\ Alone
    /\ phase \in {"connected", "connecting"}
    /\ BeginTeardown("user")
    /\ phase' = "disconnecting"
    /\ intent' = FALSE /\ waiting' = FALSE
    /\ UNCHANGED <<routed, shown, opened, signedIn, service, conn, asked, awake,
                   stranded, unheard>>

\* logout tears the tunnel down first; selectNode tears it down and connects elsewhere.
SignsOut ==
    /\ Happens("sign_out")
    /\ awake /\ signedIn /\ Apart
    /\ BeginTeardown("sign_out")
    /\ UNCHANGED <<phase, routed, shown, opened, intent, waiting, signedIn, service,
                   conn, asked, awake, stranded, unheard>>

SelectsNode ==
    /\ Happens("select")
    /\ awake /\ phase = "connected" /\ Apart
    /\ BeginTeardown("select")
    /\ UNCHANGED <<phase, routed, shown, opened, intent, waiting, signedIn, service,
                   conn, asked, awake, stranded, unheard>>

ClearsProxy ==
    /\ tear.pc = "clear"
    /\ routed' = FALSE /\ stranded' = FALSE
    /\ tear' = [tear EXCEPT !.pc = "tell"]
    /\ UNCHANGED <<phase, shown, opened, intent, waiting, signedIn, service, conn,
                   asked, awake, unheard>> /\ Quiet

\* The server's refusal and a lost call are swallowed, and a stale id closes nothing.
TellsServer ==
    /\ tear.pc = "tell"
    /\ \/ opened' = Closes(shown) /\ unheard' = (unheard \/ opened' # 0) /\ Quiet
       \/ Happens("call_lost") /\ unheard' = TRUE /\ UNCHANGED opened
    /\ tear' = [tear EXCEPT !.pc = "settle"]
    /\ UNCHANGED <<phase, routed, shown, intent, waiting, signedIn, service, conn,
                   asked, awake, stranded>>

Settles ==
    /\ tear.pc = "settle"
    /\ tear' = NoTear
    /\ shown' = 0
    /\ waiting' = FALSE
    /\ signedIn' = (signedIn /\ tear.why \notin {"sign_out", "revoked"})
    /\ IF tear.why = "select"
       THEN intent' = TRUE /\ BeginConnect
       ELSE /\ intent' = FALSE
            /\ phase' = IF signedIn' THEN "idle" ELSE "signedOut"
            /\ UNCHANGED conn
    /\ UNCHANGED <<routed, opened, service, asked, awake, stranded, unheard>> /\ Quiet

UserSignsIn ==
    /\ awake /\ ~signedIn /\ Apart
    /\ signedIn' = TRUE
    /\ phase' = "idle"
    /\ UNCHANGED <<routed, shown, opened, intent, waiting, service, conn, tear, asked,
                   awake, stranded, unheard>> /\ Quiet

-----------------------------------------------------------------------------
\* Fault: an end of the session at the server is not told from a session that is there.
NeverClosed == IF service = "maintenance" THEN "maintenance" ELSE "up"
\* GET /api/vpn/status.
StatusAnswer == IF service = "maintenance" THEN "maintenance"
                ELSE IF opened = 0 THEN "closed" ELSE "up"

\* poll: the phase is read, the server asked, and its answer used after the wait.
AsksStatus ==
    /\ awake /\ phase = "connected" /\ asked = NoPoll /\ tear.pc = "idle"
    /\ asked' = [about |-> shown, says |-> StatusAnswer]
    /\ UNCHANGED <<phase, routed, shown, opened, intent, waiting, signedIn, service,
                   conn, tear, awake, stranded, unheard>> /\ Quiet

\* What was known of the session is written back, with its statistics; two missed answers
\* of the gateway end the tunnel.
HearsUp ==
    /\ asked.says = "up"
    /\ asked' = NoPoll
    /\ \/ shown' = asked.about /\ UNCHANGED tear /\ Quiet
       \/ /\ Apart \/ "overlap" \in Events
          /\ Happens("gateway_down")
          /\ BeginTeardown("gateway") /\ UNCHANGED shown
    /\ UNCHANGED <<phase, routed, opened, intent, waiting, signedIn, service, conn,
                   awake, stranded, unheard>>

HearsClosed ==
    /\ asked.says = "closed"
    /\ Alone
    /\ asked' = NoPoll
    /\ BeginTeardown("closed")
    /\ UNCHANGED <<phase, routed, shown, opened, intent, waiting, signedIn, service,
                   conn, awake, stranded, unheard>>

HearsMaintenance ==
    /\ asked.says = "maintenance"
    /\ Alone
    /\ asked' = NoPoll
    /\ EnterMaintenance
    /\ UNCHANGED <<opened, signedIn, service, conn, tear, awake>>

\* The server closes the session (monitor, administrator), or all of them for maintenance.
ServerCloses ==
    /\ opened # 0
    /\ Happens("server_closes")
    /\ opened' = 0
    /\ UNCHANGED <<phase, routed, shown, intent, waiting, signedIn, service, conn, tear,
                   asked, awake, stranded, unheard>>

MaintenanceBegins ==
    /\ service = "up"
    /\ Happens("maintenance")
    /\ service' = "maintenance" /\ opened' = 0
    /\ UNCHANGED <<phase, routed, shown, intent, waiting, signedIn, conn, tear, asked,
                   awake, stranded, unheard>>

MaintenanceEnds ==
    /\ service = "maintenance"
    /\ service' = "up"
    /\ UNCHANGED <<phase, routed, shown, opened, intent, waiting, signedIn, conn, tear,
                   asked, awake, stranded, unheard>> /\ Quiet

\* Fault: the wish is not taken up again.
NeverResumes == FALSE
Resumable == intent /\ phase \notin {"connected", "connecting"} /\ signedIn

\* checkMaintenance, by its alarm or the popup: over, and the person's wish is taken up.
FindsServiceBack ==
    /\ awake /\ waiting /\ service = "up" /\ Apart
    /\ waiting' = FALSE
    /\ IF Resumable THEN BeginConnect ELSE UNCHANGED <<phase, conn>>
    /\ UNCHANGED <<routed, shown, opened, intent, signedIn, service, tear, asked,
                   awake, stranded, unheard>> /\ Quiet

FindsMaintenance ==
    /\ awake /\ service = "maintenance" /\ ~waiting /\ Apart
    /\ phase = "connected" \/ intent
    /\ EnterMaintenance
    /\ UNCHANGED <<opened, signedIn, service, conn, tear, asked, awake>> /\ Quiet

-----------------------------------------------------------------------------
\* The browser stops the worker: what its handlers were doing is gone.
WorkerStops ==
    /\ awake
    /\ Happens("worker_stops")
    /\ awake' = FALSE
    /\ conn' = NoConn /\ tear' = NoTear /\ asked' = NoPoll
    /\ stranded' = (routed /\ phase # "connected")
    /\ unheard' = (unheard \/ ~Apart)
    /\ UNCHANGED <<phase, routed, shown, opened, intent, waiting, signedIn, service>>

\* Fault: only a tunnel that was up is looked at.
NothingInterrupted == FALSE
Interrupted == phase \in {"connecting", "disconnecting"}

\* Fault: a tunnel that was up is believed to be still there.
TrustsConnected ==
    IF Interrupted THEN phase' = "error" /\ UNCHANGED shown ELSE UNCHANGED <<phase, shown>>

\* repairStalePhase, on every start.
Repair ==
    IF Interrupted THEN phase' = "error" /\ UNCHANGED shown
    ELSE IF phase = "connected" /\ ~routed THEN phase' = "idle" /\ shown' = 0
    ELSE UNCHANGED <<phase, shown>>

WorkerWakes ==
    /\ ~awake
    /\ awake' = TRUE
    /\ Repair
    /\ UNCHANGED <<routed, opened, intent, waiting, signedIn, service, conn, tear,
                   asked, stranded, unheard>> /\ Quiet

\* bootstrap, when the browser starts; its proxy setting has survived, and a connect that
\* fails leaves it where it is.
BrowserStarts ==
    /\ ~awake
    /\ Happens("browser_starts")
    /\ awake' = TRUE
    /\ shown' = IF phase = "connected" /\ ~routed THEN 0 ELSE shown
    /\ \/ /\ ~signedIn
          /\ phase' = "signedOut" /\ routed' = FALSE /\ stranded' = FALSE
          /\ UNCHANGED conn
       \/ /\ signedIn
          /\ IF phase = "connected" \/ AutoConnect THEN BeginConnect
             ELSE phase' = "idle" /\ UNCHANGED conn
          /\ stranded' = routed /\ UNCHANGED routed
    \* the browser was closed on the session that was open
    /\ unheard' = (unheard \/ opened # 0)
    /\ UNCHANGED <<opened, intent, waiting, signedIn, service, tear, asked>>

ConnectGoesOn ==
    \/ RegisterFails \/ Registers \/ AsksForTunnel \/ RefusedForMaintenance
    \/ ProbeFails \/ ProbeAnswers \/ AppliesProxy \/ SavesConnected
TeardownGoesOn == ClearsProxy \/ TellsServer \/ Settles
PollGoesOn == HearsUp \/ HearsClosed \/ HearsMaintenance

WorkerNext ==
    \/ UserConnects \/ ConnectGoesOn \/ AnswersLate
    \/ UserDisconnects \/ SignsOut \/ SelectsNode \/ TeardownGoesOn \/ UserSignsIn
    \/ AsksStatus \/ PollGoesOn
    \/ ServerCloses \/ MaintenanceBegins \/ MaintenanceEnds
    \/ FindsServiceBack \/ FindsMaintenance
    \/ WorkerStops \/ WorkerWakes \/ BrowserStarts

\* A handler that runs gets on, alarms and the popup wake the worker, and poll and check.
WorkerFairness ==
    /\ WF_workerVars(Runs("worker") /\ ConnectGoesOn) /\ WF_workerVars(Runs("worker") /\ TeardownGoesOn)
    /\ WF_workerVars(Runs("worker") /\ WorkerWakes)
    /\ WF_workerVars(Runs("worker") /\ AsksStatus) /\ WF_workerVars(Runs("worker") /\ PollGoesOn)
    /\ WF_workerVars(Runs("worker") /\ MaintenanceEnds) /\ SF_workerVars(Runs("worker") /\ FindsServiceBack)

-----------------------------------------------------------------------------
AtRest == awake /\ Apart

\* When no handler is under way, what the popup shows is what the browser does: connected
\* exactly when it is routed, but for a worker that was stopped between the two and a
\* browser that was started with its proxy set and has not been connected since.
ShownIsRouted == AtRest /\ ~stranded => (phase = "connected" <=> routed)

\* A connect that came to nothing leaves no session open at the server, as long as the
\* server could be told.
NoHalfOpenSession == AtRest /\ opened # 0 /\ ~unheard => phase = "connected"

\* An attempt always ends in a phase the person can act on, whenever the worker is stopped.
AttemptEnds == []<>(phase # "connecting")

\* After maintenance the tunnel that was wished for is taken up again, unless the person
\* did something else.
ResumesAfterMaintenance ==
    (waiting /\ intent) ~> (phase \in {"connecting", "connected", "error"} \/ ~intent \/ ~signedIn)

\* A tunnel that the server has closed is not shown for ever.
ClosedIsNoticed == []<>(phase = "connected" => opened # 0)

\* At rest the worker shows what is: a tunnel if and only if the browser is routed through
\* it, and no session that nobody uses.
WorkerSafe == ShownIsRouted /\ NoHalfOpenSession

\* What the worker is about comes to an end, whenever the browser stops it.
WorkerSettles == AttemptEnds /\ ResumesAfterMaintenance /\ ClosedIsNoticed
=============================================================================
