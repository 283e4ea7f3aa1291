----------------------------- MODULE PopupPower -----------------------------
(***************************************************************************)
(* The power button of the extension's popup.  A press shows its own phase *)
(* at once and calls the worker; replies, broadcasts of the worker and     *)
(* answers to getState then set the phase, in whatever order they arrive.  *)
(* Apart from it, the page of statistics, whose period may be chosen again *)
(* before an answer is there.                                              *)
(***************************************************************************)
EXTENDS Happenings

CONSTANTS
    Periods,    \* of the statistics
    MaxPresses  \* bound of the model

VARIABLES
    worker,     \* the worker's phase
    said,       \* broadcasts of the worker on their way
    known,      \* state.runtime.phase
    localPhase,
    busy,       \* markBusy
    watchdog,   \* connectWatchdog is armed
    pressed,    \* the call under way: where it is
    polled,     \* an answer to getState on its way
    online, presses,
    period, revision,   \* of the statistics page
    requests,   \* analytics on their way
    figures     \* statsData: the period it is of

powerVars == <<worker, said, known, localPhase, busy, watchdog, pressed, polled, online, presses>>
statsVars == <<period, revision, requests, figures>>

NoCall == [does |-> None, pc |-> "idle", result |-> None]

PowerInit ==
    /\ worker = "idle" /\ said = <<>> /\ known = "idle" /\ localPhase = None
    /\ busy = FALSE /\ watchdog = FALSE /\ pressed = NoCall /\ polled = None
    /\ online = TRUE /\ presses = 0

StatsInit ==
    /\ period = (CHOOSE p \in Periods : TRUE) /\ revision = 0 /\ requests = {} /\ figures = None

PhaseOf == IF localPhase # None THEN localPhase ELSE known
Going == PhaseOf \in {"connected", "connecting"}

----------------------------------------------------------------------------
\* A press is taken when no other is under way; without a network nothing is dialled.
Presses ==
    /\ presses < MaxPresses /\ ~busy /\ pressed = NoCall
    /\ Going \/ online
    /\ presses' = presses + 1 /\ busy' = TRUE
    /\ pressed' = [NoCall EXCEPT !.does = IF Going THEN "disconnect" ELSE "connect", !.pc = "sent"]
    /\ localPhase' = IF Going THEN "disconnecting" ELSE "connecting"
    /\ known' = localPhase'
    /\ watchdog' = IF Going THEN watchdog ELSE TRUE
    /\ UNCHANGED <<worker, said, polled, online>> /\ Quiet

\* The worker says each of its phases to whoever listens.
Broadcast(phase) ==
    /\ worker' = phase
    /\ \/ said' = Append(said, phase) /\ Quiet
       \/ UNCHANGED said /\ Happens("broadcast_lost")

WorkerBegins ==
    /\ pressed.pc = "sent"
    /\ pressed' = [pressed EXCEPT !.pc = "works"]
    /\ Broadcast(IF pressed.does = "connect" THEN "connecting" ELSE "disconnecting")
    /\ UNCHANGED <<known, localPhase, busy, watchdog, polled, online, presses>>

WorkerEnds ==
    /\ pressed.pc \in {"works", "alone"}
    /\ \E result \in IF pressed.does = "connect" THEN {"connected", "error"} ELSE {"idle"} :
         /\ Broadcast(result)
         /\ pressed' = IF pressed.pc = "alone" THEN NoCall
                       ELSE [pressed EXCEPT !.pc = "replied", !.result = result]
    /\ UNCHANGED <<known, localPhase, busy, watchdog, polled, online, presses>>

\* The reply, or twenty seconds without one: the worker goes on alone.
HearsReply ==
    /\ \/ pressed.pc = "replied" /\ pressed' = NoCall /\ Quiet
       \/ pressed.pc = "works" /\ pressed' = [pressed EXCEPT !.pc = "alone"] /\ Happens("slow")
    /\ localPhase' = IF pressed.pc = "replied" /\ pressed.result # "error" THEN None ELSE "error"
    /\ watchdog' = FALSE /\ busy' = FALSE
    /\ UNCHANGED <<worker, said, known, polled, online, presses>>

WatchdogFires ==
    /\ watchdog /\ pressed.pc \in {"works", "alone"} /\ Happens("slow")
    /\ watchdog' = FALSE
    /\ IF PhaseOf = "connecting"
       THEN localPhase' = "error" /\ busy' = FALSE
       ELSE UNCHANGED <<localPhase, busy>>
    /\ UNCHANGED <<worker, said, known, pressed, polled, online, presses>>

\* The worker is authoritative once a real phase arrives.
OwnPhaseKept == localPhase
OwnPhaseDropped == None

HearsBroadcast ==
    /\ said # <<>>
    /\ said' = Tail(said)
    /\ known' = Head(said) /\ localPhase' = None /\ watchdog' = FALSE
    /\ UNCHANGED <<worker, busy, pressed, polled, online, presses>> /\ Quiet

AsksPhase ==
    /\ polled = None
    /\ polled' = worker
    /\ UNCHANGED <<worker, said, known, localPhase, busy, watchdog, pressed, online, presses>>
    /\ Quiet

AppliesPhase ==
    /\ polled # None
    /\ polled' = None
    /\ known' = polled /\ localPhase' = OwnPhaseDropped
    /\ UNCHANGED <<worker, said, busy, watchdog, pressed, online, presses>> /\ Quiet

LinkChanges ==
    /\ Happens("offline")
    /\ online' = ~online
    /\ IF online
       THEN /\ localPhase' = IF localPhase = "connecting" THEN "error" ELSE localPhase
            /\ watchdog' = FALSE /\ busy' = FALSE
       ELSE UNCHANGED <<localPhase, watchdog, busy>>
    /\ UNCHANGED <<worker, said, known, pressed, polled, presses>>

----------------------------------------------------------------------------
\* loadStats, for a period chosen or chosen again.
LoadsStats(p) ==
    /\ revision < MaxPresses
    /\ period' = p /\ revision' = revision + 1 /\ figures' = None
    /\ requests' = requests \cup {[of |-> p, revision |-> revision']}
    /\ Quiet

AnyAnswer(r) == TRUE
Latest(r) == r.revision = revision

StatsArrive(r) ==
    /\ requests' = requests \ {r}
    /\ figures' = IF Latest(r) THEN r.of ELSE figures
    /\ UNCHANGED <<period, revision>> /\ Quiet

PowerNext ==
    \/ Presses \/ WorkerBegins \/ WorkerEnds \/ HearsReply \/ WatchdogFires
    \/ HearsBroadcast \/ AsksPhase \/ AppliesPhase \/ LinkChanges

StatsNext ==
    \/ \E p \in Periods : LoadsStats(p)
    \/ \E r \in requests : StatsArrive(r)

\* Messages arrive, and the popup asks every five seconds.
PowerFairness ==
    /\ WF_powerVars(Runs("power") /\ WorkerBegins) /\ WF_powerVars(Runs("power") /\ WorkerEnds)
    /\ WF_powerVars(Runs("power") /\ HearsReply) /\ WF_powerVars(Runs("power") /\ HearsBroadcast)
    /\ WF_powerVars(Runs("power") /\ AsksPhase) /\ WF_powerVars(Runs("power") /\ AppliesPhase)

----------------------------------------------------------------------------
\* The button comes to show the phase of the worker, whatever was lost, late or
\* timed out between them.
ButtonSettles ==
    \A p \in {"idle", "connected", "error"} : []<>(worker = p => PhaseOf = p)

\* The figures on the page are of the period chosen last.
FiguresFit == figures \in {None, period}
=============================================================================
