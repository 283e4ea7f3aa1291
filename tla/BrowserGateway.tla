--------------------------- MODULE BrowserGateway ---------------------------
(***************************************************************************)
(* The browser gateway on a node: CONNECT tunnels of devices, admitted on  *)
(* an answer of the control plane that is remembered for a minute, checked *)
(* again while they are open, and counted.                                 *)
(*                                                                         *)
(* Each device has one token, which only the control plane it signed in    *)
(* with accepts.                                                           *)
(***************************************************************************)
EXTENDS Happenings

CONSTANTS
    Gadgets,      \* devices, each with its token
    Tunnels,      \* CONNECT requests
    PlaneOf,      \* PlaneOf[d]: the control plane that issued d's token
    MaxPerDevice, \* tunnels a device may have
    Frail         \* the planes that may fail or close

\* A node carries finitely many tunnels; nobody is no device.
ASSUME GatewayAssumption == IsFiniteSet(Tunnels) /\ None \notin Gadgets

VARIABLES
    right,     \* right[d]: the control plane accepts d's token and has its session open
    down,      \* planes that do not answer
    closedFor, \* planes under maintenance
    cache,     \* authCache[d]: the remembered answer, "yes", "no" or None
    cutoff,    \* maintenanceByApi: planes known to be under maintenance
    tunnel,    \* tunnel[t]: where a request is, and for whom
    active,    \* stat.active
    round      \* revalidateLiveTunnels: the tunnels it began with, and the answer awaited

gatewayVars == <<right, down, closedFor, cache, cutoff, tunnel, active, round>>

Planes == {PlaneOf[d] : d \in Gadgets}
NoTunnel == [pc |-> "none", of |-> None]
NoRound == [on |-> FALSE, tunnels |-> {}, of |-> None, says |-> None]

GatewayInit ==
    /\ right = [d \in Gadgets |-> TRUE]
    /\ down = {} /\ closedFor = {} /\ cutoff = {}
    /\ cache = [d \in Gadgets |-> None]
    /\ tunnel = [t \in Tunnels |-> NoTunnel]
    /\ active = [d \in Gadgets |-> 0]
    /\ round = NoRound

planeVars == <<right, down, closedFor>>
LiveTunnels(d) == {t \in Tunnels : tunnel[t].pc = "live" /\ tunnel[t].of = d}

-----------------------------------------------------------------------------
\* verifyFresh: what the plane of the token says; the other one rejects the token.
Verdict(d) ==
    CASE PlaneOf[d] \in down      -> "unreachable"
      [] PlaneOf[d] \in closedFor -> "maintenance"
      [] ~right[d]                -> "refused"
      [] OTHER                    -> "ok"

\* News of a maintenance, or of its end, are for every device of the plane.
HearsOf(d, says) ==
    cutoff' = IF says = "maintenance" THEN cutoff \cup {PlaneOf[d]}
              ELSE IF says = "ok" THEN cutoff \ {PlaneOf[d]} ELSE cutoff

\* verify: an answer is remembered, only a rejected token is not.
Verifies(d) ==
    IF cache[d] # None
    THEN UNCHANGED <<cache, cutoff>>
    ELSE /\ HearsOf(d, Verdict(d))
         /\ \/ cache' = [cache EXCEPT ![d] = IF Verdict(d) = "ok" THEN "yes" ELSE "no"]
            \/ Verdict(d) \in {"refused", "unreachable"} /\ UNCHANGED cache

MayEnter(d) ==
    /\ cache[d] = "yes" \/ (cache[d] = None /\ Verdict(d) = "ok")
    /\ cache[d] = "yes" => PlaneOf[d] \notin cutoff

\* handleConnect up to the look-up of the target: admitted, or not.
Connects(t, d) ==
    /\ tunnel[t].pc = "none"
    /\ Verifies(d)
    /\ tunnel' = IF MayEnter(d) /\ active[d] < MaxPerDevice
                 THEN [tunnel EXCEPT ![t] = [pc |-> "dialling", of |-> d]] ELSE tunnel
    /\ UNCHANGED <<planeVars, active, round>> /\ Quiet

\* The target answers: the tunnel lives, unless a maintenance was heard of meanwhile.
Establishes(t) ==
    /\ tunnel[t].pc = "dialling"
    /\ IF PlaneOf[tunnel[t].of] \in cutoff
       THEN tunnel' = [tunnel EXCEPT ![t] = NoTunnel] /\ UNCHANGED active
       ELSE /\ tunnel' = [tunnel EXCEPT ![t].pc = "live"]
            /\ active' = [active EXCEPT ![tunnel[t].of] = @ + 1]
    /\ UNCHANGED <<planeVars, cache, cutoff, round>> /\ Quiet

\* Fault: every connection that ends is counted off, whether or not it was counted.
AnyOfThem(S) == {t \in S : tunnel[t].pc \in {"dialling", "live"}}
\* close counts off what was established, and only once.
Counted(S) == {t \in S : tunnel[t].pc = "live"}

CloseAll(S) ==
    /\ tunnel' = [t \in Tunnels |-> IF t \in S THEN NoTunnel ELSE tunnel[t]]
    /\ active' = [d \in Gadgets |->
                    LET n == Cardinality({t \in Counted(S) : tunnel[t].of = d})
                    IN  IF active[d] > n THEN active[d] - n ELSE 0]

\* The browser, the target, an error or the idle time ends it.
Hangs(t) ==
    /\ tunnel[t].pc \in {"dialling", "live"}
    /\ CloseAll({t})
    /\ round' = [round EXCEPT !.tunnels = @ \ {t}]
    /\ UNCHANGED <<planeVars, cache, cutoff>> /\ Quiet

\* A minute is over, or a maintenance's retry time.
Forgets(d) ==
    /\ cache[d] # None
    /\ cache' = [cache EXCEPT ![d] = None]
    /\ UNCHANGED <<planeVars, cutoff, tunnel, active, round>> /\ Quiet

CutoffEnds(p) ==
    /\ p \in cutoff
    /\ cutoff' = cutoff \ {p}
    /\ UNCHANGED <<planeVars, cache, tunnel, active, round>> /\ Quiet

-----------------------------------------------------------------------------
\* revalidateLiveTunnels, one round at a time, over the tunnels that live when it begins.
BeginRound ==
    /\ ~round.on
    /\ \E t \in Tunnels : tunnel[t].pc = "live"
    /\ round' = [NoRound EXCEPT !.on = TRUE, !.tunnels = {t \in Tunnels : tunnel[t].pc = "live"}]
    /\ UNCHANGED <<planeVars, cache, cutoff, tunnel, active>> /\ Quiet

Waiting(d) == round.tunnels \cap LiveTunnels(d)
\* It asks for a device some tunnel of which still lives.
AskFor(d) ==
    /\ round.of = None /\ Waiting(d) # {}
    /\ round' = [round EXCEPT !.of = d, !.says = Verdict(d)]
    /\ UNCHANGED <<planeVars, cache, cutoff, tunnel, active>> /\ Quiet

EndRound ==
    /\ round.on /\ round.of = None
    /\ \A d \in Gadgets : Waiting(d) = {}
    /\ round' = NoRound
    /\ UNCHANGED <<planeVars, cache, cutoff, tunnel, active>> /\ Quiet

\* Fault: no answer is taken for a refusal.
AllRefused == IF round.says = "ok" THEN {} ELSE Waiting(round.of)
\* Fault: a maintenance ends nothing that is open.
OnlyRefused == IF round.says = "refused" THEN Waiting(round.of) ELSE {}
\* Fault: only rejected tokens lose their tunnels.
OnlyMaintenance ==
    IF round.says = "maintenance"
    THEN {t \in Tunnels : tunnel[t].pc = "live" /\ PlaneOf[tunnel[t].of] = PlaneOf[round.of]} ELSE {}
\* What the answer closes: on maintenance all tunnels of the plane, on a refusal those of
\* the device that the round began with.
ToClose ==
    CASE round.says = "maintenance" ->
           {t \in Tunnels : tunnel[t].pc = "live" /\ PlaneOf[tunnel[t].of] = PlaneOf[round.of]}
      [] round.says = "refused" -> Waiting(round.of)
      [] OTHER                  -> {}

HearAnswer ==
    /\ round.of # None
    /\ HearsOf(round.of, round.says)
    /\ cache' = IF round.says \in {"refused", "maintenance"} THEN [cache EXCEPT ![round.of] = None] ELSE cache
    /\ CloseAll(ToClose)
    /\ round' = [round EXCEPT !.of = None, !.says = None,
                              !.tunnels = (@ \ ToClose) \ Waiting(round.of)]
    /\ UNCHANGED planeVars /\ Quiet

-----------------------------------------------------------------------------
\* The session is closed, the token expires or the subscription ends.
LosesRight(d) ==
    /\ right[d] /\ Happens("revoke")
    /\ right' = [right EXCEPT ![d] = FALSE]
    /\ UNCHANGED <<down, closedFor, cache, cutoff, tunnel, active, round>>
PlaneFails(p) ==
    /\ p \in Frail \ down /\ Happens("outage")
    /\ down' = down \cup {p}
    /\ UNCHANGED <<right, closedFor, cache, cutoff, tunnel, active, round>>
PlaneAnswers(p) ==
    /\ p \in down
    /\ down' = down \ {p}
    /\ UNCHANGED <<right, closedFor, cache, cutoff, tunnel, active, round>> /\ Quiet
MaintenanceOf(p) ==
    /\ p \in Frail \ closedFor /\ Happens("closing")
    /\ closedFor' = closedFor \cup {p}
    /\ UNCHANGED <<right, down, cache, cutoff, tunnel, active, round>>

GatewayNext ==
    \/ \E t \in Tunnels : \/ Establishes(t) \/ Hangs(t)
                          \/ \E d \in Gadgets : Connects(t, d)
    \/ \E d \in Gadgets : Forgets(d) \/ AskFor(d) \/ LosesRight(d)
    \/ \E p \in Planes : CutoffEnds(p) \/ PlaneFails(p) \/ PlaneAnswers(p) \/ MaintenanceOf(p)
    \/ BeginRound \/ EndRound \/ HearAnswer

\* The rounds go on, the memory of an answer ends, and so does an outage.
GatewayFairness ==
    /\ WF_gatewayVars(Runs("gateway") /\ BeginRound) /\ WF_gatewayVars(Runs("gateway") /\ EndRound) /\ WF_gatewayVars(Runs("gateway") /\ HearAnswer)
    /\ \A d \in Gadgets : WF_gatewayVars(Runs("gateway") /\ AskFor(d)) /\ WF_gatewayVars(Runs("gateway") /\ Forgets(d))
    /\ \A p \in Planes : WF_gatewayVars(Runs("gateway") /\ PlaneAnswers(p))

-----------------------------------------------------------------------------
\* The count that the limit of connections is held against is the number of tunnels that
\* live, in whatever order they are dialled, established, cut and closed twice.
CountIsTrue == \A d \in Gadgets : active[d] = Cardinality(LiveTunnels(d))

\* An outage of a control plane closes no tunnel: one that a round closes belongs to a
\* device that was refused, or to a plane under maintenance.
OutageKeepsTunnels ==
    [][HearAnswer =>
         \A t \in Tunnels : tunnel[t].pc = "live" /\ tunnel'[t].pc = "none"
                              => \/ ~right[tunnel[t].of]
                                 \/ PlaneOf[tunnel[t].of] \in closedFor]_gatewayVars

\* A device that lost its right, and a plane under maintenance, has no tunnel in the end:
\* neither one that was open, nor one that an answer remembered from before lets in.
RevokedTunnelsEnd ==
    \A d \in Gadgets : <>[](~right[d] => LiveTunnels(d) = {})
MaintenanceEndsTunnels ==
    \A d \in Gadgets : <>[](PlaneOf[d] \in closedFor => LiveTunnels(d) = {})

\* The gateway: the count of tunnels is right, an outage of the control plane costs no
\* tunnel, and a refusal or a maintenance ends the tunnels it is about.
GatewayHolds == []CountIsTrue /\ OutageKeepsTunnels /\ RevokedTunnelsEnd /\ MaintenanceEndsTunnels
=============================================================================
