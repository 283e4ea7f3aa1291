----------------------------- MODULE PolicySync -----------------------------
(***************************************************************************)
(* The policy of a sing-box gateway: the document that the control plane   *)
(* builds, the SYNC_POLICY command and the version in the heartbeat that   *)
(* bring it to the agent, the files the agent keeps, and the connections   *)
(* that it cuts. A version is a hash of the document; here it is the       *)
(* document.                                                               *)
(***************************************************************************)
EXTENDS Happenings

CONSTANTS Peers     \* the devices that have a credential for the gateway

VARIABLES
    allowed,    \* devices whose owner, plan and status admit them
    closedDown, \* maintenance of the service or of the node, or the node is DISABLED
    rule,       \* an administrator's rule: None, or whether sing-box accepts it
    command,    \* the node's SYNC_POLICY: None, "PENDING" or "DELIVERED"
    config,     \* singbox.json: the document that it was rendered from
    onDisk,     \* the two files beside it: applied version and cutoff
    agent,      \* the agent's memory; None while it is down
    linked      \* linked[d]: the device has a connection through the gateway

policyVars == <<allowed, closedDown, rule, command, config, onDisk, agent, linked>>

\* What the control plane may send: a closed gateway has no users.
Documents ==
    {doc \in [users : SUBSET Peers, closed : BOOLEAN, rule : {None, "accepted", "refused"}] :
        doc.closed => doc.users = {}}
Agents ==
    [pc : {"idle", "polled", "fetched", "written", "versioned", "acking"},
     applied : Documents, cutoff : [users : SUBSET Peers, closed : BOOLEAN],
     desired : Documents \union {None}, told : Documents \union {None},
     commanded : BOOLEAN, doc : Documents \union {None}]

ASSUME PolicyAssumption == None \notin Agents

\* buildNodePolicy.
Document == [users |-> IF closedDown THEN {} ELSE allowed, closed |-> closedDown, rule |-> rule]
CutoffOf(doc) == [users |-> doc.users, closed |-> doc.closed]

\* A start of the agent: SingboxManager reads the files beside the configuration.
Started(disk) ==
    [pc |-> "idle", applied |-> disk.version, cutoff |-> disk.cutoff,
     desired |-> None, told |-> None, commanded |-> FALSE, doc |-> None]

PolicyInit ==
    /\ allowed = Peers /\ closedDown = FALSE /\ rule = None
    /\ command = None
    /\ config = Document
    /\ onDisk = [version |-> Document, cutoff |-> CutoffOf(Document)]
    /\ agent = [Started(onDisk) EXCEPT !.desired = Document]
    /\ linked = [d \in Peers |-> FALSE]

-----------------------------------------------------------------------------
\* requestPolicySync leaves an open command alone.
Asked(c) == IF c = None THEN "PENDING" ELSE c

\* A device is revoked, an account blocked, a plan runs out, or the reverse.
Admits(d) ==
    /\ Happens("access")
    /\ allowed' = IF d \in allowed THEN allowed \ {d} ELSE allowed \union {d}
    /\ command' = Asked(command)
    /\ UNCHANGED <<closedDown, rule, config, onDisk, agent, linked>>

SwitchesMaintenance ==
    /\ Happens("maintenance")
    /\ closedDown' = ~closedDown
    /\ command' = Asked(command)
    /\ UNCHANGED <<allowed, rule, config, onDisk, agent, linked>>

\* The rule routes; sing-box reads regular expressions more strictly than normalizeRule.
EditsRule ==
    /\ \/ rule # None /\ rule' = None /\ Happens("rule_removed")
       \/ rule = None /\ rule' = "accepted" /\ Happens("rule")
       \/ rule = None /\ rule' = "refused" /\ Happens("bad_rule")
    /\ command' = Asked(command)
    /\ UNCHANGED <<allowed, closedDown, config, onDisk, agent, linked>>

\* The monitor requeues a command that is not acknowledged, and gives it up in the end.
Requeues ==
    /\ command = "DELIVERED" /\ (agent # None => ~agent.commanded)
    /\ command' \in {"PENDING", None}
    /\ UNCHANGED <<allowed, closedDown, rule, config, onDisk, agent, linked>> /\ Quiet

-----------------------------------------------------------------------------
\* The heartbeat claims the command and carries the version; its reply may be lost.
Beats ==
    /\ agent # None /\ agent.pc = "idle"
    /\ command' = IF command = "PENDING" THEN "DELIVERED" ELSE command
    /\ \/ /\ Quiet
          /\ agent' = [agent EXCEPT !.pc = "polled", !.told = Document, !.commanded = command = "PENDING"]
       \/ Happens("reply_lost") /\ UNCHANGED agent
    /\ UNCHANGED <<allowed, closedDown, rule, config, onDisk, linked>>

\* Fault: after the first heartbeat the commands are enough.
CommandsOnly(a) == a.desired = None
\* Drift, or the first heartbeat since the start.
Wanted(a) == a.desired = None \/ a.told # a.applied

After == IF agent.commanded THEN "acking" ELSE "idle"
Heard == IF agent.commanded THEN agent.desired ELSE agent.told

\* SYNC_POLICY comes first, then the comparison of the versions; each fetches the document.
Fetches ==
    /\ agent # None /\ agent.pc = "polled"
    /\ IF agent.commanded \/ Wanted(agent)
       THEN \/ Quiet /\ agent' = [agent EXCEPT !.pc = "fetched", !.doc = Document, !.desired = Heard]
            \/ Happens("fetch_lost") /\ agent' = [agent EXCEPT !.pc = After, !.desired = Heard]
       ELSE agent' = [agent EXCEPT !.pc = "idle", !.desired = agent.told] /\ Quiet
    /\ UNCHANGED <<allowed, closedDown, rule, command, config, onDisk, linked>>

\* The configuration is checked by sing-box itself, and replaced by a rename.
Writes ==
    /\ agent # None /\ agent.pc = "fetched"
    /\ IF agent.doc = agent.applied THEN agent' = [agent EXCEPT !.pc = "versioned"] /\ UNCHANGED config
       ELSE IF agent.doc.rule = "refused" THEN agent' = [agent EXCEPT !.pc = After] /\ UNCHANGED config
       ELSE agent' = [agent EXCEPT !.pc = "written"] /\ config' = agent.doc
    /\ UNCHANGED <<allowed, closedDown, rule, command, onDisk, linked>> /\ Quiet

RecordsVersion ==
    /\ agent # None /\ agent.pc = "written"
    /\ agent' = [agent EXCEPT !.pc = "versioned", !.applied = agent.doc]
    /\ onDisk' = [onDisk EXCEPT !.version = agent.doc]
    /\ UNCHANGED <<allowed, closedDown, rule, command, config, linked>> /\ Quiet

\* Fault: the list of the users is kept for the next start only.
CutoffForLater(a) == [a EXCEPT !.pc = After]
\* Fault: who is on the list stays on it while the gateway is open.
CutoffKept(a) ==
    [a EXCEPT !.pc = After, !.cutoff = IF a.doc.closed THEN CutoffOf(a.doc)
                                       ELSE [@ EXCEPT !.users = @ \union a.doc.users, !.closed = FALSE]]
\* Fault: who was taken off the list stays off it.
CutoffNarrows(a) ==
    [a EXCEPT !.pc = After, !.cutoff = [CutoffOf(a.doc) EXCEPT !.users = @ \intersect a.cutoff.users]]
\* setCutoff.
WithCutoff(a) == [a EXCEPT !.pc = After, !.cutoff = CutoffOf(a.doc)]

\* Fault: who is missing from the newest version heard of is cut at once.
BarredByTold(a) == IF a.told # None THEN Peers \ a.told.users ELSE Peers \ a.cutoff.users
\* Whom enforceCutoff would close.
Barred(a) == IF a.cutoff.closed THEN Peers ELSE Peers \ a.cutoff.users
Enforced(a) == [d \in Peers |-> linked[d] /\ d \notin Barred(a)]

\* setCutoff, and enforceCutoff where the Clash API answers.
SetsCutoff ==
    /\ agent # None /\ agent.pc = "versioned"
    /\ agent' = WithCutoff(agent)
    /\ onDisk' = [onDisk EXCEPT !.cutoff = CutoffOf(agent.doc)]
    /\ \/ Quiet /\ linked' = Enforced(agent')
       \/ Happens("clash_down") /\ UNCHANGED linked
    /\ UNCHANGED <<allowed, closedDown, rule, command, config>>

\* The acknowledgement does not say whether sing-box took the document.
Acks ==
    /\ agent # None /\ agent.pc = "acking"
    /\ agent' = [agent EXCEPT !.pc = "polled", !.commanded = FALSE]
    /\ \/ Quiet /\ command' = IF command = "DELIVERED" THEN None ELSE command
       \/ Happens("reply_lost") /\ UNCHANGED command
    /\ UNCHANGED <<allowed, closedDown, rule, config, onDisk, linked>>

\* sample, on every tick before the heartbeat.
SamplesGateway ==
    /\ agent # None /\ agent.pc = "idle"
    /\ linked' = Enforced(agent) /\ linked' # linked
    /\ UNCHANGED <<allowed, closedDown, rule, command, config, onDisk, agent>> /\ Quiet

\* Between the configuration and the files beside it, or anywhere else.
AgentStops ==
    /\ agent # None
    /\ Happens(IF agent.pc \in {"written", "versioned"} THEN "crash_between_files" ELSE "agent_crash")
    /\ agent' = None
    /\ UNCHANGED <<allowed, closedDown, rule, command, config, onDisk, linked>>

AgentStarts ==
    /\ agent = None
    /\ agent' = Started(onDisk)
    /\ UNCHANGED <<allowed, closedDown, rule, command, config, onDisk, linked>> /\ Quiet

-----------------------------------------------------------------------------
\* sing-box lets in whom its configuration names, and keeps who is in when it reloads.
Links(d) ==
    /\ ~linked[d] /\ d \in config.users
    /\ linked' = [linked EXCEPT ![d] = TRUE]
    /\ UNCHANGED <<allowed, closedDown, rule, command, config, onDisk, agent>> /\ Quiet

Unlinks(d) ==
    /\ linked[d]
    /\ linked' = [linked EXCEPT ![d] = FALSE]
    /\ UNCHANGED <<allowed, closedDown, rule, command, config, onDisk, agent>> /\ Quiet

PolicyNext ==
    \/ SwitchesMaintenance \/ EditsRule \/ Requeues \/ Beats \/ Fetches \/ Writes \/ RecordsVersion
    \/ SetsCutoff \/ Acks \/ SamplesGateway \/ AgentStops \/ AgentStarts
    \/ \E d \in Peers : Admits(d) \/ Links(d) \/ Unlinks(d)

\* The agent's loop and its restart by systemd. Nothing asks the monitor to be fair.
PolicyFairness ==
    /\ WF_policyVars(Runs("policy") /\ Beats /\ agent' # agent) /\ WF_policyVars(Runs("policy") /\ Fetches) /\ WF_policyVars(Runs("policy") /\ Writes)
    /\ WF_policyVars(Runs("policy") /\ RecordsVersion) /\ WF_policyVars(Runs("policy") /\ SetsCutoff) /\ WF_policyVars(Runs("policy") /\ Acks)
    /\ SF_policyVars(Runs("policy") /\ SamplesGateway) /\ WF_policyVars(Runs("policy") /\ AgentStarts)

-----------------------------------------------------------------------------
\* A connection that the agent cuts is one that the configuration on the node bars: what
\* was allowed again is not cut by the list of before.
CutsOnlyBarred ==
    [][\A d \in Peers : SamplesGateway /\ linked[d] /\ ~linked'[d] => d \notin config.users]_policyVars

\* Between two heartbeats, the list that the agent enforces is that of its configuration.
CutoffFits ==
    (agent # None /\ agent.pc = "idle" /\ agent.desired # None) => agent.cutoff = CutoffOf(config)

\* A change reaches the gateway, although an open command is not queued twice, a reply is
\* lost or the agent restarts; a rule that sing-box refuses holds everything up until it goes.
PolicyArrives == <>[](rule # "refused") => <>[](config = Document)

\* Who is barred is cut off in the end, not only kept from connecting again.
BarredIsCut ==
    \A d \in Peers : <>[](d \notin allowed /\ rule # "refused") => <>[]~linked[d]

\* The agent enforces the list of the configuration that runs, and cuts nobody else.
PolicyHolds == []CutoffFits /\ CutsOnlyBarred
=============================================================================
