-------------------------- MODULE SessionLifecycle --------------------------
(***************************************************************************)
(* VPN sessions of the GlukVPN control plane, the tunnel addresses they    *)
(* lease, the pull-model command queue of each node and the node agent     *)
(* that carries the commands out on the node's WireGuard interface.        *)
(*                                                                         *)
(* Three kinds of actors interleave: requests and monitor passes on the    *)
(* control server (Callers), one single-threaded agent per node, and the   *)
(* network between them, which loses requests and replies.  Every await    *)
(* of the control server that another actor can observe is a step of its   *)
(* own; one database transaction is one step.                              *)
(***************************************************************************)
EXTENDS Integers, Sequences, FiniteSets

CONSTANTS
    Devices,        \* client devices, one WireGuard key each
    Users,
    Owner,          \* Owner[d]: the account of device d
    Nodes,
    Ips,            \* addresses of a node's pool, ordered
    Callers,        \* requests the control server serves at one time
    SessionLimit,   \* sessions an account may hold at once
    Capacity,       \* sessions a node may carry at once
    MaxAttempts,    \* deliveries of one command
    BatchLimit,     \* commands a heartbeat carries
    MaxSessions,    \* bound of the model: rows of the sessions table
    MaxCommands,    \* bound of the model: rows of the node_commands table
    Events,         \* which of EventKinds may happen
    MaxEvents,      \* bound of the model: how many of them happen in all
    None            \* no device, no node

EventKinds ==
    { "revoke",         \* a device is revoked
      "maintenance",    \* an administrator closes and reopens the VPN gate
      "disable",        \* an administrator disables and enables a node
      "server_crash",   \* a request dies half-way: a stop, a database error
      "agent_restart",  \* the agent process stops; its peers stay
      "node_reboot",    \* the node restarts with no peer
      "exec_fails",     \* `wg set` fails, before or after it took effect
      "reply_lost",     \* a request or its reply is lost
      "ack_late",       \* an ack is handled after the agent gave up on it
      "long_outage",    \* a node lags behind by more than the reclaim grace
      "slow_reclaim" }  \* other steps fall into the monitor's lease reclaim

ASSUME ConstantsAssumption ==
    /\ Owner \in [Devices -> Users]
    /\ Ips \subseteq Nat
    /\ SessionLimit \in Nat \ {0}
    /\ Capacity \in Nat
    /\ MaxAttempts \in Nat \ {0}
    /\ BatchLimit \in Nat \ {0}
    /\ MaxSessions \in Nat
    /\ MaxCommands \in Nat
    /\ Events \subseteq EventKinds
    /\ MaxEvents \in Nat
    /\ None \notin Devices \cup Nodes
    /\ Callers \cap Nodes = {}

VARIABLES
    active,         \* devices whose row is ACTIVE
    maintenance,    \* nodes behind a closed gate
    disabled,       \* nodes whose row is DISABLED
    session,        \* the sessions table
    lease,          \* lease[n][i]: session the address is leased to, or 0
    command,        \* the node_commands table in order of creation
    late,           \* acks on their way that their agent stopped waiting for
    job,            \* job[r]: where request r of the control server is
    agent,          \* agent[n]: where the agent of node n is
    peer,           \* peer[n][d]: session the key of d was added for, or 0
    route,          \* route[n][i]: device the kernel sends address i to
    events          \* how many of Events have happened

serverVars == <<active, maintenance, disabled, session, lease, command>>
kernelVars == <<peer, route>>
vars == <<active, maintenance, disabled, session, lease, command, late, job,
          agent, peer, route, events>>

\* What the control server serves at one time; the report of node n is n.
Requests == Callers \cup Nodes
Sids == 1 .. MaxSessions
LiveStates == {"PENDING", "ACTIVE"}
OpenStates == {"PENDING", "DELIVERED"}

NoSession == [status |-> "NONE", dev |-> None, node |-> None, ip |-> 0]
Idle == [pc |-> "idle", todo |-> {}, sid |-> 0, then |-> "done",
         dev |-> None, node |-> None]
Resting == [pc |-> "idle", batch |-> {}, ok |-> TRUE, seen |-> {}]

Cids == DOMAIN command
IsLive(s) == session[s].status \in LiveStates
Live == {s \in Sids : IsLive(s)}
LiveOfDevice(d) == {s \in Live : session[s].dev = d}
LiveOfUser(u) == {s \in Live : Owner[session[s].dev] = u}
LiveOnNode(n) == {s \in Live : session[s].node = n}
NodeOf(c) == session[command[c].sid].node
Removals(s) == {c \in Cids : command[c].type = "REMOVE_PEER" /\ command[c].sid = s}
Additions(s) == {c \in Cids : command[c].type = "ADD_PEER" /\ command[c].sid = s}
\* Fault: an open command of either type passes for the removal.
AnyOpenCommand(s) ==
    \E c \in Cids : command[c].sid = s /\ command[c].status \in OpenStates
HasOpenRemoval(s) == \E c \in Removals(s) : command[c].status \in OpenStates

NewCommand(type, s) ==
    [type |-> type, sid |-> s, status |-> "PENDING", tries |-> 0]
Least(S) == CHOOSE x \in S : \A y \in S : x <= y

\* Every address leased to session s goes back to its pool.
Released(s) ==
    [n \in Nodes |-> [i \in Ips |-> IF lease[n][i] = s THEN 0 ELSE lease[n][i]]]

Init ==
    /\ active = Devices
    /\ maintenance = {}
    /\ disabled = {}
    /\ session = [s \in Sids |-> NoSession]
    /\ lease = [n \in Nodes |-> [i \in Ips |-> 0]]
    /\ command = << >>
    /\ late = {}
    /\ job = [r \in Requests |-> Idle]
    /\ agent = [n \in Nodes |-> Resting]
    /\ peer = [n \in Nodes |-> [d \in Devices |-> 0]]
    /\ route = [n \in Nodes |-> [i \in Ips |-> None]]
    /\ events = 0

\* One more of the events this instance admits.
Happens(kind) ==
    /\ kind \in Events
    /\ events < MaxEvents
    /\ events' = events + 1

-----------------------------------------------------------------------------
(***************************************************************************)
(* Requests on the control server.  A request that closes sessions works   *)
(* through the list it read when it began, one closeSession at a time,     *)
(* and then does what it came for.                                         *)
(***************************************************************************)
\* The bounds: rows that requests in progress may still insert are reserved,
\* so that no request is left waiting for room.
Owed == {p \in Requests \X (0 .. MaxSessions) :
            \/ p[2] \in job[p[1]].todo
            \/ p[2] = job[p[1]].sid /\ job[p[1]].pc = "enqueue"
            \/ p[2] = 0 /\ job[p[1]].then = "create"}
RoomFor(k) == Len(command) + Cardinality(Owed) + k <= MaxCommands
Unused == {s \in Sids : session[s].status = "NONE"}

Start(r, todo, then, d, n) ==
    /\ job[r].pc = "idle"
    /\ RoomFor(Cardinality(todo) + 1)
    /\ job' = [job EXCEPT ![r] = [pc |-> "close", todo |-> todo, sid |-> 0,
                                  then |-> then, dev |-> d, node |-> n]]
    /\ UNCHANGED <<serverVars, late, agent, kernelVars>>

\* POST /api/vpn/disconnect, the monitor's pass and every other caller that
\* names one live session.
BeginClose(r) ==
    /\ \E s \in Live : Start(r, {s}, "done", None, None)
    /\ UNCHANGED events

\* connectSession up to the creation of the session: the device's previous
\* sessions are to be closed first.
BeginConnect(r) ==
    /\ Cardinality(Unused) > Cardinality({q \in Requests : job[q].then = "create"})
    /\ \E d \in active, n \in Nodes \ (disabled \cup maintenance) :
          Start(r, LiveOfDevice(d), "create", d, n)
    /\ UNCHANGED events

\* POST /api/admin/nodes/:id/disable.
BeginDisable(r) ==
    /\ Happens("disable")
    /\ \E n \in Nodes : Start(r, LiveOnNode(n), "disable", None, n)

\* closeSession reads the row and looks for an open REMOVE_PEER.
CloseCheck(r) ==
    /\ job[r].pc = "close"
    /\ job[r].todo # {}
    /\ LET s == Least(job[r].todo) IN
       job' = [job EXCEPT
         ![r].todo = @ \ {s},
         ![r].sid = IF IsLive(s) THEN s ELSE 0,
         ![r].pc = IF ~IsLive(s) THEN "close"
                   ELSE IF HasOpenRemoval(s) THEN "commit" ELSE "enqueue"]
    /\ UNCHANGED <<serverVars, late, agent, kernelVars, events>>

CloseEnqueue(r) ==
    /\ job[r].pc = "enqueue"
    /\ command' = Append(command, NewCommand("REMOVE_PEER", job[r].sid))
    /\ job' = [job EXCEPT ![r].pc = "commit"]
    /\ UNCHANGED <<active, maintenance, disabled, session, lease, late, agent,
                   kernelVars, events>>

\* The update names the row only by its id, so it applies whatever its status.
CloseCommit(r) ==
    /\ job[r].pc = "commit"
    /\ session' = [session EXCEPT ![job[r].sid].status = "CLOSED"]
    /\ job' = [job EXCEPT ![r].pc = "close", ![r].sid = 0]
    /\ UNCHANGED <<active, maintenance, disabled, lease, command, late, agent,
                   kernelVars, events>>

AtEnd(r, then) ==
    /\ job[r].pc = "close"
    /\ job[r].todo = {}
    /\ job[r].then = then
    /\ job' = [job EXCEPT ![r] = Idle]

FinishClose(r) ==
    /\ AtEnd(r, "done")
    /\ UNCHANGED <<serverVars, late, agent, kernelVars, events>>

FinishDisable(r) ==
    /\ AtEnd(r, "disable")
    /\ disabled' = disabled \cup {job[r].node}
    /\ UNCHANGED <<active, maintenance, session, lease, command, late, agent,
                   kernelVars, events>>

\* Fault: the account's sessions are counted before the transaction only.
MayCreateUncounted(d, n) ==
    /\ d \in active
    /\ n \notin maintenance \cup disabled
    /\ LiveOfDevice(d) = {}
    /\ Cardinality(LiveOnNode(n)) < Capacity
    /\ \E i \in Ips : lease[n][i] = 0

\* Fault: the service gate is read before the transaction only.
MayCreateUngated(d, n) ==
    /\ d \in active
    /\ n \notin disabled
    /\ Cardinality(LiveOfUser(Owner[d])) < SessionLimit
    /\ LiveOfDevice(d) = {}
    /\ Cardinality(LiveOnNode(n)) < Capacity
    /\ \E i \in Ips : lease[n][i] = 0

\* What the transaction of createSessionWithLease checks again under its locks.
MayCreate(d, n) ==
    /\ d \in active
    /\ n \notin maintenance \cup disabled
    /\ Cardinality(LiveOfUser(Owner[d])) < SessionLimit
    /\ LiveOfDevice(d) = {}
    /\ Cardinality(LiveOnNode(n)) < Capacity
    /\ \E i \in Ips : lease[n][i] = 0

CreateSession(r) ==
    LET d == job[r].dev
        n == job[r].node
        s == Least(Unused)
        ip == Least({i \in Ips : lease[n][i] = 0})
    IN /\ AtEnd(r, "create")
       /\ MayCreate(d, n)
       /\ Unused # {}
       /\ session' = [session EXCEPT ![s] =
                        [status |-> "PENDING", dev |-> d, node |-> n, ip |-> ip]]
       /\ lease' = [lease EXCEPT ![n][ip] = s]
       /\ command' = Append(command, NewCommand("ADD_PEER", s))
       /\ UNCHANGED <<active, maintenance, disabled, late, agent, kernelVars, events>>

RefuseSession(r) ==
    /\ AtEnd(r, "create")
    /\ ~MayCreate(job[r].dev, job[r].node)
    /\ UNCHANGED <<serverVars, late, agent, kernelVars, events>>

-----------------------------------------------------------------------------
(***************************************************************************)
(* closeSessionsInTransaction: rows, queued additions and removals change  *)
(* together under the service gate's lock.                                 *)
(***************************************************************************)
CloseInTransaction(S) ==
    LET cancelled == [c \in Cids |->
            IF /\ command[c].sid \in S
               /\ command[c].type = "ADD_PEER"
               /\ command[c].status = "PENDING"
            THEN [command[c] EXCEPT !.status = "FAILED"] ELSE command[c]]
        ranks == 1 .. Cardinality(S)
    IN /\ RoomFor(Cardinality(S))
       /\ session' = [s \in Sids |->
            IF s \in S THEN [session[s] EXCEPT !.status = "CLOSED"] ELSE session[s]]
       /\ \E order \in [ranks -> S] :
            /\ \A s \in S : \E k \in ranks : order[k] = s
            /\ command' = cancelled \o
                          [k \in ranks |-> NewCommand("REMOVE_PEER", order[k])]
       /\ UNCHANGED <<lease, late, job, agent, kernelVars>>

RevokeDevice(d) ==
    /\ Happens("revoke")
    /\ d \in active
    /\ active' = active \ {d}
    /\ CloseInTransaction(LiveOfDevice(d))
    /\ UNCHANGED <<maintenance, disabled>>

\* The whole service, or one node.
EnterMaintenance(N) ==
    /\ Happens("maintenance")
    /\ maintenance' = maintenance \cup N
    /\ CloseInTransaction({s \in Live : session[s].node \in N})
    /\ UNCHANGED <<active, disabled>>

LeaveMaintenance(N) ==
    /\ N \subseteq maintenance
    /\ maintenance' = maintenance \ N
    /\ UNCHANGED <<active, disabled, session, lease, command, late, job, agent,
                   kernelVars, events>>

EnableNode(n) ==
    /\ n \in disabled
    /\ disabled' = disabled \ {n}
    /\ UNCHANGED <<active, maintenance, session, lease, command, late, job,
                   agent, kernelVars, events>>

-----------------------------------------------------------------------------
(***************************************************************************)
(* The agent of node n and the endpoints it calls.  It polls, carries out  *)
(* and acknowledges one batch at a time; between two batches it may report *)
(* the peers it finds on the interface.                                    *)
(***************************************************************************)
\* claimPendingCommands: additions whose session ended are cancelled, the
\* oldest pending commands become DELIVERED.
Stale(n) == {c \in Cids : /\ NodeOf(c) = n
                          /\ command[c].type = "ADD_PEER"
                          /\ command[c].status = "PENDING"
                          /\ ~IsLive(command[c].sid)}
Deliverable(n) == {c \in Cids : NodeOf(c) = n /\ command[c].status = "PENDING"}
                      \ Stale(n)
\* Fault: the youngest commands are claimed first.
ClaimedYoungest(n) ==
    {c \in Deliverable(n) : Cardinality({b \in Deliverable(n) : b > c}) < BatchLimit}
Claimed(n) == {c \in Deliverable(n) :
                 Cardinality({b \in Deliverable(n) : b < c}) < BatchLimit}

\* requireNode lets the heartbeat in while the row it reads is not DISABLED.
HeartbeatAuth(n) ==
    /\ agent[n].pc = "idle"
    /\ n \notin disabled
    /\ agent' = [agent EXCEPT ![n].pc = "beat"]
    /\ UNCHANGED <<serverVars, late, job, kernelVars, events>>

\* The rest of the handler.  The status it writes is computed from the row
\* requireNode read: a node disabled in between is written ONLINE again.
ServeHeartbeat(n) ==
    /\ agent[n].pc = "beat"
    /\ disabled' = disabled \ {n}
    /\ command' = [c \in Cids |->
         IF c \in Stale(n) THEN [command[c] EXCEPT !.status = "FAILED"]
         ELSE IF c \in Claimed(n)
              THEN [command[c] EXCEPT !.status = "DELIVERED", !.tries = @ + 1]
              ELSE command[c]]
    /\ UNCHANGED <<active, maintenance, session, lease, late, job, kernelVars>>

Heartbeat(n) ==
    /\ ServeHeartbeat(n)
    /\ agent' = [agent EXCEPT ![n].pc = IF Claimed(n) = {} THEN "tail" ELSE "run",
                              ![n].batch = Claimed(n)]
    /\ UNCHANGED events

HeartbeatReplyLost(n) ==
    /\ Happens("reply_lost")
    /\ ServeHeartbeat(n)
    /\ agent' = [agent EXCEPT ![n] = Resting]

\* `wg set <iface> peer <key> allowed-ips <ip>/32`: the address moves to this
\* key from whichever key held it, and is the only one this key keeps.
AddPeer(n, s) ==
    LET d == session[s].dev IN
    /\ peer' = [peer EXCEPT ![n][d] = s]
    /\ route' = [route EXCEPT ![n] = [i \in Ips |->
         IF i = session[s].ip THEN d ELSE IF @[i] = d THEN None ELSE @[i]]]

\* `wg set <iface> peer <key> remove`, for every key of D.
RemovePeers(n, D) ==
    /\ peer' = [peer EXCEPT ![n] = [d \in Devices |-> IF d \in D THEN 0 ELSE @[d]]]
    /\ route' = [route EXCEPT ![n] =
         [i \in Ips |-> IF @[i] \in D THEN None ELSE @[i]]]

\* What carrying out command c does to the kernel.
Apply(n, c) ==
    LET s == command[c].sid IN
    IF command[c].type = "ADD_PEER" THEN AddPeer(n, s)
    ELSE RemovePeers(n, {session[s].dev})

Execute(n) ==
    /\ agent[n].pc = "run"
    /\ Apply(n, Least(agent[n].batch))
    /\ agent' = [agent EXCEPT ![n].pc = "ack", ![n].ok = TRUE]
    /\ UNCHANGED <<serverVars, late, job, events>>

ExecuteFails(n) ==
    /\ Happens("exec_fails")
    /\ agent[n].pc = "run"
    /\ Apply(n, Least(agent[n].batch)) \/ UNCHANGED kernelVars
    /\ agent' = [agent EXCEPT ![n].pc = "ack", ![n].ok = FALSE]
    /\ UNCHANGED <<serverVars, late, job>>

\* completeCommand: a finished command keeps its status.
Completed(c, ok) ==
    [command EXCEPT ![c].status =
       IF @ \in OpenStates THEN IF ok THEN "DONE" ELSE "FAILED" ELSE @]

\* Fault: an ack applies to a session in whatever state.
AckEffectUnguarded(c, ok) ==
    LET s == command[c].sid IN
    IF command[c].type = "ADD_PEER"
    THEN /\ session' = [session EXCEPT ![s].status = IF ok THEN "ACTIVE" ELSE "FAILED"]
         /\ lease' = IF ok THEN lease ELSE Released(s)
    ELSE /\ session' = session
         /\ lease' = IF ok THEN Released(s) ELSE lease

\* Fault: the session row gets the status of the command.
AckEffectMixedUp(c, ok) ==
    LET s == command[c].sid IN
    IF command[c].type = "ADD_PEER" /\ session[s].status = "PENDING"
    THEN /\ session' = [session EXCEPT ![s].status = IF ok THEN "DONE" ELSE "FAILED"]
         /\ lease' = IF ok THEN lease ELSE Released(s)
    ELSE /\ session' = session
         /\ lease' = IF ok THEN Released(s) ELSE lease

\* What the ack of command c then does to its session and its lease, whatever
\* completeCommand found.
AckEffect(c, ok) ==
    LET s == command[c].sid
        pending == session[s].status = "PENDING"
    IN IF command[c].type = "ADD_PEER"
       THEN /\ session' = IF pending
                          THEN [session EXCEPT ![s].status =
                                  IF ok THEN "ACTIVE" ELSE "FAILED"]
                          ELSE session
            /\ lease' = IF ok THEN lease ELSE Released(s)
       ELSE /\ session' = session
            /\ lease' = IF ok THEN Released(s) ELSE lease

ServeAck(c, ok) ==
    /\ command' = Completed(c, ok)
    /\ AckEffect(c, ok)
    /\ UNCHANGED <<active, maintenance, disabled, job, kernelVars>>

\* The agent is through with the first command of its batch.
NextCommand(n) ==
    LET rest == agent[n].batch \ {Least(agent[n].batch)} IN
    agent' = [agent EXCEPT ![n].pc = IF rest = {} THEN "tail" ELSE "run",
                           ![n].batch = rest, ![n].ok = TRUE]

Ack(n) ==
    /\ agent[n].pc = "ack"
    /\ n \notin disabled
    /\ ServeAck(Least(agent[n].batch), agent[n].ok)
    /\ NextCommand(n)
    /\ UNCHANGED <<late, events>>

\* The request is lost, or requireNode refuses it.
AckFails(n) ==
    /\ agent[n].pc = "ack"
    /\ Happens("reply_lost") \/ (n \in disabled /\ UNCHANGED events)
    /\ NextCommand(n)
    /\ UNCHANGED <<serverVars, late, job, kernelVars>>

AckTimesOut(n) ==
    /\ Happens("ack_late")
    /\ agent[n].pc = "ack"
    /\ n \notin disabled
    /\ late' = late \cup {[cid |-> Least(agent[n].batch), ok |-> agent[n].ok]}
    /\ NextCommand(n)
    /\ UNCHANGED <<serverVars, job, kernelVars>>

LateAck ==
    \E m \in late :
        /\ late' = late \ {m}
        /\ ServeAck(m.cid, m.ok)
        /\ UNCHANGED <<agent, events>>

\* The request dies between completeCommand and the rest of the handler.
AckInterrupted(n) ==
    /\ Happens("server_crash")
    /\ agent[n].pc = "ack"
    /\ n \notin disabled
    /\ command' = Completed(Least(agent[n].batch), agent[n].ok)
    /\ NextCommand(n)
    /\ UNCHANGED <<active, maintenance, disabled, session, lease, late, job,
                   kernelVars>>

\* The reporting interval has not elapsed: the tick ends here.
EndTick(n) ==
    /\ agent[n].pc = "tail"
    /\ agent' = [agent EXCEPT ![n] = Resting]
    /\ UNCHANGED <<serverVars, late, job, kernelVars, events>>

\* sendReport: `wg show dump`, the report, the removals it is answered with.
DumpPeers(n) ==
    /\ agent[n].pc = "tail"
    /\ agent' = [agent EXCEPT ![n].pc = "report",
                              ![n].seen = {d \in Devices : peer[n][d] # 0}]
    /\ UNCHANGED <<serverVars, late, job, kernelVars, events>>

\* Faults: the report overlooks sessions without a peer, or peers without a
\* session, or takes a session whose ADD_PEER is not acknowledged for none.
NothingMissing(n) == {}
NothingUnknown(n) == {}
UnknownToActive(n) ==
    {d \in agent[n].seen :
       \A s \in LiveOfDevice(d) \cap LiveOnNode(n) : session[s].status = "PENDING"}

Missing(n) == {s \in LiveOnNode(n) : /\ session[s].status = "ACTIVE"
                                     /\ session[s].dev \notin agent[n].seen}
Unknown(n) == {d \in agent[n].seen : LiveOfDevice(d) \cap LiveOnNode(n) = {}}

\* POST /api/node/report.  aged: the sessions it misses are past the grace
\* period, so the handler closes them.
ServeReport(n, aged) ==
    /\ agent[n].pc = "report"
    /\ n \notin disabled
    /\ job[n] = Idle
    /\ aged => RoomFor(Cardinality(Missing(n)))
    /\ job' = [job EXCEPT ![n] = [Idle EXCEPT
                !.pc = "close", !.todo = IF aged THEN Missing(n) ELSE {}]]
    /\ agent' = [agent EXCEPT ![n].pc = "clean", ![n].seen = Unknown(n)]
    /\ UNCHANGED <<serverVars, late, kernelVars, events>>

ReportFails(n) ==
    /\ agent[n].pc = "report"
    /\ Happens("reply_lost") \/ (n \in disabled /\ UNCHANGED events)
    /\ agent' = [agent EXCEPT ![n] = Resting]
    /\ UNCHANGED <<serverVars, late, job, kernelVars>>

CleanPeers(n) ==
    /\ agent[n].pc = "clean"
    /\ job[n] = Idle
    /\ RemovePeers(n, agent[n].seen)
    /\ agent' = [agent EXCEPT ![n] = Resting]
    /\ UNCHANGED <<serverVars, late, job, events>>

-----------------------------------------------------------------------------
(***************************************************************************)
(* The monitor's retries and its safety net, and the faults.               *)
(***************************************************************************)
\* No request is between closeSession's check and its update for session s.
\* One database round trip is far shorter than the minute the windows of the
\* monitor take at least.
Settled(s) == \A r \in Requests : job[r].pc \in {"enqueue", "commit"} => job[r].sid # s

\* requeueStaleCommands.
RequeueStale(c) ==
    /\ command[c].status = "DELIVERED"
    /\ Settled(command[c].sid)
    /\ command' = [command EXCEPT ![c].status =
                     IF command[c].tries < MaxAttempts THEN "PENDING" ELSE "FAILED"]
    /\ UNCHANGED <<active, maintenance, disabled, session, lease, late, job,
                   agent, kernelVars, events>>

\* The peer of session s is off its node and no addition of it is under way.
PeerGone(s) ==
    LET n == session[s].node IN
    /\ peer[n][session[s].dev] # s
    /\ agent[n].batch \cap Additions(s) = {}

\* The monitor is in the middle of its reclaim; its passes do not overlap.
Reclaiming == \E r \in Callers : job[r].pc = "reclaim"

\* Faults: the safety net takes every session that is not ACTIVE for ended, or
\* every session, or FAILED ones only.
ReclaimLeaseOf(s) ==
    /\ \E n \in Nodes, i \in Ips : lease[n][i] = s
    /\ Happens("long_outage") \/ (PeerGone(s) /\ UNCHANGED events)
    /\ lease' = Released(s)
    /\ UNCHANGED <<active, maintenance, disabled, session, command, late, job,
                   agent, kernelVars>>
ReclaimAnyLease(s) == session[s].status # "NONE" /\ ReclaimLeaseOf(s)
ReclaimInactive(s) == session[s].status # "ACTIVE" /\ ReclaimLeaseOf(s)
ReclaimFailedOnly(s) == session[s].status = "FAILED" /\ ReclaimLeaseOf(s)

\* Leases of sessions that ended more than the grace period ago.  A node that
\* keeps in touch has removed the peer by then.
ReclaimLease(s) ==
    /\ ~Reclaiming
    /\ session[s].status \in {"CLOSED", "FAILED"}
    /\ \E n \in Nodes, i \in Ips : lease[n][i] = s
    /\ Happens("long_outage") \/ (PeerGone(s) /\ UNCHANGED events)
    /\ lease' = Released(s)
    /\ UNCHANGED <<active, maintenance, disabled, session, command, late, job,
                   agent, kernelVars>>

ReclaimOf(s) == [Idle EXCEPT !.pc = "reclaim", !.sid = s]

\* The same, with other steps between the query for the leases and the update,
\* which names them by their ids alone.
BeginReclaim(r) ==
    /\ Happens("slow_reclaim")
    /\ job[r].pc = "idle"
    /\ ~Reclaiming
    /\ \E s \in Sids :
         /\ session[s].status \in {"CLOSED", "FAILED"}
         /\ \E n \in Nodes, i \in Ips : lease[n][i] = s
         /\ PeerGone(s)
         /\ job' = [job EXCEPT ![r] = ReclaimOf(s)]
    /\ UNCHANGED <<serverVars, late, agent, kernelVars>>

FinishReclaim(r) ==
    /\ job[r].pc = "reclaim"
    /\ LET s == job[r].sid IN
       lease' = [n \in Nodes |-> [i \in Ips |->
          IF n = session[s].node /\ i = session[s].ip THEN 0 ELSE lease[n][i]]]
    /\ job' = [job EXCEPT ![r] = Idle]
    /\ UNCHANGED <<active, maintenance, disabled, session, command, late, agent,
                   kernelVars, events>>

RequestDies(r) ==
    /\ Happens("server_crash")
    /\ job[r] # Idle
    /\ job' = [job EXCEPT ![r] = Idle]
    /\ agent' = [n \in Nodes |-> IF n = r THEN Resting ELSE agent[n]]
    /\ UNCHANGED <<serverVars, late, kernelVars>>

AgentRestart(n) ==
    /\ Happens("agent_restart")
    /\ agent[n] # Resting
    /\ agent' = [agent EXCEPT ![n] = Resting]
    /\ UNCHANGED <<serverVars, late, job, kernelVars>>

NodeReboot(n) ==
    /\ Happens("node_reboot")
    /\ agent' = [agent EXCEPT ![n] = Resting]
    /\ RemovePeers(n, Devices)
    /\ UNCHANGED <<serverVars, late, job>>

-----------------------------------------------------------------------------
CloseSteps(r) == CloseCheck(r) \/ CloseEnqueue(r) \/ CloseCommit(r) \/ FinishClose(r)
ConnectSteps(r) == CreateSession(r) \/ RefuseSession(r)

Server ==
    \/ \E r \in Callers : \/ BeginClose(r) \/ BeginConnect(r) \/ BeginDisable(r)
                          \/ BeginReclaim(r)
    \/ \E r \in Requests : \/ CloseSteps(r) \/ ConnectSteps(r) \/ FinishDisable(r)
                           \/ FinishReclaim(r) \/ RequestDies(r)
    \/ \E d \in Devices : RevokeDevice(d)
    \/ \E N \in {Nodes} \cup {{n} : n \in Nodes} :
          EnterMaintenance(N) \/ LeaveMaintenance(N)
    \/ \E n \in Nodes : EnableNode(n)
    \/ \E c \in Cids : RequeueStale(c)
    \/ \E s \in Sids : ReclaimLease(s)
    \/ LateAck

Agent(n) ==
    \/ HeartbeatAuth(n) \/ Heartbeat(n) \/ HeartbeatReplyLost(n)
    \/ Execute(n) \/ ExecuteFails(n)
    \/ Ack(n) \/ AckFails(n) \/ AckTimesOut(n) \/ AckInterrupted(n)
    \/ EndTick(n) \/ DumpPeers(n) \/ ReportFails(n) \/ CleanPeers(n)
    \/ \E aged \in BOOLEAN : ServeReport(n, aged)
    \/ AgentRestart(n) \/ NodeReboot(n)

Next == Server \/ \E n \in Nodes : Agent(n)

Spec == Init /\ [][Next]_vars

\* Requests in progress finish, the monitor runs every fifteen seconds, and the
\* agent's loop polls, executes, acknowledges and reports without end.
Fairness ==
    /\ \A r \in Requests : /\ WF_vars(CloseSteps(r))
                           /\ WF_vars(ConnectSteps(r) \/ FinishDisable(r) \/ FinishReclaim(r))
    /\ WF_vars(\E s \in Sids : ReclaimLease(s))
    /\ WF_vars(\E c \in Cids : RequeueStale(c))
    /\ \A n \in Nodes :
         /\ WF_vars(HeartbeatAuth(n))
         /\ WF_vars(Heartbeat(n))
         /\ WF_vars(Execute(n))
         /\ WF_vars(Ack(n) \/ AckFails(n))
         /\ SF_vars(DumpPeers(n))
         /\ SF_vars(ServeReport(n, TRUE))
         /\ WF_vars(n \in disabled /\ ReportFails(n))
         /\ WF_vars(CleanPeers(n))

FairSpec == Spec /\ Fairness

-----------------------------------------------------------------------------
(***************************************************************************)
(* Properties.                                                             *)
(***************************************************************************)
Terminal == {"CLOSED", "FAILED"}

SessionRows ==
    [status : LiveStates \cup Terminal \cup {"NONE"}, dev : Devices \cup {None},
     node : Nodes \cup {None}, ip : Ips \cup {0}]
CommandRows ==
    [type : {"ADD_PEER", "REMOVE_PEER"}, sid : Sids,
     status : OpenStates \cup {"DONE", "FAILED"}, tries : Nat]
Jobs ==
    [pc : {"idle", "close", "enqueue", "commit", "reclaim"}, todo : SUBSET Sids,
     sid : Sids \cup {0}, then : {"done", "create", "disable"},
     dev : Devices \cup {None}, node : Nodes \cup {None}]
Agents ==
    [pc : {"idle", "beat", "run", "ack", "tail", "report", "clean"},
     batch : SUBSET Cids, ok : BOOLEAN, seen : SUBSET Devices]

\* Every variable stays within its type (tables, jobs, agents, kernel).
TypeOK ==
    /\ active \subseteq Devices
    /\ maintenance \subseteq Nodes
    /\ disabled \subseteq Nodes
    /\ session \in [Sids -> SessionRows]
    /\ lease \in [Nodes -> [Ips -> Sids \cup {0}]]
    /\ command \in Seq(CommandRows)
    /\ late \subseteq [cid : Cids, ok : BOOLEAN]
    /\ job \in [Requests -> Jobs]
    /\ agent \in [Nodes -> Agents]
    /\ peer \in [Nodes -> [Devices -> Sids \cup {0}]]
    /\ route \in [Nodes -> [Ips -> Devices \cup {None}]]
    /\ events \in Nat

\* However requests interleave, a device has at most one live session, and no
\* account and no node exceeds its allowance (the re-checks of
\* createSessionWithLease under its row locks).
LimitsHold ==
    /\ \A d \in Devices : Cardinality(LiveOfDevice(d)) <= 1
    /\ \A u \in Users : Cardinality(LiveOfUser(u)) <= SessionLimit
    /\ \A n \in Nodes : Cardinality(LiveOnNode(n)) <= Capacity

\* No connect that was under way slips past a revocation or a maintenance: a
\* revoked device and a node in maintenance have no live session.
GateHolds ==
    \A s \in Live : session[s].dev \in active /\ session[s].node \notin maintenance

\* Whoever closed it and however often the server stopped half-way, a closed
\* session has a REMOVE_PEER in its node's queue (closeSession enqueues before
\* it updates the row).
ClosedHasRemoval ==
    \A s \in Sids : session[s].status = "CLOSED" => Removals(s) # {}

\* The address of a live session is its own until the removal of its peer has
\* been asked for: neither an ack nor the monitor gives it back early.
LeaseKept ==
    \A s \in Live : Removals(s) = {} => lease[session[s].node][session[s].ip] = s

\* "The peer is really gone: the tunnel IP can be reused now" (routes/node.ts):
\* once every removal of a closed session is acknowledged, no redelivered
\* ADD_PEER has brought its peer back.
RemovedStaysRemoved ==
    \A s \in Sids :
        /\ session[s].status = "CLOSED"
        /\ \A c \in Removals(s) : command[c].status = "DONE"
        => peer[session[s].node][session[s].dev] # s

\* A session shown as ready to the client (ACTIVE) has its peer and its address
\* on the node, unless the node was given a removal for the same key that is
\* younger than its ADD_PEER or was delivered once more.
PeerOfActive ==
    \A s \in Live : session[s].status = "ACTIVE" =>
        LET n == session[s].node
            d == session[s].dev
        IN \/ peer[n][d] = s /\ route[n][session[s].ip] = d
           \/ \E c \in Cids :
                 /\ command[c].type = "REMOVE_PEER"
                 /\ session[command[c].sid].dev = d
                 /\ command[c].tries > 1 \/ \E a \in Additions(s) : a < c

\* A session that ended never becomes live again, whatever ack arrives late.
NoResurrection ==
    [][\A s \in Sids : session[s].status \in Terminal
                          => session'[s].status \in Terminal]_vars

\* The peers a report removes belong to no live session at the moment the agent
\* removes them, though the answer was computed from an earlier dump.
ReportCutsOnlyDead ==
    [][\A n \in Nodes : CleanPeers(n) =>
          \A d \in agent[n].seen : peer[n][d] \notin Live]_vars

\* Carrying out a command never takes an address from the peer of another live
\* session: traffic of one client never turns to another.
NeverStolen ==
    [][\A n \in Nodes, d \in Devices, i \in Ips :
          /\ agent[n].pc = "run"
          /\ route[n][i] = d
          /\ route'[n][i] \notin {d, None}
          => peer[n][d] \notin Live]_vars

\* The peer of an ended session leaves its node, by its REMOVE_PEER or, when
\* that was given up, by a report.
ClosedPeerRemoved ==
    \A s \in Sids : session[s].status \in Terminal
                       ~> \A n \in Nodes, d \in Devices : peer[n][d] # s

\* The address of an ended session returns to the pool, by an ack or by the
\* monitor's safety net.
LeaseReturned ==
    \A s \in Sids : session[s].status \in Terminal
                       ~> \A n \in Nodes, i \in Ips : lease[n][i] # s

\* An ACTIVE session whose peer is gone from the node does not stay so: the
\* report closes it.
PeerlessEnds ==
    \A s \in Sids, n \in Nodes, d \in Devices :
        session[s] = [status |-> "ACTIVE", dev |-> d, node |-> n,
                      ip |-> session[s].ip] /\ peer[n][d] = 0
           ~> session[s].status \in Terminal

\* The kernel of a node agrees with the sessions table, and the pool with both.
KernelAgrees == PeerOfActive /\ LeaseKept /\ RemovedStaysRemoved

\* What is on a node and in the pool comes to follow the sessions table: ended
\* sessions leave both, and one that lost its peer ends.
PeersFollow == ClosedPeerRemoved /\ LeaseReturned /\ PeerlessEnds
=============================================================================
