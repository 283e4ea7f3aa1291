---------------------------- MODULE SessionProofs ----------------------------
(***************************************************************************)
(* Theorems about SessionLifecycle, for every number of devices, nodes,    *)
(* addresses, requests and sessions, and for every set of Events but where *)
(* a theorem names the kinds it excludes.                                  *)
(***************************************************************************)
EXTENDS SessionImplementsLedger, FiniteSetTheorems, WellFoundedInduction, TLAPS

-----------------------------------------------------------------------------
(***************************************************************************)
(* Lemmas about the operators of the model.                                *)
(***************************************************************************)
\* A nonempty set of naturals has a least element, the one Least chooses: the
\* intervals 1 .. x are well-founded under inclusion.
LEMMA LeastIsMember ==
  ASSUME NEW S \in SUBSET Nat, S # {}
  PROVE  Least(S) \in S /\ \A y \in S : Least(S) <= y
<1> DEFINE T == {1 .. x : x \in S}
<1>1. T # {}
  OBVIOUS
<1>2. T \subseteq FiniteSubsetsOf(Nat)
  <2>1. SUFFICES ASSUME NEW x \in S PROVE 1 .. x \in FiniteSubsetsOf(Nat)
    OBVIOUS
  <2>2. IsFiniteSet(1 .. x)
    BY FS_Interval
  <2>3. 1 .. x \subseteq Nat
    OBVIOUS
  <2> QED
    BY <2>2, <2>3 DEF FiniteSubsetsOf
<1>3. PICK t \in T : \A u \in T : <<u, t>> \notin StrictSubsetOrdering(Nat)
  <2> HIDE DEF T
  <2> QED
    BY <1>1, <1>2, WFMin, FS_StrictSubsetOrderingWellFounded
<1>4. PICK x \in S : t = 1 .. x
  OBVIOUS
<1>5. ASSUME NEW y \in S PROVE x <= y
  <2>1. <<1 .. y, 1 .. x>> \notin StrictSubsetOrdering(Nat)
    BY <1>3, <1>4
  <2>2. (1 .. y \subseteq 1 .. x) => (1 .. y = 1 .. x)
    BY <2>1 DEF StrictSubsetOrdering
  <2> QED
    BY <2>2
<1> QED
  BY <1>5 DEF Least

\* The types of the rows a command goes through.
LEMMA NewCommandType ==
  ASSUME NEW type \in {"ADD_PEER", "REMOVE_PEER"}, NEW s \in Sids
  PROVE  NewCommand(type, s) \in CommandRows
  BY DEF NewCommand, CommandRows, OpenStates

\* Every queue entry is a command row, for a session of the table.
LEMMA RowOfCommand ==
  ASSUME TypeOK, NEW c \in Cids
  PROVE  command[c] \in CommandRows /\ command[c].sid \in Sids /\ c \in Nat
<1>1. command \in Seq(CommandRows)
  BY DEF TypeOK
<1>2. command[c] \in CommandRows /\ c \in Nat
  BY <1>1 DEF Cids
<1> QED
  BY <1>2 DEF CommandRows

\* Acknowledging a command leaves every command what it was, but for a status.
LEMMA CompletedKeeps ==
  ASSUME TypeOK, NEW c \in Cids, NEW ok \in BOOLEAN
  PROVE  /\ Completed(c, ok) \in Seq(CommandRows)
         /\ Len(Completed(c, ok)) = Len(command)
         /\ \A b \in Cids : /\ Completed(c, ok)[b].type = command[b].type
                            /\ Completed(c, ok)[b].sid = command[b].sid
<1>1. command \in Seq(CommandRows)
  BY DEF TypeOK
<1>2. \A b \in Cids : command[b] \in CommandRows
  BY <1>1 DEF Cids
<1> QED
  BY <1>1, <1>2 DEF Completed, Cids, CommandRows, OpenStates

\* A lease is released to 0 and to nothing else.
LEMMA ReleasedType ==
  ASSUME TypeOK, NEW s
  PROVE  Released(s) \in [Nodes -> [Ips -> Sids \cup {0}]]
  BY DEF TypeOK, Released

\* Applying a command for a session of the table keeps the kernel's type.
LEMMA ApplyType ==
  ASSUME TypeOK, NEW n \in Nodes, NEW c \in Cids, Apply(n, c)
  PROVE  /\ peer' \in [Nodes -> [Devices -> Sids \cup {0}]]
         /\ route' \in [Nodes -> [Ips -> Devices \cup {None}]]
<1> DEFINE s == command[c].sid
<1>1. s \in Sids
  BY RowOfCommand
<1>2. session[s].dev \in Devices \cup {None}
  BY <1>1 DEF TypeOK, SessionRows
<1>3. CASE AddPeer(n, s)
  BY <1>1, <1>2, <1>3 DEF TypeOK, AddPeer
<1>4. CASE RemovePeers(n, {session[s].dev})
  BY <1>4 DEF TypeOK, RemovePeers
<1> QED
  BY <1>3, <1>4 DEF Apply

\* closeSessionsInTransaction adds commands at the end of the queue, a removal
\* for each session it closes among them, and leaves the old ones what they
\* were, but for a status.
LEMMA CloseInTransactionKeeps ==
  ASSUME TypeOK, NEW S \in SUBSET Sids, CloseInTransaction(S)
  PROVE  /\ command' \in Seq(CommandRows)
         /\ Len(command') >= Len(command)
         /\ \A b \in Cids : /\ command'[b].type = command[b].type
                            /\ command'[b].sid = command[b].sid
         /\ \A c \in Cids' \ Cids : command'[c].sid \in S
         /\ \A s \in S : \E c \in Cids' : /\ command'[c].type = "REMOVE_PEER"
                                          /\ command'[c].sid = s
<1> DEFINE old == [c \in Cids |->
             IF /\ command[c].sid \in S
                /\ command[c].type = "ADD_PEER"
                /\ command[c].status = "PENDING"
             THEN [command[c] EXCEPT !.status = "FAILED"] ELSE command[c]]
           k == Cardinality(S)
<1>1. k \in Nat
  <2>1. IsFiniteSet(Sids)
    BY ConstantsAssumption, FS_Interval DEF Sids
  <2> QED
    BY <2>1, FS_Subset, FS_CardinalityType
<1>2. PICK order \in [1 .. k -> S] :
        /\ \A s \in S : \E j \in 1 .. k : order[j] = s
        /\ command' = old \o [j \in 1 .. k |-> NewCommand("REMOVE_PEER", order[j])]
  BY DEF CloseInTransaction
<1> DEFINE new == [j \in 1 .. k |-> NewCommand("REMOVE_PEER", order[j])]
<1>3. command \in Seq(CommandRows) /\ Cids = 1 .. Len(command)
  BY DEF TypeOK, Cids
<1>4. /\ old \in Seq(CommandRows) /\ Len(old) = Len(command)
      /\ \A b \in Cids : old[b].type = command[b].type /\ old[b].sid = command[b].sid
  <2>1. ASSUME NEW b \in Cids
        PROVE  /\ old[b] \in CommandRows
               /\ old[b].type = command[b].type
               /\ old[b].sid = command[b].sid
    <3>1. command[b] \in CommandRows
      BY <1>3
    <3> QED
      BY <3>1 DEF CommandRows
  <2>2. old \in [1 .. Len(command) -> CommandRows] /\ Len(command) \in Nat
    BY <1>3, <2>1
  <2> HIDE DEF old
  <2> QED
    BY <1>3, <2>1, <2>2
<1>5. new \in Seq(CommandRows) /\ Len(new) = k
  <2>1. new \in [1 .. k -> CommandRows]
    BY NewCommandType
  <2> HIDE DEF new
  <2> QED
    BY <1>1, <2>1
<1>6. /\ command' = old \o new
      /\ Cids' = 1 .. Len(command) + k
  <2> HIDE DEF old, new
  <2> QED
    BY <1>1, <1>2, <1>4, <1>5 DEF Cids, new
<1>7. \A j \in 1 .. k : new[j] = NewCommand("REMOVE_PEER", order[j])
  OBVIOUS
<1> HIDE DEF old, new
<1>8. command' \in Seq(CommandRows) /\ Len(command') = Len(command) + k
  BY <1>1, <1>3, <1>4, <1>5, <1>6
<1>9. \A b \in Cids : command'[b] = old[b]
  BY <1>3, <1>4, <1>5, <1>6
<1>10. \A j \in 1 .. k : command'[Len(command) + j] = new[j]
  BY <1>1, <1>3, <1>4, <1>5, <1>6
<1>11. ASSUME NEW c \in Cids' \ Cids PROVE command'[c].sid \in S
  <2>1. c - Len(command) \in 1 .. k /\ c = Len(command) + (c - Len(command))
    BY <1>1, <1>3, <1>6
  <2>2. PICK j \in 1 .. k : c = Len(command) + j
    BY <2>1
  <2>3. command'[c] = NewCommand("REMOVE_PEER", order[j])
    BY <1>7, <1>10, <2>2
  <2>4. order[j] \in S
    OBVIOUS
  <2>5. NewCommand("REMOVE_PEER", order[j]).sid = order[j]
    BY DEF NewCommand
  <2> QED
    BY <2>3, <2>4, <2>5
<1>12. ASSUME NEW s \in S
       PROVE  \E c \in Cids' : command'[c].type = "REMOVE_PEER" /\ command'[c].sid = s
  <2>1. PICK j \in 1 .. k : order[j] = s
    BY <1>2
  <2>2. Len(command) + j \in Cids'
    BY <1>1, <1>3, <1>6
  <2>3. command'[Len(command) + j] = NewCommand("REMOVE_PEER", s)
    BY <1>7, <1>10, <2>1
  <2> QED
    BY <2>2, <2>3 DEF NewCommand
<1> QED
  BY <1>1, <1>3, <1>4, <1>8, <1>9, <1>11, <1>12

\* The count of events stays a natural number.
LEMMA HappensType ==
  ASSUME TypeOK, NEW kind, Happens(kind)
  PROVE  events' \in Nat
  BY DEF TypeOK, Happens

\* A heartbeat changes no command but in its status and its deliveries.
LEMMA HeartbeatKeeps ==
  ASSUME TypeOK, NEW n \in Nodes, ServeHeartbeat(n)
  PROVE  /\ command' \in Seq(CommandRows)
         /\ Cids' = Cids
         /\ \A c \in Cids : /\ command'[c].type = command[c].type
                            /\ command'[c].sid = command[c].sid
<1>1. command' = [c \in Cids |->
         IF c \in Stale(n) THEN [command[c] EXCEPT !.status = "FAILED"]
         ELSE IF c \in Claimed(n)
              THEN [command[c] EXCEPT !.status = "DELIVERED", !.tries = @ + 1]
              ELSE command[c]]
  BY DEF ServeHeartbeat
<1>2. ASSUME NEW c \in Cids
      PROVE  /\ command'[c] \in CommandRows
             /\ command'[c].type = command[c].type
             /\ command'[c].sid = command[c].sid
  <2>1. command[c] \in CommandRows
    BY RowOfCommand
  <2>2. \/ command'[c] = command[c]
        \/ command'[c] = [command[c] EXCEPT !.status = "FAILED"]
        \/ command'[c] = [command[c] EXCEPT !.status = "DELIVERED", !.tries = @ + 1]
    BY <1>1
  <2>3. CASE command'[c] = [command[c] EXCEPT !.status = "DELIVERED", !.tries = @ + 1]
    <3>1. command[c].tries + 1 \in Nat
      BY <2>1 DEF CommandRows
    <3> QED
      BY <2>1, <2>3, <3>1 DEF CommandRows, OpenStates
  <2> QED
    BY <2>1, <2>2, <2>3 DEF CommandRows, OpenStates
<1>3. Cids = 1 .. Len(command) /\ Len(command) \in Nat
  BY DEF TypeOK, Cids
<1>4. command' \in [1 .. Len(command) -> CommandRows]
  BY <1>1, <1>2, <1>3
<1>5. command' \in Seq(CommandRows) /\ Cids' = Cids
  BY <1>3, <1>4 DEF Cids
<1> QED
  BY <1>2, <1>5

\* The whole ack handler keeps its tables well-formed.
LEMMA ServeAckType ==
  ASSUME TypeOK, NEW c \in Cids, NEW ok \in BOOLEAN, ServeAck(c, ok)
  PROVE  /\ command' \in Seq(CommandRows)
         /\ Cids' = Cids
         /\ session' \in [Sids -> SessionRows]
         /\ lease' \in [Nodes -> [Ips -> Sids \cup {0}]]
<1> DEFINE s == command[c].sid
<1>1. command' \in Seq(CommandRows) /\ Len(command') = Len(command)
  BY CompletedKeeps DEF ServeAck
<1>2. Cids' = Cids
  BY <1>1 DEF TypeOK, Cids
<1>3. session' \in [Sids -> SessionRows]
  <2>1. ASSUME NEW st \in {"ACTIVE", "FAILED"}
        PROVE  [session EXCEPT ![s].status = st] \in [Sids -> SessionRows]
    <3>1. s \in Sids /\ session \in [Sids -> SessionRows]
      BY RowOfCommand DEF TypeOK
    <3>2. session[s] \in SessionRows
      BY <3>1
    <3>3. [session[s] EXCEPT !.status = st] \in SessionRows
      BY <3>2 DEF SessionRows, LiveStates, Terminal
    <3> HIDE DEF s
    <3> QED
      BY <3>1, <3>3
  <2>2. \/ session' = session
        \/ session' = [session EXCEPT ![s].status = "ACTIVE"]
        \/ session' = [session EXCEPT ![s].status = "FAILED"]
    BY DEF ServeAck, AckEffect
  <2> QED
    BY <2>1, <2>2 DEF TypeOK
<1>4. lease' \in [Nodes -> [Ips -> Sids \cup {0}]]
  <2>1. lease' = lease \/ lease' = Released(s)
    BY DEF ServeAck, AckEffect
  <2> QED
    BY <2>1, ReleasedType DEF TypeOK
<1> QED
  BY <1>1, <1>2, <1>3, <1>4

-----------------------------------------------------------------------------
(***************************************************************************)
(* Types.  TypeOK is inductive together with two facts about the program   *)
(* counters: a request has in hand what its next steps work on, and an     *)
(* agent that is to carry out or acknowledge a command has one.            *)
(***************************************************************************)
Busy ==
    /\ \A r \in Requests :
         /\ job[r].pc \in {"enqueue", "commit"} => job[r].sid \in Sids
         /\ job[r].then = "create" => job[r].dev \in Devices /\ job[r].node \in Nodes
         /\ job[r].then = "disable" => job[r].node \in Nodes
    /\ \A n \in Nodes : agent[n].pc \in {"run", "ack"} => agent[n].batch # {}

\* Types, with what an unfinished request or a busy agent has at hand.
TypeInv == TypeOK /\ Busy

\* The initial state is well-formed.
LEMMA TypeInit == Init => TypeInv
<1> SUFFICES ASSUME Init PROVE TypeInv
  OBVIOUS
<1> USE ConstantsAssumption DEF Init
<1>1. session \in [Sids -> SessionRows]
  BY DEF SessionRows, NoSession
<1>2. command \in Seq(CommandRows)
  OBVIOUS
<1>3. job \in [Requests -> Jobs]
  BY DEF Jobs, Idle
<1>4. agent \in [Nodes -> Agents]
  BY DEF Agents, Resting
<1>5. TypeOK
  BY <1>1, <1>2, <1>3, <1>4 DEF TypeOK
<1>6. Busy
  BY DEF Busy, Idle, Resting
<1> QED
  BY <1>5, <1>6 DEF TypeInv

\* Appending to the queue keeps the identities of its commands.
LEMMA CidsStay ==
  ASSUME TypeOK, command' \in Seq(CommandRows), Len(command') >= Len(command)
  PROVE  Cids \subseteq Cids'
<1>1. command \in Seq(CommandRows)
  BY DEF TypeOK
<1> QED
  BY <1>1 DEF Cids

\* References into the queue stay valid as the queue grows.
LEMMA CidsGrow ==
  ASSUME TypeOK, Cids \subseteq Cids'
  PROVE  /\ late \subseteq [cid : Cids', ok : BOOLEAN]
         /\ agent \in [Nodes -> Agents']
  BY DEF TypeOK, Agents

\* A request begins with a list of sessions and what it came for.
LEMMA StartType ==
  ASSUME TypeInv, NEW r \in Requests, NEW todo \in SUBSET Sids,
         NEW then \in {"done", "create", "disable"},
         NEW d \in Devices \cup {None}, NEW n \in Nodes \cup {None},
         then = "create" => d \in Devices /\ n \in Nodes,
         then = "disable" => n \in Nodes,
         Start(r, todo, then, d, n), events' \in Nat
  PROVE  TypeInv'
<1> USE DEF Start, serverVars, kernelVars
<1>1. job' \in [Requests -> Jobs]
  BY DEF TypeInv, TypeOK, Jobs
<1>2. TypeOK'
  BY <1>1 DEF TypeInv, TypeOK, Cids, Agents
<1>3. Busy'
  BY DEF TypeInv, TypeOK, Busy
<1> QED
  BY <1>2, <1>3 DEF TypeInv

\* Live sessions are rows of the table.
LEMMA LiveIsSids == Live \subseteq Sids
  BY DEF Live

\* Requests begin well-formed.
LEMMA TypeBegin ==
  ASSUME TypeInv, NEW r \in Callers,
         BeginClose(r) \/ BeginConnect(r) \/ BeginDisable(r) \/ BeginReclaim(r)
  PROVE  TypeInv'
<1> USE LiveIsSids
<1>0. r \in Requests
  BY DEF Requests
<1>1. CASE BeginClose(r)
  <2>1. PICK s \in Live : Start(r, {s}, "done", None, None)
    BY <1>1 DEF BeginClose
  <2> QED
    BY <1>0, <1>1, <2>1, StartType DEF BeginClose, TypeInv, TypeOK
<1>2. CASE BeginConnect(r)
  <2>1. PICK d \in active, n \in Nodes : Start(r, LiveOfDevice(d), "create", d, n)
    BY <1>2 DEF BeginConnect
  <2> QED
    BY <1>0, <1>2, <2>1, StartType DEF BeginConnect, TypeInv, TypeOK, LiveOfDevice
<1>3. CASE BeginDisable(r)
  <2>1. PICK n \in Nodes : Start(r, LiveOnNode(n), "disable", None, n)
    BY <1>3 DEF BeginDisable
  <2>2. events' \in Nat
    BY <1>3 DEF BeginDisable, Happens, TypeInv, TypeOK
  <2> QED
    BY <1>0, <2>1, <2>2, StartType DEF LiveOnNode
<1>4. CASE BeginReclaim(r)
  <2> USE DEF TypeInv, serverVars, kernelVars
  <2>1. job \in [Requests -> Jobs] /\ job[r] \in Jobs
    BY <1>0 DEF TypeOK
  <2>2. PICK s \in Sids : job' = [job EXCEPT ![r] = ReclaimOf(s)]
    BY <1>4 DEF BeginReclaim
  <2>3. job' \in [Requests -> Jobs]
    BY <1>0, <2>1, <2>2 DEF Jobs, Idle, ReclaimOf
  <2>4. events' \in Nat
    BY <1>4 DEF BeginReclaim, Happens, TypeOK
  <2>5. Busy'
    BY <1>0, <1>4, <2>1, <2>2 DEF BeginReclaim, Busy, Jobs, Idle, ReclaimOf
  <2> QED
    BY <1>4, <2>3, <2>4, <2>5 DEF BeginReclaim, TypeOK, Cids, Agents
<1> QED
  BY <1>1, <1>2, <1>3, <1>4

\* Every step of a request keeps the state well-formed.
LEMMA TypeRequest ==
  ASSUME TypeInv, NEW r \in Requests,
         \/ CloseSteps(r) \/ ConnectSteps(r) \/ FinishDisable(r)
         \/ FinishReclaim(r) \/ RequestDies(r)
  PROVE  TypeInv'
<1> USE DEF TypeInv, serverVars, kernelVars
<1>0. job \in [Requests -> Jobs] /\ job[r] \in Jobs
  BY DEF TypeOK
<1>1. CASE CloseCheck(r)
  <2> DEFINE s == Least(job[r].todo)
  <2>1. s \in job[r].todo /\ s \in Sids
    BY <1>0, <1>1, LeastIsMember DEF CloseCheck, Jobs, Sids
  <2>2. job' \in [Requests -> Jobs]
    BY <1>0, <1>1, <2>1, ZenonT(30) DEF CloseCheck, Jobs
  <2>3. job'[r].pc \in {"enqueue", "commit"} => job'[r].sid \in Sids
    BY <1>0, <1>1, <2>1 DEF CloseCheck, Jobs
  <2> QED
    BY <1>1, <2>2, <2>3 DEF CloseCheck, TypeOK, Busy, Cids, Agents
<1>2. CASE CloseEnqueue(r)
  <2>1. job[r].sid \in Sids
    BY <1>2 DEF CloseEnqueue, Busy
  <2>2. command' \in Seq(CommandRows) /\ Len(command') = Len(command) + 1
    BY <1>2, <2>1, NewCommandType DEF CloseEnqueue, TypeOK
  <2>3. Cids \subseteq Cids'
    BY <2>2, CidsStay DEF TypeOK
  <2>4. job' \in [Requests -> Jobs]
    BY <1>0, <1>2 DEF CloseEnqueue, Jobs
  <2>5. TypeOK'
    BY <1>2, <2>2, <2>3, <2>4, CidsGrow DEF CloseEnqueue, TypeOK
  <2>6. Busy'
    BY <1>0, <1>2, <2>1 DEF CloseEnqueue, Busy, Jobs
  <2> QED
    BY <2>5, <2>6
<1>3. CASE CloseCommit(r)
  <2>1. session' \in [Sids -> SessionRows]
    <3>1. session \in [Sids -> SessionRows]
      BY DEF TypeOK
    <3>2. session' = [session EXCEPT ![job[r].sid].status = "CLOSED"]
      BY <1>3 DEF CloseCommit
    <3> QED
      BY <3>1, <3>2 DEF SessionRows, Terminal
  <2>2. job' \in [Requests -> Jobs]
    BY <1>0, <1>3 DEF CloseCommit, Jobs
  <2>3. Busy'
    BY <1>0, <1>3 DEF CloseCommit, Busy, Jobs
  <2> QED
    BY <1>3, <2>1, <2>2, <2>3 DEF CloseCommit, TypeOK, Cids, Agents
<1>4. ASSUME NEW then, AtEnd(r, then), agent' = agent
      PROVE  job' \in [Requests -> Jobs] /\ Busy'
  <2>1. \A q \in Requests : job'[q] = job[q] \/ job'[q] = Idle
    BY <1>0, <1>4 DEF AtEnd
  <2>2. Idle \in Jobs
    BY DEF Idle, Jobs
  <2>3. job' \in [Requests -> Jobs]
    BY <1>0, <1>4, <2>2 DEF AtEnd
  <2> QED
    BY <1>4, <2>1, <2>3 DEF Idle, Busy
<1>5. CASE FinishClose(r)
  BY <1>4, <1>5 DEF FinishClose, TypeOK, Cids, Agents
<1>6. CASE FinishDisable(r)
  <2>1. job[r].node \in Nodes
    BY <1>6 DEF FinishDisable, AtEnd, Busy
  <2> QED
    BY <1>4, <1>6, <2>1 DEF FinishDisable, TypeOK, Cids, Agents
<1>7. CASE CreateSession(r)
  <2> DEFINE d == job[r].dev
             n == job[r].node
             s == Least(Unused)
             ip == Least({i \in Ips : lease[n][i] = 0})
  <2>1. s \in Sids
    BY <1>7, LeastIsMember, SMTT(30) DEF CreateSession, Unused, Sids
  <2>2. ip \in Ips
    <3>1. {i \in Ips : lease[n][i] = 0} # {}
      BY <1>7 DEF CreateSession, MayCreate
    <3>2. {i \in Ips : lease[n][i] = 0} \in SUBSET Nat
      BY ConstantsAssumption
    <3> QED
      BY <3>1, <3>2, LeastIsMember
  <2>3. [status |-> "PENDING", dev |-> d, node |-> n, ip |-> ip] \in SessionRows
    BY <1>0, <2>2 DEF Jobs, SessionRows, LiveStates
  <2>4. session' \in [Sids -> SessionRows]
    BY <1>7, <2>1, <2>3 DEF CreateSession, TypeOK
  <2>5. lease' \in [Nodes -> [Ips -> Sids \cup {0}]]
    BY <1>7, <2>1, <2>2 DEF CreateSession, TypeOK
  <2>6. command' \in Seq(CommandRows) /\ Len(command') = Len(command) + 1
    BY <1>7, <2>1, NewCommandType DEF CreateSession, TypeOK
  <2>7. Cids \subseteq Cids'
    BY <2>6, CidsStay DEF TypeOK
  <2>8. AtEnd(r, "create")
    BY <1>7 DEF CreateSession
  <2>9. TypeOK'
    BY <1>4, <1>7, <2>4, <2>5, <2>6, <2>7, <2>8, CidsGrow DEF CreateSession, TypeOK
  <2> QED
    BY <1>4, <1>7, <2>8, <2>9 DEF CreateSession
<1>8. CASE RefuseSession(r)
  BY <1>4, <1>8 DEF RefuseSession, TypeOK, Cids, Agents
<1>9. CASE RequestDies(r)
  <2>1. job' \in [Requests -> Jobs] /\ agent' \in [Nodes -> Agents]
    BY <1>9 DEF RequestDies, TypeOK, Jobs, Idle, Agents, Resting
  <2>2. Busy'
    BY <1>9 DEF RequestDies, TypeOK, Busy, Idle, Resting
  <2>3. events' \in Nat
    BY <1>9 DEF RequestDies, Happens, TypeOK
  <2> QED
    BY <1>9, <2>1, <2>2, <2>3 DEF RequestDies, TypeOK, Cids, Agents
<1>10. CASE FinishReclaim(r)
  <2>1. job' \in [Requests -> Jobs]
    BY <1>10 DEF FinishReclaim, TypeOK, Jobs, Idle
  <2>2. lease' \in [Nodes -> [Ips -> Sids \cup {0}]]
    BY <1>10 DEF FinishReclaim, TypeOK
  <2>3. Busy'
    BY <1>10 DEF FinishReclaim, TypeOK, Busy, Idle
  <2> QED
    BY <1>10, <2>1, <2>2, <2>3 DEF FinishReclaim, TypeOK, Cids, Agents
<1> QED
  BY <1>1, <1>2, <1>3, <1>5, <1>6, <1>7, <1>8, <1>9, <1>10
     DEF CloseSteps, ConnectSteps

\* Revocation, maintenance and enabling a node keep the state well-formed.
LEMMA TypeAdmin ==
  ASSUME TypeInv,
         \/ \E d \in Devices : RevokeDevice(d)
         \/ \E N \in {Nodes} \cup {{n} : n \in Nodes} :
               EnterMaintenance(N) \/ LeaveMaintenance(N)
         \/ \E n \in Nodes : EnableNode(n)
  PROVE  TypeInv'
<1> USE DEF TypeInv, serverVars, kernelVars
<1>1. ASSUME NEW S \in SUBSET Live, CloseInTransaction(S),
             active' \subseteq Devices, maintenance' \subseteq Nodes,
             UNCHANGED disabled, events' \in Nat
      PROVE  TypeInv'
  <2>1. S \in SUBSET Sids
    BY <1>1, LiveIsSids
  <2>2. command' \in Seq(CommandRows) /\ Cids \subseteq Cids'
    BY <1>1, <2>1, CloseInTransactionKeeps, CidsStay
  <2>3. session' \in [Sids -> SessionRows]
    <3>1. session' = [s \in Sids |-> IF s \in S
                        THEN [session[s] EXCEPT !.status = "CLOSED"] ELSE session[s]]
      BY <1>1 DEF CloseInTransaction
    <3>2. ASSUME NEW s \in Sids PROVE session'[s] \in SessionRows
      <4>1. session[s] \in SessionRows
        BY DEF TypeOK
      <4> QED
        BY <3>1, <4>1 DEF SessionRows, Terminal
    <3> QED
      BY <3>1, <3>2
  <2>4. TypeOK'
    BY <1>1, <2>2, <2>3, CidsGrow DEF CloseInTransaction, TypeOK
  <2>5. Busy'
    BY <1>1 DEF CloseInTransaction, Busy
  <2> QED
    BY <2>4, <2>5
<1>2. ASSUME NEW d \in Devices, RevokeDevice(d) PROVE TypeInv'
  BY <1>1, <1>2 DEF RevokeDevice, LiveOfDevice, Happens, TypeOK
<1>3. ASSUME NEW N \in {Nodes} \cup {{n} : n \in Nodes}, EnterMaintenance(N)
      PROVE  TypeInv'
  BY <1>1, <1>3 DEF EnterMaintenance, Happens, TypeOK
<1>4. ASSUME NEW N \in {Nodes} \cup {{n} : n \in Nodes}, LeaveMaintenance(N)
      PROVE  TypeInv'
  BY <1>4 DEF LeaveMaintenance, TypeOK, Busy, Cids, Agents
<1>5. ASSUME NEW n \in Nodes, EnableNode(n) PROVE TypeInv'
  BY <1>5 DEF EnableNode, TypeOK, Busy, Cids, Agents
<1> QED
  BY <1>2, <1>3, <1>4, <1>5

\* The monitor's retries and late acks keep the state well-formed.
LEMMA TypeMonitor ==
  ASSUME TypeInv,
         \/ \E c \in Cids : RequeueStale(c)
         \/ \E s \in Sids : ReclaimLease(s)
         \/ LateAck
  PROVE  TypeInv'
<1> USE DEF TypeInv, serverVars, kernelVars
<1>1. ASSUME NEW c \in Cids, RequeueStale(c) PROVE TypeInv'
  <2>1. command \in Seq(CommandRows) /\ command[c] \in CommandRows
    BY RowOfCommand DEF TypeOK
  <2>2. command' \in Seq(CommandRows) /\ Cids' = Cids
    BY <1>1, <2>1, SMTT(30) DEF RequeueStale, CommandRows, OpenStates, Cids
  <2> QED
    BY <1>1, <2>2 DEF RequeueStale, TypeOK, Busy, Agents
<1>2. ASSUME NEW s \in Sids, ReclaimLease(s) PROVE TypeInv'
  <2>1. lease' \in [Nodes -> [Ips -> Sids \cup {0}]]
    BY <1>2, ReleasedType DEF ReclaimLease
  <2>2. events' \in Nat
    BY <1>2 DEF ReclaimLease, Happens, TypeOK
  <2> QED
    BY <1>2, <2>1, <2>2 DEF ReclaimLease, TypeOK, Busy, Cids, Agents
<1>3. CASE LateAck
  <2>1. PICK m \in late : /\ late' = late \ {m}
                          /\ ServeAck(m.cid, m.ok)
                          /\ UNCHANGED <<agent, events>>
    BY <1>3 DEF LateAck
  <2>2. m.cid \in Cids /\ m.ok \in BOOLEAN
    BY DEF TypeOK
  <2>3. /\ command' \in Seq(CommandRows)
        /\ Cids' = Cids
        /\ session' \in [Sids -> SessionRows]
        /\ lease' \in [Nodes -> [Ips -> Sids \cup {0}]]
    BY <2>1, <2>2, ServeAckType
  <2> QED
    BY <2>1, <2>3 DEF ServeAck, TypeOK, Busy, Agents
<1> QED
  BY <1>1, <1>2, <1>3

\* The command an agent carries out or acknowledges is one of the queue's.
LEMMA BatchHead ==
  ASSUME TypeInv, NEW n \in Nodes, agent[n].pc \in {"run", "ack"}
  PROVE  /\ Least(agent[n].batch) \in Cids
         /\ Least(agent[n].batch) \in agent[n].batch
         /\ agent[n].ok \in BOOLEAN
<1>1. agent[n] \in Agents
  BY DEF TypeInv, TypeOK
<1>2. agent[n].batch \subseteq Cids /\ agent[n].batch # {} /\ Cids \subseteq Nat
  BY <1>1, RowOfCommand DEF TypeInv, Busy, Agents
<1> QED
  BY <1>1, <1>2, LeastIsMember DEF Agents

\* Every step of an agent, and of the handlers it calls, keeps the state
\* well-formed.
LEMMA TypeAgent ==
  ASSUME TypeInv, NEW n \in Nodes, Agent(n)
  PROVE  TypeInv'
<1> USE DEF TypeInv, serverVars, kernelVars
<1>0. /\ agent \in [Nodes -> Agents] /\ agent[n] \in Agents
      /\ job \in [Requests -> Jobs] /\ n \in Requests
  BY DEF TypeOK, Requests
<1>1. CASE HeartbeatAuth(n)
  <2>1. agent' \in [Nodes -> Agents] /\ Cids' = Cids
    BY <1>0, <1>1 DEF HeartbeatAuth, Agents, Cids
  <2> QED
    BY <1>0, <1>1, <2>1 DEF HeartbeatAuth, TypeOK, Busy, Agents
<1>2. ASSUME ServeHeartbeat(n),
             agent' \in [Nodes -> Agents], UNCHANGED events \/ Happens("reply_lost")
      PROVE  TypeOK'
  <2>1. command' \in Seq(CommandRows) /\ Cids' = Cids
    BY <1>2, HeartbeatKeeps
  <2>2. disabled' \subseteq Nodes /\ events' \in Nat
    BY <1>2, HappensType DEF ServeHeartbeat, TypeOK
  <2> QED
    BY <1>2, <2>1, <2>2 DEF ServeHeartbeat, TypeOK, Agents
<1>3. Claimed(n) \subseteq Cids
  BY DEF Claimed, Deliverable
<1>4. CASE Heartbeat(n)
  <2>1. agent' \in [Nodes -> Agents]
    BY <1>0, <1>3, <1>4 DEF Heartbeat, Agents
  <2>2. Busy'
    BY <1>0, <1>4 DEF Heartbeat, ServeHeartbeat, Busy, Agents
  <2> QED
    BY <1>2, <1>4, <2>1, <2>2 DEF Heartbeat
<1>5. Resting \in Agents
  BY DEF Resting, Agents
<1>6. ASSUME agent' = [agent EXCEPT ![n] = Resting], UNCHANGED <<job, command>>
      PROVE  agent' \in [Nodes -> Agents'] /\ Busy'
  <2>1. agent' \in [Nodes -> Agents] /\ Agents' = Agents
    BY <1>0, <1>5, <1>6 DEF Agents, Cids
  <2> QED
    BY <1>6, <2>1 DEF Busy, Resting, TypeOK
<1>7. CASE HeartbeatReplyLost(n)
  <2>1. agent' \in [Nodes -> Agents]
    BY <1>0, <1>5, <1>7 DEF HeartbeatReplyLost
  <2>2. Busy'
    BY <1>0, <1>7 DEF HeartbeatReplyLost, ServeHeartbeat, Busy, Resting
  <2> QED
    BY <1>2, <1>7, <2>1, <2>2 DEF HeartbeatReplyLost
<1>8. ASSUME agent[n].pc \in {"run", "ack"}
      PROVE  Least(agent[n].batch) \in Cids /\ Least(agent[n].batch) \in agent[n].batch
  BY <1>8, BatchHead
<1>9. ASSUME agent[n].pc = "run", NEW ok \in BOOLEAN,
             agent' = [agent EXCEPT ![n].pc = "ack", ![n].ok = ok]
      PROVE  agent' \in [Nodes -> Agents]
  BY <1>0, <1>9 DEF Agents
<1>10. CASE Execute(n)
  <2>1. agent' \in [Nodes -> Agents] /\ Cids' = Cids
    BY <1>9, <1>10 DEF Execute, Cids
  <2>2. Busy'
    BY <1>0, <1>10 DEF Execute, Busy, Agents
  <2> QED
    BY <1>8, <1>10, <2>1, <2>2, ApplyType DEF Execute, TypeOK, Agents
<1>11. CASE ExecuteFails(n)
  <2>1. agent' \in [Nodes -> Agents] /\ Cids' = Cids
    BY <1>9, <1>11 DEF ExecuteFails, Cids
  <2>2. Busy'
    BY <1>0, <1>11 DEF ExecuteFails, Busy, Agents
  <2>3. events' \in Nat
    BY <1>11, HappensType DEF ExecuteFails
  <2>4. /\ peer' \in [Nodes -> [Devices -> Sids \cup {0}]]
        /\ route' \in [Nodes -> [Ips -> Devices \cup {None}]]
    BY <1>8, <1>11, ApplyType DEF ExecuteFails, TypeOK
  <2> QED
    BY <1>11, <2>1, <2>2, <2>3, <2>4 DEF ExecuteFails, TypeOK, Agents
<1>12. ASSUME NextCommand(n), UNCHANGED job
       PROVE  agent' \in [Nodes -> Agents] /\ Busy'
  <2>1. agent' \in [Nodes -> Agents]
    BY <1>0, <1>12 DEF NextCommand, Agents
  <2>2. Busy'
    BY <1>0, <1>12 DEF NextCommand, Busy, Agents
  <2> QED
    BY <2>1, <2>2
<1>13. CASE Ack(n)
  <2>1. /\ command' \in Seq(CommandRows)
        /\ Cids' = Cids
        /\ session' \in [Sids -> SessionRows]
        /\ lease' \in [Nodes -> [Ips -> Sids \cup {0}]]
    BY <1>0, <1>8, <1>13, ServeAckType DEF Ack, Agents
  <2> QED
    BY <1>12, <1>13, <2>1 DEF Ack, ServeAck, TypeOK, Agents
<1>14. CASE AckFails(n)
  <2>1. events' \in Nat
    BY <1>14, HappensType DEF AckFails, TypeOK
  <2> QED
    BY <1>12, <1>14, <2>1 DEF AckFails, TypeOK, Cids, Agents
<1>15. CASE AckTimesOut(n)
  <2>1. events' \in Nat
    BY <1>15, HappensType DEF AckTimesOut
  <2>2. late' \subseteq [cid : Cids, ok : BOOLEAN]
    BY <1>0, <1>8, <1>15 DEF AckTimesOut, TypeOK, Agents
  <2> QED
    BY <1>12, <1>15, <2>1, <2>2 DEF AckTimesOut, TypeOK, Cids, Agents
<1>16. CASE AckInterrupted(n)
  <2>1. events' \in Nat
    BY <1>16, HappensType DEF AckInterrupted
  <2>2. command' \in Seq(CommandRows) /\ Len(command') = Len(command)
    BY <1>0, <1>8, <1>16, CompletedKeeps DEF AckInterrupted, Agents
  <2>3. Cids' = Cids
    BY <2>2 DEF TypeOK, Cids
  <2> QED
    BY <1>12, <1>16, <2>1, <2>2, <2>3 DEF AckInterrupted, TypeOK, Agents
<1>17. CASE EndTick(n)
  BY <1>6, <1>17 DEF EndTick, TypeOK, Cids
<1>18. CASE DumpPeers(n)
  <2>1. agent' \in [Nodes -> Agents]
    BY <1>0, <1>18 DEF DumpPeers, Agents
  <2>2. Busy'
    BY <1>0, <1>18 DEF DumpPeers, Busy, Agents
  <2> QED
    BY <1>18, <2>1, <2>2 DEF DumpPeers, TypeOK, Cids, Agents
<1>19. ASSUME NEW aged \in BOOLEAN, ServeReport(n, aged) PROVE TypeInv'
  <2>1. Missing(n) \subseteq Sids /\ Unknown(n) \subseteq Devices
    BY <1>0 DEF Missing, LiveOnNode, Live, Unknown, Agents
  <2>2. agent' \in [Nodes -> Agents]
    BY <1>0, <1>19, <2>1 DEF ServeReport, Agents
  <2>3. job' \in [Requests -> Jobs]
    BY <1>0, <1>19, <2>1 DEF ServeReport, Jobs, Idle
  <2>4. Busy'
    BY <1>0, <1>19 DEF ServeReport, Busy, Agents, Idle
  <2> QED
    BY <1>19, <2>2, <2>3, <2>4 DEF ServeReport, TypeOK, Cids, Agents
<1>20. CASE ReportFails(n)
  <2>1. events' \in Nat
    BY <1>20, HappensType DEF ReportFails, TypeOK
  <2> QED
    BY <1>6, <1>20, <2>1 DEF ReportFails, TypeOK, Cids
<1>21. ASSUME NEW D, RemovePeers(n, D)
       PROVE  /\ peer' \in [Nodes -> [Devices -> Sids \cup {0}]]
              /\ route' \in [Nodes -> [Ips -> Devices \cup {None}]]
  BY <1>21 DEF RemovePeers, TypeOK
<1>22. CASE CleanPeers(n)
  BY <1>6, <1>21, <1>22 DEF CleanPeers, TypeOK, Cids
<1>23. CASE AgentRestart(n)
  BY <1>6, <1>23, HappensType DEF AgentRestart, TypeOK, Cids
<1>24. CASE NodeReboot(n)
  BY <1>6, <1>21, <1>24, HappensType DEF NodeReboot, TypeOK, Cids
<1> QED
  BY <1>1, <1>4, <1>7, <1>10, <1>11, <1>13, <1>14, <1>15, <1>16, <1>17, <1>18,
     <1>19, <1>20, <1>22, <1>23, <1>24 DEF Agent

\* The inductive step for types.
LEMMA TypeStep == TypeInv /\ [Next]_vars => TypeInv'
<1> SUFFICES ASSUME TypeInv, [Next]_vars PROVE TypeInv'
  OBVIOUS
<1>1. CASE UNCHANGED vars
  BY <1>1 DEF vars, TypeInv, TypeOK, Busy, Cids, Agents
<1>2. CASE Server
  BY <1>2, TypeBegin, TypeRequest, TypeAdmin, TypeMonitor DEF Server
<1>3. CASE \E n \in Nodes : Agent(n)
  BY <1>3, TypeAgent
<1> QED
  BY <1>1, <1>2, <1>3 DEF Next

\* Every reachable state has its type: no handler writes a row, a job or an
\* agent state out of its domain, whatever the interleaving.
THEOREM TypeCorrect == Spec => []TypeOK
<1>1. TypeInv => TypeOK
  BY DEF TypeInv
<1> QED
  BY <1>1, TypeInit, TypeStep, PTL DEF Spec

-----------------------------------------------------------------------------
(***************************************************************************)
(* What one step can do to the tables: the queue only grows, and a session *)
(* is created, activated or ended.                                         *)
(***************************************************************************)
\* An answer for command c is due or on its way.
Answered(c) ==
    \/ \E n \in Nodes : agent[n].pc = "ack" /\ Least(agent[n].batch) = c
    \/ \E m \in late : m.cid = c
\* And it says that the command was carried out.
Confirmed(c) ==
    \/ \E n \in Nodes : agent[n].pc = "ack" /\ agent[n].ok /\ Least(agent[n].batch) = c
    \/ \E m \in late : m.cid = c /\ m.ok

\* The steps that change the sessions table.
SessionSteps ==
    \/ \E r \in Requests : CreateSession(r) \/ CloseCommit(r)
    \/ \E S \in SUBSET Live : CloseInTransaction(S)
    \/ \E c \in Cids, ok \in BOOLEAN :
          ServeAck(c, ok) /\ Answered(c) /\ (ok => Confirmed(c))

\* No other step touches the sessions table.
LEMMA SessionKept ==
  ASSUME TypeInv, [Next]_vars, ~SessionSteps
  PROVE  session' = session
<1> USE DEF serverVars, kernelVars
<1>1. CASE UNCHANGED vars
  BY <1>1 DEF vars
<1>2. ASSUME NEW r \in Callers,
             \/ BeginClose(r) \/ BeginConnect(r)
             \/ BeginDisable(r) \/ BeginReclaim(r)
      PROVE  session' = session
  BY <1>2 DEF BeginClose, BeginConnect, BeginDisable, BeginReclaim, Start
<1>3. ASSUME NEW r \in Requests,
             \/ CloseSteps(r) \/ ConnectSteps(r) \/ FinishDisable(r)
             \/ FinishReclaim(r) \/ RequestDies(r)
      PROVE  session' = session
  BY <1>3 DEF SessionSteps, CloseSteps, ConnectSteps, CloseCheck, CloseEnqueue,
     FinishClose, RefuseSession, FinishDisable, FinishReclaim,
     RequestDies
<1>4. ASSUME NEW d \in Devices PROVE ~RevokeDevice(d)
  BY DEF RevokeDevice, SessionSteps, LiveOfDevice
<1>5. ASSUME NEW N \in {Nodes} \cup {{n} : n \in Nodes},
             EnterMaintenance(N) \/ LeaveMaintenance(N)
      PROVE  session' = session
  BY <1>5 DEF EnterMaintenance, LeaveMaintenance, SessionSteps
<1>6. CASE \/ \E n \in Nodes : EnableNode(n)
           \/ \E c \in Cids : RequeueStale(c)
           \/ \E s \in Sids : ReclaimLease(s)
  BY <1>6 DEF EnableNode, RequeueStale, ReclaimLease
<1>7. ~LateAck
  <2> SUFFICES ASSUME LateAck PROVE SessionSteps
    OBVIOUS
  <2>1. PICK m \in late : ServeAck(m.cid, m.ok)
    BY DEF LateAck
  <2>2. m.cid \in Cids /\ m.ok \in BOOLEAN
    BY DEF TypeInv, TypeOK
  <2>3. Answered(m.cid) /\ (m.ok => Confirmed(m.cid))
    BY DEF Answered, Confirmed
  <2> QED
    BY <2>1, <2>2, <2>3 DEF SessionSteps
<1>8. ASSUME NEW n \in Nodes, Agent(n) PROVE session' = session
  <2>1. ~Ack(n)
    <3>1. SUFFICES ASSUME Ack(n) PROVE SessionSteps
      OBVIOUS
    <3>2. Least(agent[n].batch) \in Cids /\ agent[n].ok \in BOOLEAN
      BY <3>1, BatchHead DEF Ack
    <3>3. /\ Answered(Least(agent[n].batch))
          /\ agent[n].ok => Confirmed(Least(agent[n].batch))
      BY <3>1 DEF Ack, Answered, Confirmed
    <3> QED
      BY <3>1, <3>2, <3>3 DEF Ack, SessionSteps
  <2> QED
    BY <1>8, <2>1 DEF Agent, HeartbeatAuth, Heartbeat, HeartbeatReplyLost,
       ServeHeartbeat, Execute, ExecuteFails, AckFails, AckTimesOut,
       AckInterrupted, EndTick, DumpPeers, ServeReport, ReportFails, CleanPeers,
       AgentRestart, NodeReboot
<1> QED
  BY <1>1, <1>2, <1>3, <1>4, <1>5, <1>6, <1>7, <1>8 DEF Next, Server

\* A new session takes an unused row.
LEMMA UnusedLeast ==
  ASSUME Unused # {}
  PROVE  Least(Unused) \in Unused /\ Least(Unused) \in Sids
<1>1. Unused \in SUBSET Nat /\ Unused \subseteq Sids
  BY DEF Unused, Sids
<1> QED
  BY <1>1, LeastIsMember

\* A request past closeSession's check has a session that was opened, and once
\* it is to update the row, a REMOVE_PEER for it is in the queue.
InHand ==
    \A r \in Requests :
        /\ job[r].pc \in {"enqueue", "commit"} => session[job[r].sid].status # "NONE"
        /\ job[r].pc = "commit" => Removals(job[r].sid) # {}

\* A row is created once, becomes active once from PENDING, and ends.
LEMMA RowStep ==
  ASSUME TypeInv, InHand, [Next]_vars, NEW s \in Sids
  PROVE  \/ session'[s] = session[s]
         \/ \E r \in Requests : /\ CreateSession(r)
                                /\ session[s].status = "NONE"
                                /\ session'[s].status = "PENDING"
                                /\ session'[s].dev = job[r].dev
                                /\ session'[s].node = job[r].node
         \/ /\ session[s].status = "PENDING"
            /\ session'[s] = [session[s] EXCEPT !.status = "ACTIVE"]
         \/ /\ session[s].status # "NONE"
            /\ \E e \in Terminal : session'[s] = [session[s] EXCEPT !.status = e]
<1>0. session \in [Sids -> SessionRows]
  BY DEF TypeInv, TypeOK
<1>1. ASSUME NEW r \in Requests, CreateSession(r)
      PROVE  \/ session'[s] = session[s]
             \/ /\ session[s].status = "NONE"
                /\ session'[s].status = "PENDING"
                /\ session'[s].dev = job[r].dev
                /\ session'[s].node = job[r].node
  <2>1. Least(Unused) \in Unused
    BY <1>1, UnusedLeast DEF CreateSession
  <2>2. PICK i : session' = [session EXCEPT ![Least(Unused)] =
            [status |-> "PENDING", dev |-> job[r].dev, node |-> job[r].node, ip |-> i]]
    BY <1>1 DEF CreateSession
  <2> QED
    BY <1>0, <2>1, <2>2 DEF Unused
<1>2. ASSUME NEW r \in Requests, CloseCommit(r)
      PROVE  \/ session'[s] = session[s]
             \/ /\ session[s].status # "NONE"
                /\ session'[s] = [session[s] EXCEPT !.status = "CLOSED"]
  <2>1. session[job[r].sid].status # "NONE"
    BY <1>2 DEF CloseCommit, InHand
  <2> QED
    BY <1>0, <1>2, <2>1 DEF CloseCommit
<1>3. ASSUME NEW S \in SUBSET Live, CloseInTransaction(S)
      PROVE  \/ session'[s] = session[s]
             \/ /\ session[s].status # "NONE"
                /\ session'[s] = [session[s] EXCEPT !.status = "CLOSED"]
  <2>1. session' = [t \in Sids |-> IF t \in S
                      THEN [session[t] EXCEPT !.status = "CLOSED"] ELSE session[t]]
    BY <1>3 DEF CloseInTransaction
  <2>2. s \in S => session[s].status # "NONE"
    BY DEF Live, IsLive, LiveStates
  <2> QED
    BY <2>1, <2>2
<1>4. ASSUME NEW c \in Cids, NEW ok \in BOOLEAN, ServeAck(c, ok)
      PROVE  \/ session'[s] = session[s]
             \/ /\ session[s].status = "PENDING"
                /\ \/ session'[s] = [session[s] EXCEPT !.status = "ACTIVE"]
                   \/ session'[s] = [session[s] EXCEPT !.status = "FAILED"]
  <2>1. CASE session' = session
    BY <2>1
  <2>2. CASE session' # session
    <3>1. /\ session[command[c].sid].status = "PENDING"
          /\ \/ session' = [session EXCEPT ![command[c].sid].status = "ACTIVE"]
             \/ session' = [session EXCEPT ![command[c].sid].status = "FAILED"]
      BY <1>4, <2>2 DEF ServeAck, AckEffect
    <3> QED
      BY <1>0, <3>1
  <2> QED
    BY <2>1, <2>2
<1> QED
  BY <1>1, <1>2, <1>3, <1>4, SessionKept DEF SessionSteps, Terminal

\* The steps that change the queue.
QueueSteps ==
    \/ \E r \in Requests : CloseEnqueue(r) \/ CreateSession(r)
    \/ \E S \in SUBSET Live : CloseInTransaction(S)
    \/ \E c \in Cids, ok \in BOOLEAN :
          command' = Completed(c, ok) /\ Answered(c) /\ (ok => Confirmed(c))
    \/ \E n \in Nodes : ServeHeartbeat(n)
    \/ \E c \in Cids : RequeueStale(c)

\* No other step touches the queue.
LEMMA QueueUnchanged ==
  ASSUME TypeInv, [Next]_vars, ~QueueSteps
  PROVE  command' = command
<1> USE DEF serverVars, kernelVars
<1>1. CASE UNCHANGED vars
  BY <1>1 DEF vars
<1>2. ASSUME NEW r \in Callers,
             \/ BeginClose(r) \/ BeginConnect(r)
             \/ BeginDisable(r) \/ BeginReclaim(r)
      PROVE  command' = command
  BY <1>2 DEF BeginClose, BeginConnect, BeginDisable, BeginReclaim, Start
<1>3. ASSUME NEW r \in Requests,
             \/ CloseSteps(r) \/ ConnectSteps(r) \/ FinishDisable(r)
             \/ FinishReclaim(r) \/ RequestDies(r)
      PROVE  command' = command
  <2>1. ~CloseEnqueue(r) /\ ~CreateSession(r)
    BY DEF QueueSteps
  <2> QED
    BY <1>3, <2>1 DEF CloseSteps, ConnectSteps, CloseCheck, CloseCommit,
       FinishClose, RefuseSession, FinishDisable, FinishReclaim,
     RequestDies
<1>4. ASSUME NEW d \in Devices PROVE ~RevokeDevice(d)
  BY DEF RevokeDevice, QueueSteps, LiveOfDevice
<1>5. ASSUME NEW N \in {Nodes} \cup {{n} : n \in Nodes},
             EnterMaintenance(N) \/ LeaveMaintenance(N)
      PROVE  command' = command
  BY <1>5 DEF EnterMaintenance, LeaveMaintenance, QueueSteps
<1>6. ASSUME NEW n \in Nodes, EnableNode(n) PROVE command' = command
  BY <1>6 DEF EnableNode
<1>7. ASSUME NEW c \in Cids PROVE ~RequeueStale(c)
  BY DEF QueueSteps
<1>8. ASSUME NEW s \in Sids, ReclaimLease(s) PROVE command' = command
  BY <1>8 DEF ReclaimLease
<1>9. ~LateAck
  <2>1. SUFFICES ASSUME LateAck PROVE QueueSteps
    OBVIOUS
  <2>2. PICK m \in late : ServeAck(m.cid, m.ok)
    BY <2>1 DEF LateAck
  <2>3. m.cid \in Cids /\ m.ok \in BOOLEAN
    BY DEF TypeInv, TypeOK
  <2>4. Answered(m.cid) /\ (m.ok => Confirmed(m.cid))
    BY DEF Answered, Confirmed
  <2> QED
    BY <2>2, <2>3, <2>4 DEF ServeAck, QueueSteps
<1>10. ASSUME NEW n \in Nodes, Agent(n) PROVE command' = command
  <2>0. ASSUME agent[n].pc = "ack",
               command' = Completed(Least(agent[n].batch), agent[n].ok)
        PROVE  FALSE
    <3>1. Least(agent[n].batch) \in Cids /\ agent[n].ok \in BOOLEAN
      BY <2>0, BatchHead
    <3>2. /\ Answered(Least(agent[n].batch))
          /\ agent[n].ok => Confirmed(Least(agent[n].batch))
      BY <2>0 DEF Answered, Confirmed
    <3> QED
      BY <2>0, <3>1, <3>2 DEF QueueSteps
  <2>1. ~Ack(n)
    BY <2>0 DEF Ack, ServeAck
  <2>2. ~AckInterrupted(n)
    BY <2>0 DEF AckInterrupted
  <2>3. ~Heartbeat(n) /\ ~HeartbeatReplyLost(n)
    BY DEF Heartbeat, HeartbeatReplyLost, QueueSteps
  <2> QED
    BY <1>10, <2>1, <2>2, <2>3 DEF Agent, HeartbeatAuth, Execute, ExecuteFails,
       AckFails, AckTimesOut, EndTick, DumpPeers, ServeReport, ReportFails,
       CleanPeers, AgentRestart, NodeReboot
<1> QED
  BY <1>1, <1>2, <1>3, <1>4, <1>5, <1>6, <1>7, <1>8, <1>9, <1>10 DEF Next, Server

\* Every command stays in the queue and stays what it was, but for its status.
LEMMA QueueKept ==
  ASSUME TypeInv, [Next]_vars, NEW c \in Cids
  PROVE  /\ c \in Cids'
         /\ command'[c].type = command[c].type
         /\ command'[c].sid = command[c].sid
<1>0. TypeOK /\ command \in Seq(CommandRows)
  BY DEF TypeInv, TypeOK
<1>1. CASE command' = command
  BY <1>1 DEF Cids
<1>2. ASSUME NEW r \in Requests, CloseEnqueue(r) \/ CreateSession(r)
      PROVE  c \in Cids' /\ command'[c] = command[c]
  <2>1. PICK x : command' = Append(command, x)
    BY <1>2 DEF CloseEnqueue, CreateSession
  <2> QED
    BY <1>0, <2>1 DEF Cids
<1>3. ASSUME NEW S \in SUBSET Live, CloseInTransaction(S)
      PROVE  /\ c \in Cids'
             /\ command'[c].type = command[c].type
             /\ command'[c].sid = command[c].sid
  BY <1>0, <1>3, LiveIsSids, CloseInTransactionKeeps, CidsStay
<1>4. ASSUME NEW b \in Cids, NEW ok \in BOOLEAN, command' = Completed(b, ok)
      PROVE  /\ c \in Cids'
             /\ command'[c].type = command[c].type
             /\ command'[c].sid = command[c].sid
  BY <1>0, <1>4, CompletedKeeps DEF Cids
<1>5. ASSUME NEW n \in Nodes, ServeHeartbeat(n)
      PROVE  /\ c \in Cids'
             /\ command'[c].type = command[c].type
             /\ command'[c].sid = command[c].sid
  BY <1>0, <1>5, HeartbeatKeeps
<1>6. ASSUME NEW b \in Cids, RequeueStale(b)
      PROVE  /\ c \in Cids'
             /\ command'[c].type = command[c].type
             /\ command'[c].sid = command[c].sid
  <2>1. PICK st : command' = [command EXCEPT ![b].status = st]
    BY <1>6 DEF RequeueStale
  <2>2. command[b] \in CommandRows /\ command[c] \in CommandRows
    BY <1>0, RowOfCommand
  <2> QED
    BY <1>0, <2>1, <2>2 DEF Cids, CommandRows
<1> QED
  BY <1>1, <1>2, <1>3, <1>4, <1>5, <1>6, QueueUnchanged DEF QueueSteps

\* A removal once queued is never deleted.
LEMMA RemovalsKept ==
  ASSUME TypeInv, [Next]_vars, NEW s, Removals(s) # {}
  PROVE  Removals(s)' # {}
  BY QueueKept DEF Removals

\* What a request has in hand once it is past closeSession's check.
LEMMA HandStep ==
  ASSUME TypeInv, [Next]_vars, NEW r \in Requests,
         job'[r].pc \in {"enqueue", "commit"}
  PROVE  job'[r] = job[r] \/ CloseCheck(r) \/ CloseEnqueue(r)
<1> USE DEF serverVars, kernelVars
<1>0. job \in [Requests -> Jobs]
  BY DEF TypeInv, TypeOK
<1>1. ASSUME UNCHANGED job PROVE job'[r] = job[r]
  BY <1>1
<1>2. ASSUME NEW q \in Requests, NEW x, job' = [job EXCEPT ![q] = x],
             q = r => x.pc \notin {"enqueue", "commit"}
      PROVE  job'[r] = job[r]
  BY <1>0, <1>2
<1>3. CASE UNCHANGED vars
  BY <1>3 DEF vars
<1>4. ASSUME NEW q \in Callers,
             \/ BeginClose(q) \/ BeginConnect(q)
             \/ BeginDisable(q) \/ BeginReclaim(q)
      PROVE  job'[r] = job[r]
  <2>1. q \in Requests
    BY DEF Requests
  <2>2. ASSUME NEW todo, NEW then, NEW d, NEW n, Start(q, todo, then, d, n)
        PROVE  \E x : job' = [job EXCEPT ![q] = x] /\ x.pc \in {"close", "reclaim"}
    <3> DEFINE x == [pc |-> "close", todo |-> todo, sid |-> 0,
                     then |-> then, dev |-> d, node |-> n]
    <3>1. job' = [job EXCEPT ![q] = x] /\ x.pc = "close"
      BY <2>2 DEF Start
    <3> QED
      BY <3>1
  <2>3. ASSUME BeginReclaim(q)
        PROVE  \E x : job' = [job EXCEPT ![q] = x] /\ x.pc \in {"close", "reclaim"}
    <3>1. PICK s : job' = [job EXCEPT ![q] = ReclaimOf(s)]
      BY <2>3 DEF BeginReclaim
    <3>2. ReclaimOf(s).pc = "reclaim"
      BY DEF Idle, ReclaimOf
    <3> QED
      BY <3>1, <3>2
  <2>4. PICK x : job' = [job EXCEPT ![q] = x] /\ x.pc \in {"close", "reclaim"}
    BY <1>4, <2>2, <2>3 DEF BeginClose, BeginConnect, BeginDisable
  <2> QED
    BY <1>2, <2>1, <2>4
<1>5. ASSUME NEW q \in Requests,
             \/ CloseSteps(q) \/ ConnectSteps(q) \/ FinishDisable(q)
             \/ FinishReclaim(q) \/ RequestDies(q)
      PROVE  job'[r] = job[r] \/ CloseCheck(r) \/ CloseEnqueue(r)
  <2>1. CASE CloseCheck(q) \/ CloseEnqueue(q)
    BY <1>0, <2>1 DEF CloseCheck, CloseEnqueue
  <2>2. CASE CloseCommit(q)
    BY <1>0, <2>2 DEF CloseCommit, Jobs
  <2>3. CASE job' = [job EXCEPT ![q] = Idle]
    BY <1>2, <2>3 DEF Idle
  <2> QED
    BY <1>5, <2>1, <2>2, <2>3 DEF CloseSteps, ConnectSteps, FinishClose,
       CreateSession, RefuseSession, FinishDisable, FinishReclaim, AtEnd,
       RequestDies
<1>6. ASSUME NEW d \in Devices, RevokeDevice(d) PROVE UNCHANGED job
  BY <1>6 DEF RevokeDevice, CloseInTransaction
<1>7. ASSUME NEW N \in {Nodes} \cup {{n} : n \in Nodes},
             EnterMaintenance(N) \/ LeaveMaintenance(N)
      PROVE  UNCHANGED job
  BY <1>7 DEF EnterMaintenance, LeaveMaintenance, CloseInTransaction
<1>8. CASE \/ \E n \in Nodes : EnableNode(n)
           \/ \E c \in Cids : RequeueStale(c)
           \/ \E s \in Sids : ReclaimLease(s)
           \/ LateAck
  BY <1>1, <1>8 DEF EnableNode, RequeueStale, ReclaimLease, LateAck, ServeAck
<1>9. ASSUME NEW n \in Nodes, Agent(n) PROVE job'[r] = job[r]
  <2>1. ASSUME NEW aged \in BOOLEAN, ServeReport(n, aged) PROVE job'[r] = job[r]
    <3>1. n \in Requests
      BY DEF Requests
    <3>2. PICK x : job' = [job EXCEPT ![n] = [Idle EXCEPT !.pc = "close", !.todo = x]]
      BY <2>1 DEF ServeReport
    <3>3. [Idle EXCEPT !.pc = "close", !.todo = x].pc = "close"
      BY DEF Idle
    <3> QED
      BY <1>2, <3>1, <3>2, <3>3
  <2>2. CASE ~\E aged \in BOOLEAN : ServeReport(n, aged)
    BY <1>1, <1>9, <2>2 DEF Agent, HeartbeatAuth, Heartbeat, HeartbeatReplyLost,
       ServeHeartbeat, Execute, ExecuteFails, Ack, ServeAck, AckFails,
       AckTimesOut, AckInterrupted, EndTick, DumpPeers, ReportFails, CleanPeers,
       AgentRestart, NodeReboot
  <2> QED
    BY <2>1, <2>2
<1> QED
  BY <1>1, <1>3, <1>4, <1>5, <1>6, <1>7, <1>8, <1>9 DEF Next, Server

\* What requests have in hand stays valid while others run.
LEMMA InHandStep ==
  ASSUME TypeInv, InHand, [Next]_vars
  PROVE  InHand'
<1>0. job \in [Requests -> Jobs]
  BY DEF TypeInv, TypeOK
<1>1. ASSUME NEW s \in Sids, session[s].status # "NONE"
      PROVE  session'[s].status # "NONE"
  <2>1. session[s] \in SessionRows
    BY DEF TypeInv, TypeOK
  <2> QED
    BY <1>1, <2>1, RowStep DEF Terminal, SessionRows
<1>2. ASSUME NEW r \in Requests, job'[r].pc \in {"enqueue", "commit"},
             NEW s, s = job'[r].sid
      PROVE  /\ session'[s].status # "NONE"
             /\ job'[r].pc = "commit" => Removals(s)' # {}
  <2>1. CASE job'[r] = job[r]
    <3>1. s \in Sids /\ session[s].status # "NONE"
      BY <1>2, <2>1 DEF TypeInv, Busy, InHand
    <3>2. job[r].pc = "commit" => Removals(s) # {}
      BY <1>2, <2>1 DEF InHand
    <3> QED
      BY <1>1, <2>1, <3>1, <3>2, RemovalsKept
  <2>2. CASE CloseCheck(r)
    <3>1. Least(job[r].todo) \in Sids
      <4>1. job[r].todo \subseteq Sids /\ job[r].todo # {} /\ Sids \subseteq Nat
        BY <1>0, <2>2 DEF CloseCheck, Jobs, Sids
      <4> QED
        BY <4>1, LeastIsMember
    <3>2. /\ s = Least(job[r].todo)
          /\ IsLive(s)
          /\ job'[r].pc = "commit" => HasOpenRemoval(s)
      BY <1>0, <1>2, <2>2 DEF CloseCheck, Jobs
    <3>3. s \in Sids /\ session'[s].status # "NONE"
      BY <1>1, <3>1, <3>2 DEF IsLive, LiveStates
    <3>4. HasOpenRemoval(s) => Removals(s) # {}
      BY DEF HasOpenRemoval
    <3> QED
      BY <3>2, <3>3, <3>4, RemovalsKept
  <2>3. CASE CloseEnqueue(r)
    <3>1. s = job[r].sid /\ s \in Sids /\ session[s].status # "NONE"
      BY <1>0, <1>2, <2>3 DEF CloseEnqueue, TypeInv, Busy, InHand, Jobs
    <3>2. command' = Append(command, NewCommand("REMOVE_PEER", s))
      BY <2>3, <3>1 DEF CloseEnqueue
    <3>3. /\ Len(command) + 1 \in Cids'
          /\ command'[Len(command) + 1] = NewCommand("REMOVE_PEER", s)
      BY <3>2 DEF TypeInv, TypeOK, Cids
    <3>4. /\ NewCommand("REMOVE_PEER", s).type = "REMOVE_PEER"
          /\ NewCommand("REMOVE_PEER", s).sid = s
      BY DEF NewCommand
    <3>5. Len(command) + 1 \in Removals(s)'
      BY <3>3, <3>4 DEF Removals
    <3> QED
      BY <1>1, <3>1, <3>5
  <2> QED
    BY <1>2, <2>1, <2>2, <2>3, HandStep
<1> QED
  BY <1>2 DEF InHand, Removals

\* And with what an unfinished close has at hand.
TableInv == TypeInv /\ InHand

\* The tables are consistent at the start.
LEMMA TableInit == Init => TableInv
<1>1. Init => InHand
  BY DEF Init, InHand, Idle
<1> QED
  BY <1>1, TypeInit DEF TableInv

\* The tables stay consistent.
LEMMA TableStep == TableInv /\ [Next]_vars => TableInv'
  BY TypeStep, InHandStep DEF TableInv

\* In every reachable state the tables are well-formed, and a request that is to
\* close a row works on a row that was opened and has its removal queued.
THEOREM TableCorrect == Spec => []TableInv
  BY TableInit, TableStep, PTL DEF Spec

-----------------------------------------------------------------------------
(***************************************************************************)
(* Safety of the sessions.                                                 *)
(***************************************************************************)
\* A session that ended stays ended: an acknowledgement is applied to a
\* PENDING session only, and a new session takes an unused row.
THEOREM EndedStaysEnded == Spec => NoResurrection
<1>1. ASSUME TableInv, [Next]_vars, NEW s \in Sids, session[s].status \in Terminal
      PROVE  session'[s].status \in Terminal
  <2>1. session[s] \in SessionRows
    BY <1>1 DEF TableInv, TypeInv, TypeOK
  <2> QED
    BY <1>1, <2>1, RowStep DEF TableInv, Terminal, SessionRows
<1>2. TableInv /\ [Next]_vars =>
        [\A s \in Sids : session[s].status \in Terminal
                            => session'[s].status \in Terminal]_vars
  BY <1>1
<1> QED
  BY <1>2, TableCorrect, PTL DEF Spec, NoResurrection

\* However a session came to be closed, its removal was queued: closeSession
\* updates the row only with a removal in the queue, and nothing deletes one.
THEOREM ClosedLeavesRemoval == Spec => []ClosedHasRemoval
<1> DEFINE Inv == TableInv /\ ClosedHasRemoval
<1>1. Init => Inv
  BY TableInit DEF Init, ClosedHasRemoval, NoSession
<1>2. ASSUME Inv, [Next]_vars PROVE Inv'
  <2>1. SUFFICES ASSUME NEW s \in Sids, session'[s].status = "CLOSED"
                 PROVE  Removals(s)' # {}
    BY <1>2, TableStep DEF ClosedHasRemoval
  <2>2. CASE session[s].status = "CLOSED"
    BY <1>2, <2>2, RemovalsKept DEF TableInv, ClosedHasRemoval
  <2>3. CASE session[s].status # "CLOSED"
    <3>0. session \in [Sids -> SessionRows] /\ session' # session /\ TypeInv
      BY <1>2, <2>1, <2>3 DEF TableInv, TypeInv, TypeOK
    <3>1. CASE \E r \in Requests : CreateSession(r)
      BY <2>1, <2>3, <3>0, <3>1 DEF CreateSession
    <3>2. ASSUME NEW r \in Requests, CloseCommit(r) PROVE Removals(s)' # {}
      <4>1. s = job[r].sid
        BY <2>1, <2>3, <3>0, <3>2 DEF CloseCommit
      <4>2. Removals(s) # {}
        BY <1>2, <3>2, <4>1 DEF CloseCommit, TableInv, InHand
      <4> QED
        BY <1>2, <4>2, RemovalsKept DEF TableInv
    <3>3. ASSUME NEW S \in SUBSET Live, CloseInTransaction(S) PROVE Removals(s)' # {}
      <4>1. session' = [t \in Sids |-> IF t \in S
                THEN [session[t] EXCEPT !.status = "CLOSED"] ELSE session[t]]
        BY <3>3 DEF CloseInTransaction
      <4>2. s \in S
        BY <2>1, <2>3, <4>1
      <4> QED
        BY <3>0, <3>3, <4>2, LiveIsSids, CloseInTransactionKeeps DEF TypeInv, Removals
    <3>4. ASSUME NEW c \in Cids, NEW ok \in BOOLEAN, ServeAck(c, ok)
          PROVE  Removals(s)' # {}
      <4>1. \/ session' = [session EXCEPT ![command[c].sid].status = "ACTIVE"]
            \/ session' = [session EXCEPT ![command[c].sid].status = "FAILED"]
        BY <3>0, <3>4 DEF ServeAck, AckEffect
      <4> QED
        BY <2>1, <2>3, <3>0, <4>1 DEF SessionRows
    <3> QED
      BY <1>2, <3>0, <3>1, <3>2, <3>3, <3>4, SessionKept DEF SessionSteps
  <2> QED
    BY <2>2, <2>3
<1>3. Inv => ClosedHasRemoval
  OBVIOUS
<1> QED
  BY <1>1, <1>2, <1>3, PTL DEF Spec

\* A live session was live before the step, with the same device and node, or
\* the step created it.
LEMMA LiveStep ==
  ASSUME TableInv, [Next]_vars, NEW s \in Sids, s \in Live'
  PROVE  \/ /\ s \in Live
            /\ session'[s].dev = session[s].dev
            /\ session'[s].node = session[s].node
         \/ \E r \in Requests : /\ CreateSession(r)
                                /\ session[s].status = "NONE"
                                /\ session'[s].dev = job[r].dev
                                /\ session'[s].node = job[r].node
<1>1. session[s] \in SessionRows
  BY DEF TableInv, TypeInv, TypeOK
<1>2. session'[s].status \in {"PENDING", "ACTIVE"}
  BY DEF Live, IsLive, LiveStates
<1>3. CASE session'[s] = session[s]
  BY <1>2, <1>3 DEF Live, IsLive, LiveStates
<1>4. CASE /\ session[s].status = "PENDING"
           /\ session'[s] = [session[s] EXCEPT !.status = "ACTIVE"]
  BY <1>1, <1>4 DEF SessionRows, Live, IsLive, LiveStates
<1>5. CASE \E e \in Terminal : session'[s] = [session[s] EXCEPT !.status = e]
  BY <1>1, <1>2, <1>5 DEF SessionRows, Terminal
<1> QED
  BY <1>3, <1>4, <1>5, RowStep DEF TableInv

\* The gates move only where an administrator or the owner moves them.
LEMMA GateStep ==
  ASSUME [Next]_vars
  PROVE  /\ active' = active \/ \E d \in Devices : RevokeDevice(d)
         /\ \/ maintenance' \subseteq maintenance
            \/ \E N \in {Nodes} \cup {{n} : n \in Nodes} : EnterMaintenance(N)
<1> USE DEF serverVars, kernelVars
<1> DEFINE Same == active' = active /\ maintenance' = maintenance
<1>1. CASE UNCHANGED vars
  BY <1>1 DEF vars
<1>2. ASSUME NEW r \in Callers,
             \/ BeginClose(r) \/ BeginConnect(r)
             \/ BeginDisable(r) \/ BeginReclaim(r)
      PROVE  Same
  BY <1>2 DEF BeginClose, BeginConnect, BeginDisable, BeginReclaim, Start
<1>3. ASSUME NEW r \in Requests,
             \/ CloseSteps(r) \/ ConnectSteps(r) \/ FinishDisable(r)
             \/ FinishReclaim(r) \/ RequestDies(r)
      PROVE  Same
  BY <1>3 DEF CloseSteps, ConnectSteps, CloseCheck, CloseEnqueue, CloseCommit,
     FinishClose, CreateSession, RefuseSession, FinishDisable, FinishReclaim,
     RequestDies
<1>4. ASSUME NEW d \in Devices, RevokeDevice(d) PROVE maintenance' = maintenance
  BY <1>4 DEF RevokeDevice
<1>5. ASSUME NEW N \in {Nodes} \cup {{n} : n \in Nodes},
             EnterMaintenance(N) \/ LeaveMaintenance(N)
      PROVE  /\ active' = active
             /\ EnterMaintenance(N) \/ maintenance' \subseteq maintenance
  BY <1>5 DEF EnterMaintenance, LeaveMaintenance
<1>6. CASE \/ \E n \in Nodes : EnableNode(n)
           \/ \E c \in Cids : RequeueStale(c)
           \/ \E s \in Sids : ReclaimLease(s)
           \/ LateAck
  BY <1>6 DEF EnableNode, RequeueStale, ReclaimLease, LateAck, ServeAck
<1>7. ASSUME NEW n \in Nodes, Agent(n) PROVE Same
  BY <1>7 DEF Agent, HeartbeatAuth, Heartbeat, HeartbeatReplyLost,
     ServeHeartbeat, Execute, ExecuteFails, Ack, ServeAck, AckFails,
     AckTimesOut, AckInterrupted, EndTick, DumpPeers, ServeReport, ReportFails,
     CleanPeers, AgentRestart, NodeReboot
<1> QED
  BY <1>1, <1>2, <1>3, <1>4, <1>5, <1>6, <1>7 DEF Next, Server

\* No connect slips past a revocation or a maintenance, whichever requests it
\* interleaves with: the gates close sessions and the row changes in one
\* transaction, and creation checks them again.
THEOREM GatesHold == Spec => []GateHolds
<1> DEFINE Inv == TableInv /\ GateHolds
<1>1. Init => Inv
  BY TableInit DEF Init, GateHolds, Live, IsLive, LiveStates, NoSession
<1>2. ASSUME Inv, [Next]_vars PROVE Inv'
  <2>1. SUFFICES ASSUME NEW s \in Sids, s \in Live'
                 PROVE  session'[s].dev \in active' /\ session'[s].node \notin maintenance'
    BY <1>2, TableStep DEF GateHolds, Live
  <2>2. ASSUME NEW S \in SUBSET Live, CloseInTransaction(S) PROVE s \notin S
    <3>1. session' = [t \in Sids |-> IF t \in S
              THEN [session[t] EXCEPT !.status = "CLOSED"] ELSE session[t]]
      BY <2>2 DEF CloseInTransaction
    <3>2. session[s] \in SessionRows
      BY <1>2 DEF TableInv, TypeInv, TypeOK
    <3> QED
      BY <2>1, <3>1, <3>2 DEF Live, IsLive, LiveStates, SessionRows
  <2>3. CASE /\ s \in Live
             /\ session'[s].dev = session[s].dev
             /\ session'[s].node = session[s].node
    <3>1. session[s].dev \in active /\ session[s].node \notin maintenance
      BY <1>2, <2>3 DEF GateHolds
    <3>2. ASSUME NEW d \in Devices, RevokeDevice(d) PROVE session[s].dev \in active'
      <4>1. s \notin LiveOfDevice(d)
        BY <2>2, <3>2 DEF RevokeDevice, LiveOfDevice
      <4> QED
        BY <2>3, <3>1, <3>2, <4>1 DEF RevokeDevice, LiveOfDevice
    <3>3. ASSUME NEW N \in {Nodes} \cup {{n} : n \in Nodes}, EnterMaintenance(N)
          PROVE  session[s].node \notin maintenance'
      <4>1. s \notin {t \in Live : session[t].node \in N}
        BY <2>2, <3>3 DEF EnterMaintenance
      <4> QED
        BY <2>3, <3>1, <3>3, <4>1 DEF EnterMaintenance
    <3> QED
      BY <1>2, <2>3, <3>1, <3>2, <3>3, GateStep
  <2>4. ASSUME NEW r \in Requests, CreateSession(r),
               session'[s].dev = job[r].dev, session'[s].node = job[r].node
        PROVE  session'[s].dev \in active' /\ session'[s].node \notin maintenance'
    BY <2>4 DEF CreateSession, MayCreate
  <2> QED
    BY <1>2, <2>1, <2>3, <2>4, LiveStep
<1>3. Inv => GateHolds
  OBVIOUS
<1> QED
  BY <1>1, <1>2, <1>3, PTL DEF Spec

-----------------------------------------------------------------------------
(***************************************************************************)
(* The sessions table implements the ledger.                               *)
(***************************************************************************)
LEMMA LedgerInit == Init => Ledger!Init
  BY DEF Init, Ledger!Init, NoSession

\* Every step is a step of the ledger or leaves it unchanged.
LEMMA LedgerStep ==
  ASSUME TableInv, [Next]_vars
  PROVE  [Ledger!Next]_(Ledger!vars)
<1> DEFINE st == [s \in Sids |-> session[s].status]
           ho == [s \in Sids |-> session[s].dev]
<1>0. session \in [Sids -> SessionRows]
  BY DEF TableInv, TypeInv, TypeOK
<1>1. CASE session' = session
  BY <1>1 DEF Ledger!vars
<1>2. ASSUME NEW r \in Requests, CreateSession(r) PROVE Ledger!Next
  <2>1. PICK s \in Sids : s = Least(Unused) /\ session[s].status = "NONE"
    BY <1>2, UnusedLeast DEF CreateSession, Unused
  <2>2. PICK d \in Devices : d = job[r].dev
    BY <1>2 DEF CreateSession, AtEnd, TableInv, TypeInv, Busy
  <2>3. PICK i : session' = [session EXCEPT ![s] =
            [status |-> "PENDING", dev |-> d, node |-> job[r].node, ip |-> i]]
    BY <1>2, <2>1, <2>2 DEF CreateSession
  <2>4. \A t \in Sids : session[t].status \in {"PENDING", "ACTIVE"}
                            => session[t].dev # d
    BY <1>2, <2>2 DEF CreateSession, MayCreate, LiveOfDevice, Live, IsLive, LiveStates
  <2>5. st' = [st EXCEPT ![s] = "PENDING"] /\ ho' = [ho EXCEPT ![s] = d]
    BY <1>0, <2>1, <2>3
  <2>6. Ledger!Open(s, d)
    BY <2>1, <2>4, <2>5 DEF Ledger!Open, Ledger!LiveStates
  <2> QED
    BY <2>1, <2>2, <2>6 DEF Ledger!Next
<1>3. ASSUME NEW S \in SUBSET Sids, NEW e \in {"CLOSED", "FAILED"},
             \A s \in S : session[s].status # "NONE",
             session' = [s \in Sids |-> IF s \in S
                THEN [session[s] EXCEPT !.status = e] ELSE session[s]]
      PROVE  Ledger!Next
  <2>1. /\ st' = [s \in Sids |-> IF s \in S THEN e ELSE st[s]]
        /\ ho' = ho
    BY <1>0, <1>3 DEF SessionRows
  <2>2. Ledger!End(S, e)
    BY <1>3, <2>1 DEF Ledger!End
  <2> QED
    BY <2>2 DEF Ledger!Next, Ledger!EndStates
<1>4. ASSUME NEW r \in Requests, CloseCommit(r) PROVE Ledger!Next
  <2>1. PICK s \in Sids : s = job[r].sid /\ session[s].status # "NONE"
    BY <1>4 DEF CloseCommit, TableInv, TypeInv, Busy, InHand
  <2>2. session' = [t \in Sids |-> IF t \in {s}
            THEN [session[t] EXCEPT !.status = "CLOSED"] ELSE session[t]]
    BY <1>0, <1>4, <2>1 DEF CloseCommit
  <2>3. {s} \in SUBSET Sids /\ \A t \in {s} : session[t].status # "NONE"
    BY <2>1
  <2> QED
    BY <1>3, <2>2, <2>3
<1>5. ASSUME NEW S \in SUBSET Live, CloseInTransaction(S) PROVE Ledger!Next
  <2>1. session' = [t \in Sids |-> IF t \in S
            THEN [session[t] EXCEPT !.status = "CLOSED"] ELSE session[t]]
    BY <1>5 DEF CloseInTransaction
  <2>2. S \in SUBSET Sids /\ \A s \in S : session[s].status # "NONE"
    BY DEF Live, IsLive, LiveStates
  <2> QED
    BY <1>3, <2>1, <2>2
<1>6. ASSUME NEW c \in Cids, NEW ok \in BOOLEAN, ServeAck(c, ok), session' # session
      PROVE  Ledger!Next
  <2>1. PICK s \in Sids :
        /\ session[s].status = "PENDING"
        /\ \/ session' = [session EXCEPT ![s].status = "ACTIVE"]
           \/ session' = [session EXCEPT ![s].status = "FAILED"]
    BY <1>6, RowOfCommand DEF ServeAck, AckEffect, TableInv, TypeInv
  <2>2. CASE session' = [session EXCEPT ![s].status = "ACTIVE"]
    <3>1. st' = [st EXCEPT ![s] = "ACTIVE"] /\ ho' = ho
      BY <1>0, <2>1, <2>2 DEF SessionRows
    <3>2. Ledger!Activate(s)
      BY <2>1, <3>1 DEF Ledger!Activate
    <3> QED
      BY <2>1, <3>2 DEF Ledger!Next
  <2>3. CASE session' = [session EXCEPT ![s].status = "FAILED"]
    <3>1. session' = [t \in Sids |-> IF t \in {s}
              THEN [session[t] EXCEPT !.status = "FAILED"] ELSE session[t]]
      BY <1>0, <2>1, <2>3
    <3> QED
      BY <1>3, <2>1, <3>1
  <2> QED
    BY <2>1, <2>2, <2>3
<1> QED
  BY <1>1, <1>2, <1>4, <1>5, <1>6, SessionKept DEF SessionSteps, TableInv

\* The control server, the queue and the agents together implement the ledger:
\* every step opens, activates or ends sessions as the ledger allows.
THEOREM Implementation == Spec => ImplementsLedger
<1>1. TableInv /\ [Next]_vars => [Ledger!Next]_(Ledger!vars)
  BY LedgerStep
<1> QED
  BY <1>1, LedgerInit, TableCorrect, PTL DEF Spec, ImplementsLedger, Ledger!Spec

-----------------------------------------------------------------------------
(***************************************************************************)
(* Limits.                                                                 *)
(***************************************************************************)
\* Sets of sessions are finite, and a part is no larger than the whole.
LEMMA SmallerSet ==
  ASSUME NEW S \in SUBSET Sids, NEW T, T \subseteq S
  PROVE  Cardinality(S) \in Nat /\ Cardinality(T) <= Cardinality(S)
<1>1. IsFiniteSet(Sids)
  BY ConstantsAssumption, FS_Interval DEF Sids
<1>2. IsFiniteSet(S)
  BY <1>1, FS_Subset
<1> QED
  BY <1>2, FS_Subset, FS_CardinalityType

\* One more session adds at most one to a count.
LEMMA OneMore ==
  ASSUME NEW S \in SUBSET Sids, NEW x \in Sids, NEW T, T \subseteq S \cup {x},
         NEW k \in Nat, Cardinality(S) < k
  PROVE  Cardinality(T) <= k
<1>1. IsFiniteSet(S) /\ Cardinality(S) \in Nat
  <2>1. IsFiniteSet(Sids)
    BY ConstantsAssumption, FS_Interval DEF Sids
  <2> QED
    BY <2>1, FS_Subset, FS_CardinalityType
<1>2. Cardinality(S \cup {x}) <= Cardinality(S) + 1
  <2>1. Cardinality(S \cup {x}) = IF x \in S THEN Cardinality(S) ELSE Cardinality(S) + 1
    BY <1>1, FS_AddElement
  <2> QED
    BY <1>1, <2>1
<1>3. Cardinality(T) <= Cardinality(S \cup {x}) /\ Cardinality(S \cup {x}) \in Nat
  BY SmallerSet
<1>4. Cardinality(T) \in Nat
  BY SmallerSet
<1> QED
  BY <1>1, <1>2, <1>3, <1>4

\* No interleaving of connects takes a device, an account or a node over its
\* allowance, and a device has one live session at most: the transaction that
\* creates a session counts again.
THEOREM LimitsKept == Spec => []LimitsHold
<1> USE ConstantsAssumption
<1> DEFINE Inv == TableInv /\ LimitsHold
<1>1. Init => Inv
  <2>1. ASSUME Init PROVE LimitsHold
    <3>1. Live = {}
      BY <2>1 DEF Init, Live, IsLive, LiveStates, NoSession
    <3>2. \A d \in Devices : LiveOfDevice(d) = {}
      BY <3>1 DEF LiveOfDevice
    <3>3. \A u \in Users : LiveOfUser(u) = {}
      BY <3>1 DEF LiveOfUser
    <3>4. \A n \in Nodes : LiveOnNode(n) = {}
      BY <3>1 DEF LiveOnNode
    <3> QED
      BY <3>2, <3>3, <3>4, FS_EmptySet DEF LimitsHold
  <2> QED
    BY <2>1, TableInit
<1>2. ASSUME Inv, [Next]_vars PROVE Inv'
  <2>0. session \in [Sids -> SessionRows] /\ TableInv
    BY <1>2 DEF TableInv, TypeInv, TypeOK
  <2>1. CASE ~\E r \in Requests : CreateSession(r)
    <3>1. ASSUME NEW s \in Live'
          PROVE  /\ s \in Live
                 /\ session'[s].dev = session[s].dev
                 /\ session'[s].node = session[s].node
      <4>1. s \in Sids
        BY DEF Live
      <4> QED
        BY <1>2, <2>1, <4>1, LiveStep
    <3>2. ASSUME NEW d \in Devices PROVE Cardinality(LiveOfDevice(d)') <= 1
      <4>1. LiveOfDevice(d)' \subseteq LiveOfDevice(d)
        BY <3>1 DEF LiveOfDevice
      <4>2. LiveOfDevice(d) \in SUBSET Sids
        BY DEF LiveOfDevice, Live
      <4> QED
        BY <1>2, <4>1, <4>2, SmallerSet DEF LimitsHold
    <3>3. ASSUME NEW u \in Users PROVE Cardinality(LiveOfUser(u)') <= SessionLimit
      <4>1. LiveOfUser(u)' \subseteq LiveOfUser(u)
        BY <3>1 DEF LiveOfUser
      <4>2. LiveOfUser(u) \in SUBSET Sids
        BY DEF LiveOfUser, Live
      <4> QED
        BY <1>2, <4>1, <4>2, SmallerSet DEF LimitsHold
    <3>4. ASSUME NEW n \in Nodes PROVE Cardinality(LiveOnNode(n)') <= Capacity
      <4>1. LiveOnNode(n)' \subseteq LiveOnNode(n)
        BY <3>1 DEF LiveOnNode
      <4>2. LiveOnNode(n) \in SUBSET Sids
        BY DEF LiveOnNode, Live
      <4> QED
        BY <1>2, <4>1, <4>2, SmallerSet DEF LimitsHold
    <3> QED
      BY <1>2, <3>2, <3>3, <3>4, TableStep DEF LimitsHold
  <2>2. ASSUME NEW r \in Requests, CreateSession(r) PROVE LimitsHold'
    <3>1. PICK x \in Sids : x = Least(Unused) /\ session[x].status = "NONE"
      BY <2>2, UnusedLeast DEF CreateSession, Unused
    <3>2. PICK ip : session' = [session EXCEPT ![x] =
            [status |-> "PENDING", dev |-> job[r].dev, node |-> job[r].node, ip |-> ip]]
      BY <2>2, <3>1 DEF CreateSession
    <3>3. Live' \subseteq Live \cup {x}
      BY <2>0, <3>2 DEF Live, IsLive
    <3>4. \A s \in Live' : s # x => session'[s] = session[s]
      BY <2>0, <3>2 DEF Live
    <3>5. session'[x].dev = job[r].dev /\ session'[x].node = job[r].node
      BY <2>0, <3>2
    <3>6. MayCreate(job[r].dev, job[r].node)
      BY <2>2 DEF CreateSession
    <3>7. ASSUME NEW d \in Devices PROVE Cardinality(LiveOfDevice(d)') <= 1
      <4>1. LiveOfDevice(d) \in SUBSET Sids
        BY DEF LiveOfDevice, Live
      <4>2. CASE d = job[r].dev
        <5>1. LiveOfDevice(d) = {} /\ LiveOfDevice(d)' \subseteq LiveOfDevice(d) \cup {x}
          BY <3>3, <3>4, <3>6, <4>2 DEF MayCreate, LiveOfDevice
        <5> QED
          BY <4>1, <5>1, OneMore, FS_EmptySet
      <4>3. CASE d # job[r].dev
        <5>1. LiveOfDevice(d)' \subseteq LiveOfDevice(d)
          BY <3>3, <3>4, <3>5, <4>3 DEF LiveOfDevice
        <5> QED
          BY <1>2, <4>1, <5>1, SmallerSet DEF LimitsHold
      <4> QED
        BY <4>2, <4>3
    <3>8. ASSUME NEW u \in Users PROVE Cardinality(LiveOfUser(u)') <= SessionLimit
      <4>1. LiveOfUser(u) \in SUBSET Sids
        BY DEF LiveOfUser, Live
      <4>2. CASE u = Owner[job[r].dev]
        <5>1. Cardinality(LiveOfUser(u)) < SessionLimit
          BY <3>6, <4>2 DEF MayCreate
        <5>2. LiveOfUser(u)' \subseteq LiveOfUser(u) \cup {x}
          BY <3>3, <3>4 DEF LiveOfUser
        <5> QED
          BY <4>1, <5>1, <5>2, OneMore
      <4>3. CASE u # Owner[job[r].dev]
        <5>1. LiveOfUser(u)' \subseteq LiveOfUser(u)
          BY <3>3, <3>4, <3>5, <4>3 DEF LiveOfUser
        <5> QED
          BY <1>2, <4>1, <5>1, SmallerSet DEF LimitsHold
      <4> QED
        BY <4>2, <4>3
    <3>9. ASSUME NEW n \in Nodes PROVE Cardinality(LiveOnNode(n)') <= Capacity
      <4>1. LiveOnNode(n) \in SUBSET Sids
        BY DEF LiveOnNode, Live
      <4>2. CASE n = job[r].node
        <5>1. Cardinality(LiveOnNode(n)) < Capacity
          BY <3>6, <4>2 DEF MayCreate
        <5>2. LiveOnNode(n)' \subseteq LiveOnNode(n) \cup {x}
          BY <3>3, <3>4 DEF LiveOnNode
        <5> QED
          BY <4>1, <5>1, <5>2, OneMore
      <4>3. CASE n # job[r].node
        <5>1. LiveOnNode(n)' \subseteq LiveOnNode(n)
          BY <3>3, <3>4, <3>5, <4>3 DEF LiveOnNode
        <5> QED
          BY <1>2, <4>1, <5>1, SmallerSet DEF LimitsHold
      <4> QED
        BY <4>2, <4>3
    <3> QED
      BY <3>7, <3>8, <3>9 DEF LimitsHold
  <2> QED
    BY <1>2, <2>1, <2>2, TableStep
<1>3. Inv => LimitsHold
  OBVIOUS
<1> QED
  BY <1>1, <1>2, <1>3, PTL DEF Spec

-----------------------------------------------------------------------------
(***************************************************************************)
(* The peers a report removes.  A peer on a node was added for a session   *)
(* of that node and that device, so a key the report finds no live session *)
(* for belongs to none, and no later session can have taken it over.       *)
(***************************************************************************)
\* A command belongs to a session that was made.
CommandsKnown == \A c \in Cids : session[command[c].sid].status # "NONE"
\* An agent runs the commands of its own node.
BatchesOwn == \A n \in Nodes : \A c \in agent[n].batch : c \in Cids /\ NodeOf(c) = n
\* A peer on a node is of a session of that node and that device.
PeersKnown ==
    \A n \in Nodes, d \in Devices : peer[n][d] # 0 =>
        LET s == peer[n][d] IN
        session[s].status # "NONE" /\ session[s].dev = d /\ session[s].node = n
\* What a report found dead is dead when the agent cleans it up.
AnswersDead ==
    \A n \in Nodes : agent[n].pc = "clean" =>
        \A d \in agent[n].seen : peer[n][d] \notin Live

\* The inductive invariant about peers.
PeerInv ==
    /\ TableInv
    /\ CommandsKnown
    /\ BatchesOwn
    /\ PeersKnown
    /\ AnswersDead

\* A row in use keeps its device, its node and its address.
LEMMA UsedRow ==
  ASSUME TableInv, [Next]_vars, NEW s \in Sids, session[s].status # "NONE"
  PROVE  /\ session'[s].status # "NONE"
         /\ session'[s].dev = session[s].dev
         /\ session'[s].node = session[s].node
         /\ session'[s].ip = session[s].ip
<1>1. session[s] \in SessionRows
  BY DEF TableInv, TypeInv, TypeOK
<1> QED
  BY <1>1, RowStep DEF TableInv, Terminal, SessionRows

\* A command is only ever queued for a session that was opened.
LEMMA CommandsKnownStep ==
  ASSUME PeerInv, [Next]_vars
  PROVE  CommandsKnown'
<1>0. TypeOK /\ TypeInv /\ TableInv /\ command \in Seq(CommandRows)
  BY DEF PeerInv, TableInv, TypeInv, TypeOK
<1>1. ASSUME NEW c \in Cids PROVE session'[command'[c].sid].status # "NONE"
  <2>1. command'[c].sid = command[c].sid /\ command[c].sid \in Sids
    BY <1>0, QueueKept, RowOfCommand
  <2>2. session[command[c].sid].status # "NONE"
    BY DEF PeerInv, CommandsKnown
  <2> QED
    BY <1>0, <2>1, <2>2, UsedRow
<1>2. ASSUME NEW c \in Cids' \ Cids PROVE session'[command'[c].sid].status # "NONE"
  <2>1. ASSUME NEW r \in Requests, CloseEnqueue(r)
        PROVE  session'[command'[c].sid].status # "NONE"
    <3>1. c = Len(command) + 1
      BY <1>0, <1>2, <2>1 DEF CloseEnqueue, Cids
    <3>2. command'[c] = NewCommand("REMOVE_PEER", job[r].sid)
      BY <1>0, <2>1, <3>1 DEF CloseEnqueue
    <3>3. session[job[r].sid].status # "NONE" /\ session' = session
      BY <2>1 DEF CloseEnqueue, PeerInv, TableInv, InHand
    <3> QED
      BY <3>2, <3>3 DEF NewCommand
  <2>2. ASSUME NEW r \in Requests, CreateSession(r)
        PROVE  session'[command'[c].sid].status # "NONE"
    <3>1. c = Len(command) + 1
      BY <1>0, <1>2, <2>2 DEF CreateSession, Cids
    <3>2. command'[c] = NewCommand("ADD_PEER", Least(Unused))
      BY <1>0, <2>2, <3>1 DEF CreateSession
    <3>3. session'[Least(Unused)].status = "PENDING"
      BY <1>0, <2>2, UnusedLeast DEF CreateSession, TypeOK
    <3> QED
      BY <3>2, <3>3 DEF NewCommand
  <2>3. ASSUME NEW S \in SUBSET Live, CloseInTransaction(S)
        PROVE  session'[command'[c].sid].status # "NONE"
    <3>1. S \subseteq Sids /\ \A s \in S : session[s].status # "NONE"
      BY DEF Live, IsLive, LiveStates
    <3>2. command'[c].sid \in S
      BY <1>0, <1>2, <2>3, <3>1, CloseInTransactionKeeps
    <3> QED
      BY <1>0, <3>1, <3>2, UsedRow
  <2>4. ASSUME NEW b \in Cids, NEW ok \in BOOLEAN, command' = Completed(b, ok)
        PROVE  FALSE
    BY <1>0, <1>2, <2>4, CompletedKeeps DEF Cids
  <2>5. ASSUME NEW n \in Nodes, ServeHeartbeat(n) PROVE FALSE
    BY <1>0, <1>2, <2>5, HeartbeatKeeps
  <2>6. ASSUME NEW b \in Cids, RequeueStale(b) PROVE FALSE
    <3>1. PICK st : command' = [command EXCEPT ![b].status = st]
      BY <2>6 DEF RequeueStale
    <3> QED
      BY <1>0, <1>2, <3>1 DEF Cids
  <2>7. ASSUME command' = command PROVE FALSE
    BY <1>2, <2>7 DEF Cids
  <2> QED
    BY <1>0, <2>1, <2>2, <2>3, <2>4, <2>5, <2>6, <2>7, QueueUnchanged DEF QueueSteps
<1> QED
  BY <1>1, <1>2 DEF CommandsKnown

\* What a step can do to the peers and to the agent of node n.
LEMMA AgentStep ==
  ASSUME TypeInv, [Next]_vars, NEW n \in Nodes
  PROVE  \/ agent'[n] = agent[n] /\ peer'[n] = peer[n]
         \/ /\ agent'[n].pc # "clean"
            /\ \/ peer'[n] = peer[n]
               \/ peer'[n] = [d \in Devices |-> 0]
               \/ /\ agent[n].pc = "run"
                  /\ Apply(n, Least(agent[n].batch))
            /\ \/ agent'[n].batch \subseteq agent[n].batch
               \/ agent'[n].batch \subseteq Claimed(n)
         \/ \E aged \in BOOLEAN : ServeReport(n, aged)
         \/ CleanPeers(n)
<1> USE DEF serverVars, kernelVars
<1>0. /\ agent \in [Nodes -> Agents]
      /\ peer \in [Nodes -> [Devices -> Sids \cup {0}]]
  BY DEF TypeInv, TypeOK
<1>1. ASSUME UNCHANGED <<agent, peer>>
      PROVE  agent'[n] = agent[n] /\ peer'[n] = peer[n]
  BY <1>1
<1>2. CASE UNCHANGED vars
  BY <1>1, <1>2 DEF vars
<1>3. ASSUME NEW r \in Callers,
             \/ BeginClose(r) \/ BeginConnect(r)
             \/ BeginDisable(r) \/ BeginReclaim(r)
      PROVE  UNCHANGED <<agent, peer>>
  BY <1>3 DEF BeginClose, BeginConnect, BeginDisable, BeginReclaim, Start
<1>4. ASSUME NEW r \in Requests,
             \/ CloseSteps(r) \/ ConnectSteps(r) \/ FinishDisable(r)
             \/ FinishReclaim(r)
      PROVE  UNCHANGED <<agent, peer>>
  BY <1>4 DEF CloseSteps, ConnectSteps, CloseCheck, CloseEnqueue, CloseCommit,
     FinishClose, CreateSession, RefuseSession, FinishDisable, FinishReclaim
<1>5. ASSUME agent'[n] = Resting, peer'[n] = peer[n] \/ peer'[n] = [d \in Devices |-> 0]
      PROVE  /\ agent'[n].pc # "clean"
             /\ peer'[n] = peer[n] \/ peer'[n] = [d \in Devices |-> 0]
             /\ agent'[n].batch \subseteq agent[n].batch
  BY <1>5 DEF Resting
<1>6. ASSUME NEW r \in Requests, RequestDies(r)
      PROVE  (agent'[n] = agent[n] \/ agent'[n] = Resting) /\ peer'[n] = peer[n]
  BY <1>6 DEF RequestDies
<1>7. ASSUME NEW d \in Devices, RevokeDevice(d) PROVE UNCHANGED <<agent, peer>>
  BY <1>7 DEF RevokeDevice, CloseInTransaction
<1>8. ASSUME NEW N \in {Nodes} \cup {{m} : m \in Nodes},
             EnterMaintenance(N) \/ LeaveMaintenance(N)
      PROVE  UNCHANGED <<agent, peer>>
  BY <1>8 DEF EnterMaintenance, LeaveMaintenance, CloseInTransaction
<1>9. CASE \/ \E m \in Nodes : EnableNode(m)
           \/ \E c \in Cids : RequeueStale(c)
           \/ \E s \in Sids : ReclaimLease(s)
           \/ LateAck
  BY <1>9 DEF EnableNode, RequeueStale, ReclaimLease, LateAck, ServeAck
<1>10. ASSUME NEW m \in Nodes, Agent(m), m # n
       PROVE  agent'[n] = agent[n] /\ peer'[n] = peer[n]
  <2>1. CASE Execute(m) \/ ExecuteFails(m)
    BY <1>0, <1>10, <2>1 DEF Execute, ExecuteFails, Apply, AddPeer, RemovePeers
  <2>2. CASE CleanPeers(m) \/ NodeReboot(m)
    BY <1>0, <1>10, <2>2 DEF CleanPeers, NodeReboot, RemovePeers
  <2>3. CASE ~(Execute(m) \/ ExecuteFails(m) \/ CleanPeers(m) \/ NodeReboot(m))
    BY <1>0, <1>10, <2>3 DEF Agent, HeartbeatAuth, Heartbeat, HeartbeatReplyLost,
       ServeHeartbeat, Ack, ServeAck, NextCommand, AckFails, AckTimesOut,
       AckInterrupted, EndTick, DumpPeers, ServeReport, ReportFails, AgentRestart
  <2> QED
    BY <2>1, <2>2, <2>3
<1>11. CASE Agent(n)
  <2>0. agent[n] \in Agents
    BY <1>0
  <2>1. CASE HeartbeatAuth(n)
    BY <1>0, <2>0, <2>1 DEF HeartbeatAuth, Agents
  <2>2. CASE Heartbeat(n)
    BY <1>0, <2>0, <2>2 DEF Heartbeat, ServeHeartbeat, Agents
  <2>3. CASE \/ HeartbeatReplyLost(n) \/ EndTick(n) \/ ReportFails(n)
             \/ AgentRestart(n)
    BY <1>0, <1>5, <2>3 DEF HeartbeatReplyLost, ServeHeartbeat, EndTick,
       ReportFails, AgentRestart
  <2>4. CASE NodeReboot(n)
    BY <1>0, <1>5, <2>4 DEF NodeReboot, RemovePeers
  <2>5. CASE Execute(n)
    BY <1>0, <2>0, <2>5 DEF Execute, Agents
  <2>6. CASE ExecuteFails(n)
    BY <1>0, <2>0, <2>6 DEF ExecuteFails, Agents
  <2>7. ASSUME NextCommand(n), peer' = peer
        PROVE  /\ agent'[n].pc # "clean"
               /\ peer'[n] = peer[n]
               /\ agent'[n].batch \subseteq agent[n].batch
    BY <1>0, <2>0, <2>7 DEF NextCommand, Agents
  <2>8. CASE Ack(n) \/ AckFails(n) \/ AckTimesOut(n) \/ AckInterrupted(n)
    BY <2>7, <2>8 DEF Ack, ServeAck, AckFails, AckTimesOut, AckInterrupted
  <2>9. CASE DumpPeers(n)
    BY <1>0, <2>0, <2>9 DEF DumpPeers, Agents
  <2> QED
    BY <1>11, <2>1, <2>2, <2>3, <2>4, <2>5, <2>6, <2>8, <2>9 DEF Agent
<1> QED
  BY <1>1, <1>2, <1>3, <1>4, <1>5, <1>6, <1>7, <1>8, <1>9, <1>10, <1>11
     DEF Next, Server

\* An agent only has commands of its own node.
LEMMA BatchesOwnStep ==
  ASSUME PeerInv, [Next]_vars
  PROVE  BatchesOwn'
<1>0. TypeOK /\ TypeInv /\ TableInv /\ agent \in [Nodes -> Agents]
  BY DEF PeerInv, TableInv, TypeInv, TypeOK
<1>1. ASSUME NEW n \in Nodes, NEW c \in Cids, NodeOf(c) = n
      PROVE  c \in Cids' /\ session'[command'[c].sid].node = n
  <2>1. c \in Cids' /\ command'[c].sid = command[c].sid /\ command[c].sid \in Sids
    BY <1>0, QueueKept, RowOfCommand
  <2>2. session[command[c].sid].status # "NONE" /\ session[command[c].sid].node = n
    BY <1>1 DEF PeerInv, CommandsKnown, NodeOf
  <2> QED
    BY <1>0, <2>1, <2>2, UsedRow
<1>2. ASSUME NEW n \in Nodes, NEW c \in agent'[n].batch
      PROVE  c \in Cids /\ NodeOf(c) = n
  <2>1. CASE agent'[n].batch \subseteq agent[n].batch
    BY <1>2, <2>1 DEF PeerInv, BatchesOwn
  <2>2. CASE agent'[n].batch \subseteq Claimed(n)
    BY <1>2, <2>2 DEF Claimed, Deliverable
  <2>3. ASSUME NEW aged \in BOOLEAN, ServeReport(n, aged)
        PROVE  agent'[n].batch \subseteq agent[n].batch
    BY <1>0, <2>3 DEF ServeReport, Agents
  <2>4. CASE CleanPeers(n)
    BY <1>0, <1>2, <2>4 DEF CleanPeers, Resting
  <2> QED
    BY <1>0, <2>1, <2>2, <2>3, <2>4, AgentStep
<1> QED
  BY <1>1, <1>2 DEF BatchesOwn, NodeOf

\* A peer is added on the node and for the device of its session.
LEMMA PeersKnownStep ==
  ASSUME PeerInv, [Next]_vars
  PROVE  PeersKnown'
<1>0. /\ TypeOK /\ TypeInv /\ TableInv
      /\ peer \in [Nodes -> [Devices -> Sids \cup {0}]]
  BY DEF PeerInv, TableInv, TypeInv, TypeOK
<1>1. ASSUME NEW n \in Nodes, NEW d \in Devices, NEW s \in Sids,
             session[s].status # "NONE", session[s].dev = d, session[s].node = n
      PROVE  session'[s].status # "NONE" /\ session'[s].dev = d /\ session'[s].node = n
  BY <1>0, <1>1, UsedRow
<1>2. ASSUME NEW n \in Nodes, NEW d \in Devices, NEW s, s = peer'[n][d], s # 0
      PROVE  /\ s \in Sids
             /\ session[s].status # "NONE" /\ session[s].dev = d /\ session[s].node = n
  <2>1. CASE s = peer[n][d]
    BY <1>0, <1>2, <2>1 DEF PeerInv, PeersKnown
  <2>2. CASE peer'[n] = [e \in Devices |-> 0]
    BY <1>2, <2>2
  <2>3. ASSUME NEW D, RemovePeers(n, D) PROVE s = peer[n][d]
    BY <1>0, <1>2, <2>3 DEF RemovePeers
  <2>4. CASE agent[n].pc = "run" /\ Apply(n, Least(agent[n].batch))
    <3>1. PICK c \in Cids : /\ c = Least(agent[n].batch)
                            /\ NodeOf(c) = n
                            /\ session[command[c].sid].status # "NONE"
      BY <1>0, <2>4, BatchHead DEF PeerInv, BatchesOwn, CommandsKnown
    <3>2. command[c].sid \in Sids
      BY <1>0, RowOfCommand
    <3>3. CASE AddPeer(n, command[c].sid)
      BY <1>0, <1>2, <2>1, <3>1, <3>2, <3>3 DEF AddPeer, NodeOf
    <3> QED
      BY <2>1, <2>3, <2>4, <3>1, <3>3 DEF Apply
  <2>5. CASE \E aged \in BOOLEAN : ServeReport(n, aged)
    BY <1>2, <2>1, <2>5 DEF ServeReport, kernelVars
  <2>6. CASE CleanPeers(n)
    BY <2>1, <2>3, <2>6 DEF CleanPeers
  <2> QED
    BY <1>0, <1>2, <2>1, <2>2, <2>4, <2>5, <2>6, AgentStep
<1> QED
  BY <1>1, <1>2 DEF PeersKnown

\* A key named in an answer stays dead until the agent removes it.
LEMMA AnswersDeadStep ==
  ASSUME PeerInv, [Next]_vars
  PROVE  AnswersDead'
<1>0. /\ TypeOK /\ TypeInv /\ TableInv
      /\ agent \in [Nodes -> Agents]
      /\ peer \in [Nodes -> [Devices -> Sids \cup {0}]]
  BY DEF PeerInv, TableInv, TypeInv, TypeOK
<1>1. ASSUME NEW n \in Nodes, agent'[n].pc = "clean",
             NEW d \in Devices, d \in agent'[n].seen
      PROVE  peer'[n][d] \notin Live'
  <2>1. CASE agent'[n] = agent[n] /\ peer'[n] = peer[n]
    <3>1. PICK s \in Sids \cup {0} : s = peer[n][d]
      BY <1>0
    <3>2. s \notin Live /\ (s # 0 => session[s].status # "NONE")
      BY <1>1, <2>1, <3>1 DEF PeerInv, AnswersDead, PeersKnown
    <3>3. CASE s = 0
      BY <2>1, <3>1, <3>3 DEF Live, Sids
    <3>4. CASE s # 0
      BY <1>0, <2>1, <3>1, <3>2, <3>4, LiveStep
    <3> QED
      BY <3>3, <3>4
  <2>2. ASSUME NEW aged \in BOOLEAN, ServeReport(n, aged)
        PROVE  peer'[n][d] \notin Live'
    <3>1. /\ session' = session /\ peer' = peer
          /\ agent'[n].seen = Unknown(n)
      BY <1>0, <2>2 DEF ServeReport, serverVars, kernelVars, Agents
    <3>2. LiveOfDevice(d) \cap LiveOnNode(n) = {}
      BY <1>1, <3>1 DEF Unknown
    <3>3. peer[n][d] \in Live => /\ peer[n][d] # 0
                                 /\ session[peer[n][d]].dev = d
                                 /\ session[peer[n][d]].node = n
      BY DEF PeerInv, PeersKnown, Live, Sids
    <3>4. peer[n][d] \notin Live
      BY <3>2, <3>3 DEF LiveOfDevice, LiveOnNode
    <3>5. Live' = Live
      BY <3>1 DEF Live, IsLive
    <3> QED
      BY <3>1, <3>4, <3>5
  <2>3. CASE CleanPeers(n)
    BY <1>0, <1>1, <2>3 DEF CleanPeers, Resting
  <2> QED
    BY <1>0, <1>1, <2>1, <2>2, <2>3, AgentStep
<1>2. agent' \in [Nodes -> Agents']
  BY <1>0, TypeStep DEF TypeInv, TypeOK
<1> QED
  BY <1>1, <1>2 DEF AnswersDead, Agents

\* At the start there are no peers.
LEMMA PeerInit == Init => PeerInv
<1>1. ASSUME Init PROVE CommandsKnown /\ BatchesOwn /\ PeersKnown /\ AnswersDead
  BY <1>1 DEF Init, CommandsKnown, Cids, BatchesOwn, PeersKnown, AnswersDead, Resting
<1> QED
  BY <1>1, TableInit DEF PeerInv

\* The inductive step for peers and answers.
LEMMA PeerStep == PeerInv /\ [Next]_vars => PeerInv'
  BY TableStep, CommandsKnownStep, BatchesOwnStep, PeersKnownStep, AnswersDeadStep
     DEF PeerInv

\* The answer to a report is older than its execution, but no connect in
\* between can have revived a peer it names: the peers the agent then removes
\* belong to no live session.
THEOREM ReportsCutOnlyDead == Spec => ReportCutsOnlyDead
<1>1. PeerInv /\ [Next]_vars =>
        [\A n \in Nodes : CleanPeers(n) =>
            \A d \in agent[n].seen : peer[n][d] \notin Live]_vars
  BY DEF PeerInv, AnswersDead, CleanPeers
<1> QED
  BY <1>1, PeerInit, PeerStep, PTL DEF Spec, ReportCutsOnlyDead

-----------------------------------------------------------------------------
(***************************************************************************)
(* The kernel of a node, the pool and the sessions table.  First, what one *)
(* step can do to a command, to an agent and to the leases.                *)
(***************************************************************************)
\* What closeSessionsInTransaction does to the queue, row by row.
LEMMA CloseInTransactionRows ==
  ASSUME TypeOK, NEW S \in SUBSET Sids, CloseInTransaction(S)
  PROVE  /\ \A b \in Cids :
               \/ command'[b] = command[b]
               \/ /\ command[b].sid \in S
                  /\ command[b].type = "ADD_PEER"
                  /\ command[b].status = "PENDING"
                  /\ command'[b] = [command[b] EXCEPT !.status = "FAILED"]
         /\ \A c \in Cids' \ Cids :
               \E s \in S : command'[c] = NewCommand("REMOVE_PEER", s)
<1> DEFINE old == [c \in Cids |->
             IF /\ command[c].sid \in S
                /\ command[c].type = "ADD_PEER"
                /\ command[c].status = "PENDING"
             THEN [command[c] EXCEPT !.status = "FAILED"] ELSE command[c]]
           k == Cardinality(S)
<1>1. k \in Nat
  <2>1. IsFiniteSet(Sids)
    BY ConstantsAssumption, FS_Interval DEF Sids
  <2> QED
    BY <2>1, FS_Subset, FS_CardinalityType
<1>2. PICK order \in [1 .. k -> S] :
        command' = old \o [j \in 1 .. k |-> NewCommand("REMOVE_PEER", order[j])]
  BY DEF CloseInTransaction
<1> DEFINE new == [j \in 1 .. k |-> NewCommand("REMOVE_PEER", order[j])]
<1>3. command \in Seq(CommandRows) /\ Cids = 1 .. Len(command) /\ Len(command) \in Nat
  BY DEF TypeOK, Cids
<1>4. \A b \in Cids : \/ old[b] = command[b]
                      \/ /\ command[b].sid \in S
                         /\ command[b].type = "ADD_PEER"
                         /\ command[b].status = "PENDING"
                         /\ old[b] = [command[b] EXCEPT !.status = "FAILED"]
  OBVIOUS
<1>5. /\ old \in Seq(CommandRows) /\ Len(old) = Len(command)
  <2>1. ASSUME NEW b \in Cids PROVE old[b] \in CommandRows
    <3>1. command[b] \in CommandRows
      BY <1>3
    <3> QED
      BY <1>4, <3>1 DEF CommandRows
  <2>2. old \in [1 .. Len(command) -> CommandRows]
    BY <1>3, <2>1
  <2> HIDE DEF old
  <2> QED
    BY <1>3, <2>2
<1>6. new \in Seq(CommandRows) /\ Len(new) = k
  <2>1. new \in [1 .. k -> CommandRows]
    BY NewCommandType
  <2> HIDE DEF new
  <2> QED
    BY <1>1, <2>1
<1>7. \A j \in 1 .. k : \E s \in S : new[j] = NewCommand("REMOVE_PEER", s)
  OBVIOUS
<1> HIDE DEF old, new
<1>8. command' = old \o new
  BY <1>2 DEF new
<1>9. Cids' = 1 .. Len(command) + k
  BY <1>1, <1>3, <1>5, <1>6, <1>8 DEF Cids
<1>10. \A b \in Cids : command'[b] = old[b]
  BY <1>3, <1>5, <1>6, <1>8
<1>11. \A j \in 1 .. k : command'[Len(command) + j] = new[j]
  BY <1>1, <1>3, <1>5, <1>6, <1>8
<1>12. ASSUME NEW c \in Cids' \ Cids
       PROVE  \E s \in S : command'[c] = NewCommand("REMOVE_PEER", s)
  <2>1. c - Len(command) \in 1 .. k /\ c = Len(command) + (c - Len(command))
    BY <1>1, <1>3, <1>9
  <2>2. PICK j \in 1 .. k : c = Len(command) + j
    BY <2>1
  <2>3. command'[c] = new[j]
    BY <1>11, <2>2
  <2> QED
    BY <1>7, <2>3
<1> QED
  BY <1>4, <1>10, <1>12

\* What a step can do to a command that is in the queue.
LEMMA CommandStep ==
  ASSUME TableInv, [Next]_vars, NEW c \in Cids
  PROVE  \/ command'[c] = command[c]
         \/ \E n \in Nodes :
               /\ ServeHeartbeat(n) /\ c \in Claimed(n)
               /\ command'[c] = [command[c] EXCEPT !.status = "DELIVERED", !.tries = @ + 1]
         \/ /\ command[c].type = "ADD_PEER"
            /\ command[c].status = "PENDING"
            /\ command'[c] = [command[c] EXCEPT !.status = "FAILED"]
            /\ command[c].sid \notin Live'
         \/ /\ RequeueStale(c)
            /\ \E st \in {"PENDING", "FAILED"} :
                  command'[c] = [command[c] EXCEPT !.status = st]
         \/ /\ Answered(c)
            /\ \E st \in {"DONE", "FAILED"} :
                  command'[c] = [command[c] EXCEPT !.status = st]
            /\ command'[c].status = "DONE" => command[c].status = "DONE" \/ Confirmed(c)
<1>0. /\ TypeInv /\ TypeOK /\ command \in Seq(CommandRows)
      /\ command[c] \in CommandRows /\ c \in Nat
      /\ Cids = 1 .. Len(command)
      /\ session \in [Sids -> SessionRows]
  BY RowOfCommand DEF TableInv, TypeInv, TypeOK, Cids
<1>1. CASE command' = command
  BY <1>1
<1>2. ASSUME NEW r \in Requests, CloseEnqueue(r) \/ CreateSession(r)
      PROVE  command'[c] = command[c]
  <2>1. PICK x : command' = Append(command, x)
    BY <1>2 DEF CloseEnqueue, CreateSession
  <2> QED
    BY <1>0, <2>1
<1>3. ASSUME NEW S \in SUBSET Live, CloseInTransaction(S)
      PROVE  \/ command'[c] = command[c]
             \/ /\ command[c].type = "ADD_PEER"
                /\ command[c].status = "PENDING"
                /\ command'[c] = [command[c] EXCEPT !.status = "FAILED"]
                /\ command[c].sid \notin Live'
  <2>1. \/ command'[c] = command[c]
        \/ /\ command[c].sid \in S
           /\ command[c].type = "ADD_PEER"
           /\ command[c].status = "PENDING"
           /\ command'[c] = [command[c] EXCEPT !.status = "FAILED"]
    BY <1>0, <1>3, LiveIsSids, CloseInTransactionRows
  <2>2. session' = [t \in Sids |-> IF t \in S
            THEN [session[t] EXCEPT !.status = "CLOSED"] ELSE session[t]]
    BY <1>3 DEF CloseInTransaction
  <2>3. command[c].sid \in S => command[c].sid \notin Live'
    BY <1>0, <2>2, LiveIsSids DEF Live, IsLive, LiveStates, SessionRows
  <2> QED
    BY <2>1, <2>3
<1>4. ASSUME NEW n \in Nodes, ServeHeartbeat(n)
      PROVE  \/ command'[c] = command[c]
             \/ /\ c \in Claimed(n)
                /\ command'[c] = [command[c] EXCEPT !.status = "DELIVERED", !.tries = @ + 1]
             \/ /\ command[c].type = "ADD_PEER"
                /\ command[c].status = "PENDING"
                /\ command'[c] = [command[c] EXCEPT !.status = "FAILED"]
                /\ command[c].sid \notin Live'
  <2>1. command' = [b \in Cids |->
         IF b \in Stale(n) THEN [command[b] EXCEPT !.status = "FAILED"]
         ELSE IF b \in Claimed(n)
              THEN [command[b] EXCEPT !.status = "DELIVERED", !.tries = @ + 1]
              ELSE command[b]]
    BY <1>4 DEF ServeHeartbeat
  <2>2. session' = session
    BY <1>4 DEF ServeHeartbeat
  <2>3. c \in Stale(n) => /\ command[c].type = "ADD_PEER"
                          /\ command[c].status = "PENDING"
                          /\ command[c].sid \notin Live'
    BY <2>2 DEF Stale, Live, IsLive
  <2> QED
    BY <2>1, <2>3
<1>5. ASSUME NEW b \in Cids, RequeueStale(b)
      PROVE  \/ command'[c] = command[c]
             \/ /\ RequeueStale(c)
                /\ \E st \in {"PENDING", "FAILED"} :
                      command'[c] = [command[c] EXCEPT !.status = st]
  <2>1. PICK st \in {"PENDING", "FAILED"} : command' = [command EXCEPT ![b].status = st]
    BY <1>5 DEF RequeueStale
  <2>2. CASE b = c
    BY <1>0, <1>5, <2>1, <2>2
  <2>3. CASE b # c
    BY <1>0, <2>1, <2>3
  <2> QED
    BY <2>2, <2>3
<1>6. ASSUME NEW b \in Cids, NEW ok \in BOOLEAN, command' = Completed(b, ok)
      PROVE  \/ command'[c] = command[c]
             \/ /\ b = c
                /\ \E st \in {"DONE", "FAILED"} :
                      command'[c] = [command[c] EXCEPT !.status = st]
                /\ command'[c].status = "DONE" => command[c].status = "DONE" \/ ok
  <2>1. PICK st : /\ command' = [command EXCEPT ![b].status = st]
                  /\ \/ st = command[b].status
                     \/ st = "DONE" /\ ok
                     \/ st = "FAILED"
    BY <1>6 DEF Completed
  <2>2. CASE b = c
    <3>1. command'[c] = [command[c] EXCEPT !.status = st]
      BY <1>0, <2>1, <2>2
    <3>2. st = command[c].status => command'[c] = command[c]
      BY <1>0, <3>1 DEF CommandRows
    <3>3. command'[c].status = st
      BY <1>0, <3>1 DEF CommandRows
    <3> QED
      BY <2>1, <2>2, <3>1, <3>2, <3>3
  <2>3. CASE b # c
    BY <1>0, <2>1, <2>3
  <2> QED
    BY <2>2, <2>3
<1> QED
  BY <1>0, <1>1, <1>2, <1>3, <1>4, <1>5, <1>6, QueueUnchanged DEF QueueSteps

\* What a step can add to the queue, after all that is there.
LEMMA NewRows ==
  ASSUME TypeInv, [Next]_vars, NEW c \in Cids' \ Cids
  PROVE  /\ command'[c].status = "PENDING" /\ command'[c].tries = 0
         /\ \A b \in Cids : b < c
         /\ \/ \E r \in Requests :
                 /\ CloseEnqueue(r)
                 /\ command'[c].type = "REMOVE_PEER" /\ command'[c].sid = job[r].sid
            \/ \E r \in Requests :
                 /\ CreateSession(r)
                 /\ Cids' = Cids \cup {c}
                 /\ command'[c].type = "ADD_PEER" /\ command'[c].sid = Least(Unused)
            \/ \E S \in SUBSET Live :
                 /\ CloseInTransaction(S)
                 /\ command'[c].type = "REMOVE_PEER" /\ command'[c].sid \in S
<1>0. /\ TypeOK /\ command \in Seq(CommandRows)
      /\ Len(command) \in Nat /\ Cids = 1 .. Len(command)
  BY DEF TypeInv, TypeOK, Cids
<1>1. c \in Nat /\ \A b \in Cids : b < c
  <2>1. TypeOK'
    BY TypeStep DEF TypeInv
  <2>2. Cids' = 1 .. Len(command') /\ Len(command') \in Nat
    BY <2>1 DEF TypeOK, Cids
  <2> QED
    BY <1>0, <2>2
<1>2. ASSUME NEW r \in Requests, NEW x, command' = Append(command, x)
      PROVE  command'[c] = x /\ Cids' = Cids \cup {c}
  <2>1. Cids' = 1 .. Len(command) + 1
    BY <1>0, <1>2 DEF Cids
  <2>2. c = Len(command) + 1
    BY <1>0, <2>1
  <2> QED
    BY <1>0, <1>2, <2>1, <2>2
<1>3. ASSUME NEW r \in Requests, CloseEnqueue(r)
      PROVE  command'[c] = NewCommand("REMOVE_PEER", job[r].sid)
  BY <1>2, <1>3 DEF CloseEnqueue
<1>4. ASSUME NEW r \in Requests, CreateSession(r)
      PROVE  /\ command'[c] = NewCommand("ADD_PEER", Least(Unused))
             /\ Cids' = Cids \cup {c}
  BY <1>2, <1>4 DEF CreateSession
<1>5. ASSUME NEW S \in SUBSET Live, CloseInTransaction(S)
      PROVE  \E s \in S : command'[c] = NewCommand("REMOVE_PEER", s)
  BY <1>0, <1>5, LiveIsSids, CloseInTransactionRows
<1>6. ASSUME NEW b \in Cids, NEW ok \in BOOLEAN, command' = Completed(b, ok)
      PROVE  FALSE
  BY <1>0, <1>6, CompletedKeeps DEF Cids
<1>7. ASSUME NEW n \in Nodes, ServeHeartbeat(n) PROVE FALSE
  BY <1>0, <1>7, HeartbeatKeeps
<1>8. ASSUME NEW b \in Cids, RequeueStale(b) PROVE FALSE
  <2>1. PICK st : command' = [command EXCEPT ![b].status = st]
    BY <1>8 DEF RequeueStale
  <2> QED
    BY <1>0, <2>1 DEF Cids
<1>9. ASSUME command' = command PROVE FALSE
  BY <1>9 DEF Cids
<1>10. \A type, s : /\ NewCommand(type, s).status = "PENDING"
                     /\ NewCommand(type, s).tries = 0
                     /\ NewCommand(type, s).type = type
                     /\ NewCommand(type, s).sid = s
  BY DEF NewCommand
<1>11. \/ \E r \in Requests : CloseEnqueue(r)
       \/ \E r \in Requests : CreateSession(r)
       \/ \E S \in SUBSET Live : CloseInTransaction(S)
  BY <1>6, <1>7, <1>8, <1>9, QueueUnchanged DEF QueueSteps
<1>12. CASE \E r \in Requests : CloseEnqueue(r)
  BY <1>1, <1>3, <1>10, <1>12
<1>13. CASE \E r \in Requests : CreateSession(r)
  BY <1>1, <1>4, <1>10, <1>13
<1>14. CASE \E S \in SUBSET Live : CloseInTransaction(S)
  <2>1. PICK S \in SUBSET Live : CloseInTransaction(S)
    BY <1>14
  <2>2. PICK s \in S : command'[c] = NewCommand("REMOVE_PEER", s)
    BY <1>5, <2>1
  <2> QED
    BY <1>1, <1>10, <2>1, <2>2
<1> QED
  BY <1>11, <1>12, <1>13, <1>14

\* A heartbeat claims the oldest: what is older than a claimed command is
\* claimed with it.
LEMMA ClaimsOldest ==
  ASSUME TypeOK, NEW n \in Nodes, NEW c \in Claimed(n), NEW b \in Deliverable(n), b < c
  PROVE  b \in Claimed(n)
<1> DEFINE B == {x \in Deliverable(n) : x < b}
           C == {x \in Deliverable(n) : x < c}
<1>1. Cids = 1 .. Len(command) /\ Len(command) \in Nat
  BY DEF TypeOK, Cids
<1>2. Deliverable(n) \subseteq Cids /\ Claimed(n) \subseteq Deliverable(n)
  BY DEF Deliverable, Claimed
<1>3. IsFiniteSet(C) /\ C \subseteq Cids
  <2>1. C \subseteq Cids /\ IsFiniteSet(Cids)
    BY <1>1, <1>2, FS_Interval
  <2> QED
    BY <2>1, FS_Subset
<1>4. B \subseteq C
  <2>1. b \in Nat /\ c \in Nat
    BY <1>1, <1>2
  <2> QED
    BY <1>1, <1>2, <2>1
<1>5. IsFiniteSet(B) /\ Cardinality(B) <= Cardinality(C)
  BY <1>3, <1>4, FS_Subset
<1>6. Cardinality(B) \in Nat /\ Cardinality(C) \in Nat
  BY <1>3, <1>5, FS_CardinalityType
<1>7. Cardinality(C) < BatchLimit
  BY DEF Claimed
<1>8. Cardinality(B) < BatchLimit
  BY <1>5, <1>6, <1>7, ConstantsAssumption
<1> QED
  BY <1>8 DEF Claimed

\* A request that is to update a session row stays so until it does, or dies.
LEMMA CommitStays ==
  ASSUME TypeInv, [Next]_vars, NEW r \in Requests, job[r].pc = "commit"
  PROVE  job'[r] = job[r] \/ CloseCommit(r) \/ RequestDies(r)
<1> USE DEF serverVars, kernelVars
<1>0. job \in [Requests -> Jobs] /\ job[r] # Idle /\ job[r].pc = "commit"
  BY DEF TypeInv, TypeOK, Idle
<1>1. CASE UNCHANGED vars
  BY <1>1 DEF vars
<1>2. ASSUME NEW q \in Callers,
             \/ BeginClose(q) \/ BeginConnect(q)
             \/ BeginDisable(q) \/ BeginReclaim(q)
      PROVE  job'[r] = job[r]
  <2>1. q \in Requests /\ \E x : job' = [job EXCEPT ![q] = x]
    BY <1>2 DEF Requests, BeginClose, BeginConnect, BeginDisable, BeginReclaim, Start
  <2>2. job[q].pc = "idle"
    BY <1>2 DEF BeginClose, BeginConnect, BeginDisable, BeginReclaim, Start
  <2> QED
    BY <1>0, <2>1, <2>2
<1>3. ASSUME NEW q \in Requests,
             \/ CloseSteps(q) \/ ConnectSteps(q) \/ FinishDisable(q)
             \/ FinishReclaim(q) \/ RequestDies(q)
      PROVE  job'[r] = job[r] \/ CloseCommit(r) \/ RequestDies(r)
  <2>1. CASE q = r
    BY <1>0, <1>3, <2>1 DEF CloseSteps, ConnectSteps, CloseCheck, CloseEnqueue, FinishClose,
       CreateSession, RefuseSession, FinishDisable, FinishReclaim, AtEnd
  <2>2. CASE q # r
    BY <1>0, <1>3, <2>2 DEF CloseSteps, ConnectSteps, CloseCheck, CloseEnqueue,
       CloseCommit, FinishClose, CreateSession, RefuseSession, FinishDisable,
       FinishReclaim, AtEnd, RequestDies
  <2> QED
    BY <2>1, <2>2
<1>4. ASSUME NEW d \in Devices, RevokeDevice(d) PROVE job'[r] = job[r]
  BY <1>4 DEF RevokeDevice, CloseInTransaction
<1>5. ASSUME NEW N \in {Nodes} \cup {{n} : n \in Nodes},
             EnterMaintenance(N) \/ LeaveMaintenance(N)
      PROVE  job'[r] = job[r]
  BY <1>5 DEF EnterMaintenance, LeaveMaintenance, CloseInTransaction
<1>6. CASE \/ \E n \in Nodes : EnableNode(n)
           \/ \E c \in Cids : RequeueStale(c)
           \/ \E s \in Sids : ReclaimLease(s)
           \/ LateAck
  BY <1>6 DEF EnableNode, RequeueStale, ReclaimLease, LateAck, ServeAck
<1>7. ASSUME NEW n \in Nodes, Agent(n) PROVE job'[r] = job[r]
  <2>1. ASSUME NEW aged \in BOOLEAN, ServeReport(n, aged) PROVE job'[r] = job[r]
    <3>1. n \in Requests /\ n # r
      BY <1>0, <2>1 DEF Requests, ServeReport
    <3> QED
      BY <1>0, <2>1, <3>1 DEF ServeReport
  <2>2. CASE ~\E aged \in BOOLEAN : ServeReport(n, aged)
    BY <1>7, <2>2 DEF Agent, HeartbeatAuth, Heartbeat, HeartbeatReplyLost,
       ServeHeartbeat, Execute, ExecuteFails, Ack, ServeAck, AckFails,
       AckTimesOut, AckInterrupted, EndTick, DumpPeers, ReportFails, CleanPeers,
       AgentRestart, NodeReboot
  <2> QED
    BY <2>1, <2>2
<1> QED
  BY <1>1, <1>2, <1>3, <1>4, <1>5, <1>6, <1>7 DEF Next, Server

\* What a step can do to the agent of node n and to its kernel.
LEMMA AgentMoves ==
  ASSUME TypeInv, [Next]_vars, NEW n \in Nodes
  PROVE  \/ /\ agent'[n] = agent[n] /\ peer'[n] = peer[n] /\ route'[n] = route[n]
         \/ /\ peer'[n] = peer[n] /\ route'[n] = route[n]
            /\ agent'[n].pc # "ack"
            /\ agent'[n].ok \in {TRUE, agent[n].ok}
            /\ \/ agent'[n].batch \subseteq agent[n].batch
               \/ ServeHeartbeat(n) /\ agent'[n].batch \subseteq Claimed(n)
         \/ Execute(n) \/ ExecuteFails(n) \/ CleanPeers(n) \/ NodeReboot(n)
<1> USE DEF serverVars, kernelVars
<1>0. agent \in [Nodes -> Agents] /\ agent[n] \in Agents
  BY DEF TypeInv, TypeOK
<1> DEFINE Same == agent'[n] = agent[n] /\ peer'[n] = peer[n] /\ route'[n] = route[n]
           Moves == /\ peer'[n] = peer[n] /\ route'[n] = route[n]
                    /\ agent'[n].pc # "ack"
                    /\ agent'[n].ok \in {TRUE, agent[n].ok}
                    /\ \/ agent'[n].batch \subseteq agent[n].batch
                       \/ ServeHeartbeat(n) /\ agent'[n].batch \subseteq Claimed(n)
<1>1. ASSUME UNCHANGED <<agent, peer, route>> PROVE Same
  BY <1>1
<1>2. ASSUME agent'[n] = Resting, UNCHANGED kernelVars PROVE Moves
  BY <1>2 DEF Resting
<1>3. CASE UNCHANGED vars
  BY <1>3 DEF vars
<1>4. ASSUME NEW r \in Callers,
             \/ BeginClose(r) \/ BeginConnect(r)
             \/ BeginDisable(r) \/ BeginReclaim(r)
      PROVE  Same
  BY <1>4 DEF BeginClose, BeginConnect, BeginDisable, BeginReclaim, Start
<1>5. ASSUME NEW r \in Requests,
             \/ CloseSteps(r) \/ ConnectSteps(r) \/ FinishDisable(r)
             \/ FinishReclaim(r)
      PROVE  Same
  BY <1>5 DEF CloseSteps, ConnectSteps, CloseCheck, CloseEnqueue, CloseCommit,
     FinishClose, CreateSession, RefuseSession, FinishDisable, FinishReclaim
<1>6. ASSUME NEW r \in Requests, RequestDies(r) PROVE Same \/ Moves
  BY <1>2, <1>6 DEF RequestDies
<1>7. ASSUME NEW d \in Devices, RevokeDevice(d) PROVE Same
  BY <1>7 DEF RevokeDevice, CloseInTransaction
<1>8. ASSUME NEW N \in {Nodes} \cup {{m} : m \in Nodes},
             EnterMaintenance(N) \/ LeaveMaintenance(N)
      PROVE  Same
  BY <1>8 DEF EnterMaintenance, LeaveMaintenance, CloseInTransaction
<1>9. CASE \/ \E m \in Nodes : EnableNode(m)
           \/ \E c \in Cids : RequeueStale(c)
           \/ \E s \in Sids : ReclaimLease(s)
           \/ LateAck
  BY <1>9 DEF EnableNode, RequeueStale, ReclaimLease, LateAck, ServeAck
<1>10. ASSUME NEW m \in Nodes, Agent(m), m # n PROVE Same
  <2>0. /\ peer \in [Nodes -> [Devices -> Sids \cup {0}]]
        /\ route \in [Nodes -> [Ips -> Devices \cup {None}]]
    BY DEF TypeInv, TypeOK
  <2>1. CASE Execute(m) \/ ExecuteFails(m)
    BY <1>0, <1>10, <2>0, <2>1 DEF Execute, ExecuteFails, Apply, AddPeer, RemovePeers
  <2>2. CASE CleanPeers(m) \/ NodeReboot(m)
    BY <1>0, <1>10, <2>0, <2>2 DEF CleanPeers, NodeReboot, RemovePeers
  <2>3. CASE ~(Execute(m) \/ ExecuteFails(m) \/ CleanPeers(m) \/ NodeReboot(m))
    BY <1>0, <1>10, <2>3 DEF Agent, HeartbeatAuth, Heartbeat, HeartbeatReplyLost,
       ServeHeartbeat, Ack, ServeAck, NextCommand, AckFails, AckTimesOut,
       AckInterrupted, EndTick, DumpPeers, ServeReport, ReportFails, AgentRestart
  <2> QED
    BY <2>1, <2>2, <2>3
<1>11. ASSUME Agent(n), ~(Execute(n) \/ ExecuteFails(n) \/ CleanPeers(n) \/ NodeReboot(n))
       PROVE  Moves
  <2>1. CASE HeartbeatAuth(n)
    BY <1>0, <2>1 DEF HeartbeatAuth, Agents
  <2>2. CASE Heartbeat(n)
    BY <1>0, <2>2 DEF Heartbeat, ServeHeartbeat, Agents
  <2>3. CASE \/ HeartbeatReplyLost(n) \/ EndTick(n) \/ ReportFails(n)
             \/ AgentRestart(n)
    BY <1>0, <1>2, <2>3 DEF HeartbeatReplyLost, ServeHeartbeat, EndTick,
       ReportFails, AgentRestart
  <2>4. ASSUME NextCommand(n), UNCHANGED kernelVars PROVE Moves
    BY <1>0, <2>4 DEF NextCommand, Agents
  <2>5. CASE Ack(n) \/ AckFails(n) \/ AckTimesOut(n) \/ AckInterrupted(n)
    BY <2>4, <2>5 DEF Ack, ServeAck, AckFails, AckTimesOut, AckInterrupted
  <2>6. CASE DumpPeers(n)
    BY <1>0, <2>6 DEF DumpPeers, Agents
  <2>7. CASE \E aged \in BOOLEAN : ServeReport(n, aged)
    BY <1>0, <2>7 DEF ServeReport, Agents
  <2> QED
    BY <1>11, <2>1, <2>2, <2>3, <2>5, <2>6, <2>7 DEF Agent
<1> QED
  BY <1>1, <1>3, <1>4, <1>5, <1>6, <1>7, <1>8, <1>9, <1>10, <1>11
     DEF Next, Server

\* An ack on its way was on its way, or its agent has just given up on it.
LEMMA LateStep ==
  ASSUME TypeInv, [Next]_vars, NEW m \in late'
  PROVE  \/ m \in late
         \/ \E n \in Nodes : /\ AckTimesOut(n)
                             /\ m = [cid |-> Least(agent[n].batch), ok |-> agent[n].ok]
<1> USE DEF serverVars, kernelVars
<1>1. CASE UNCHANGED vars
  BY <1>1 DEF vars
<1>2. ASSUME NEW r \in Callers,
             \/ BeginClose(r) \/ BeginConnect(r)
             \/ BeginDisable(r) \/ BeginReclaim(r)
      PROVE  m \in late
  BY <1>2 DEF BeginClose, BeginConnect, BeginDisable, BeginReclaim, Start
<1>3. ASSUME NEW r \in Requests,
             \/ CloseSteps(r) \/ ConnectSteps(r) \/ FinishDisable(r)
             \/ FinishReclaim(r) \/ RequestDies(r)
      PROVE  m \in late
  BY <1>3 DEF CloseSteps, ConnectSteps, CloseCheck, CloseEnqueue, CloseCommit,
     FinishClose, CreateSession, RefuseSession, FinishDisable, FinishReclaim,
     RequestDies
<1>4. ASSUME NEW d \in Devices, RevokeDevice(d) PROVE m \in late
  BY <1>4 DEF RevokeDevice, CloseInTransaction
<1>5. ASSUME NEW N \in {Nodes} \cup {{n} : n \in Nodes},
             EnterMaintenance(N) \/ LeaveMaintenance(N)
      PROVE  m \in late
  BY <1>5 DEF EnterMaintenance, LeaveMaintenance, CloseInTransaction
<1>6. CASE \/ \E n \in Nodes : EnableNode(n)
           \/ \E c \in Cids : RequeueStale(c)
           \/ \E s \in Sids : ReclaimLease(s)
           \/ LateAck
  BY <1>6 DEF EnableNode, RequeueStale, ReclaimLease, LateAck
<1>7. ASSUME NEW n \in Nodes, Agent(n), ~AckTimesOut(n) PROVE m \in late
  BY <1>7 DEF Agent, HeartbeatAuth, Heartbeat, HeartbeatReplyLost,
     ServeHeartbeat, Execute, ExecuteFails, Ack, ServeAck, AckFails,
     AckInterrupted, EndTick, DumpPeers, ServeReport, ReportFails, CleanPeers,
     AgentRestart, NodeReboot
<1>8. ASSUME NEW n \in Nodes, AckTimesOut(n)
      PROVE  m \in late \/ m = [cid |-> Least(agent[n].batch), ok |-> agent[n].ok]
  BY <1>8 DEF AckTimesOut
<1> QED
  BY <1>1, <1>2, <1>3, <1>4, <1>5, <1>6, <1>7, <1>8 DEF Next, Server

\* An answer is due once the agent has carried the command out, and says so if
\* it did not fail.
LEMMA AnswerStep ==
  ASSUME TypeInv, [Next]_vars, NEW c
  PROVE  /\ Answered(c)' => \/ Answered(c)
                            \/ \E n \in Nodes : /\ Execute(n) \/ ExecuteFails(n)
                                                /\ c = Least(agent[n].batch)
         /\ Confirmed(c)' => \/ Confirmed(c)
                             \/ \E n \in Nodes : Execute(n) /\ c = Least(agent[n].batch)
<1>0. agent \in [Nodes -> Agents]
  BY DEF TypeInv, TypeOK
<1>1. ASSUME NEW m \in late', m.cid = c
      PROVE  Answered(c) /\ (m.ok => Confirmed(c))
  <2>1. CASE m \in late
    BY <1>1, <2>1 DEF Answered, Confirmed
  <2>2. ASSUME NEW n \in Nodes, AckTimesOut(n),
               m = [cid |-> Least(agent[n].batch), ok |-> agent[n].ok]
        PROVE  Answered(c) /\ (m.ok => Confirmed(c))
    BY <1>1, <2>2 DEF AckTimesOut, Answered, Confirmed
  <2> QED
    BY <2>1, <2>2, LateStep
<1>2. ASSUME NEW n \in Nodes, agent'[n].pc = "ack", Least(agent'[n].batch) = c
      PROVE  /\ \/ Answered(c)
                \/ (Execute(n) \/ ExecuteFails(n)) /\ c = Least(agent[n].batch)
             /\ agent'[n].ok => \/ Confirmed(c)
                                \/ Execute(n) /\ c = Least(agent[n].batch)
  <2>0. agent[n] \in Agents
    BY <1>0
  <2>1. CASE agent'[n] = agent[n]
    BY <1>2, <2>1 DEF Answered, Confirmed
  <2>2. CASE Execute(n)
    BY <1>0, <1>2, <2>0, <2>2 DEF Execute, Agents
  <2>3. CASE ExecuteFails(n)
    BY <1>0, <1>2, <2>0, <2>3 DEF ExecuteFails, Agents
  <2>4. CASE CleanPeers(n) \/ NodeReboot(n)
    BY <1>0, <1>2, <2>4 DEF CleanPeers, NodeReboot, Resting
  <2> QED
    BY <1>2, <2>1, <2>2, <2>3, <2>4, AgentMoves
<1>3. Answered(c)' => \/ \E n \in Nodes : agent'[n].pc = "ack" /\ Least(agent'[n].batch) = c
                      \/ \E m \in late' : m.cid = c
  BY DEF Answered, Least
<1>4. Confirmed(c)' => \/ \E n \in Nodes : agent'[n].pc = "ack" /\ agent'[n].ok /\ Least(agent'[n].batch) = c
                       \/ \E m \in late' : m.cid = c /\ m.ok
  BY DEF Confirmed, Least
<1> QED
  BY <1>1, <1>2, <1>3, <1>4

\* The row, the lease and the command that the creation of a session inserts.
LEMMA Creation ==
  ASSUME TypeInv, NEW r \in Requests, CreateSession(r)
  PROVE  LET s == Least(Unused)
             d == job[r].dev
             n == job[r].node
         IN /\ s \in Sids /\ session[s].status = "NONE"
            /\ d \in Devices /\ n \in Nodes /\ LiveOfDevice(d) = {}
            /\ \E ip \in Ips :
                 /\ lease[n][ip] = 0
                 /\ session' = [session EXCEPT ![s] =
                       [status |-> "PENDING", dev |-> d, node |-> n, ip |-> ip]]
                 /\ lease' = [lease EXCEPT ![n][ip] = s]
            /\ \E a \in Cids' \ Cids :
                 command'[a].type = "ADD_PEER" /\ command'[a].sid = s
<1> DEFINE s == Least(Unused)
           d == job[r].dev
           n == job[r].node
           free == {i \in Ips : lease[n][i] = 0}
<1>1. s \in Sids /\ session[s].status = "NONE"
  BY UnusedLeast DEF CreateSession, Unused
<1>2. d \in Devices /\ n \in Nodes
  BY DEF TypeInv, Busy, CreateSession, AtEnd
<1>3. LiveOfDevice(d) = {} /\ free # {}
  BY DEF CreateSession, MayCreate
<1>4. Least(free) \in free
  BY <1>3, LeastIsMember, ConstantsAssumption
<1>5. /\ command \in Seq(CommandRows) /\ Cids = 1 .. Len(command) /\ Len(command) \in Nat
      /\ command' = Append(command, NewCommand("ADD_PEER", s))
  BY DEF TypeInv, TypeOK, Cids, CreateSession
<1>6. Len(command) + 1 \in Cids' \ Cids
  BY <1>5 DEF Cids
<1>7. command'[Len(command) + 1] = NewCommand("ADD_PEER", s)
  BY <1>5
<1>8. NewCommand("ADD_PEER", s).type = "ADD_PEER" /\ NewCommand("ADD_PEER", s).sid = s
  BY DEF NewCommand
<1> QED
  BY <1>1, <1>2, <1>3, <1>4, <1>6, <1>7, <1>8 DEF CreateSession

\* The commands of one session: a step adds removals to those there are, and
\* an addition when it creates the session.
LEMMA SessionQueue ==
  ASSUME PeerInv, [Next]_vars, NEW s \in Sids
  PROVE  /\ Additions(s) \subseteq Additions(s)' /\ Removals(s) \subseteq Removals(s)'
         /\ \A c \in Removals(s)' : c \in Removals(s) \/ c \in Cids' \ Cids
         /\ \A c \in Additions(s)' : \/ c \in Additions(s)
                                     \/ /\ c \in Cids' \ Cids
                                        /\ Cids' = Cids \cup {c}
                                        /\ \E r \in Requests :
                                             CreateSession(r) /\ s = Least(Unused)
         /\ session[s].status = "NONE" => /\ Additions(s) = {} /\ Removals(s) = {}
                                          /\ Removals(s)' = {}
<1>0. TypeInv /\ TableInv
  BY DEF PeerInv, TableInv
<1>1. Additions(s) \subseteq Additions(s)' /\ Removals(s) \subseteq Removals(s)'
  BY <1>0, QueueKept DEF Additions, Removals
<1>2. \A c \in Removals(s)' : c \in Removals(s) \/ c \in Cids' \ Cids
  BY <1>0, QueueKept DEF Removals
<1>3. ASSUME NEW c \in Additions(s)', c \notin Additions(s)
      PROVE  /\ c \in Cids' \ Cids
             /\ Cids' = Cids \cup {c}
             /\ \E r \in Requests : CreateSession(r) /\ s = Least(Unused)
  <2>1. c \in Cids' \ Cids /\ command'[c].type = "ADD_PEER" /\ command'[c].sid = s
    BY <1>0, <1>3, QueueKept DEF Additions
  <2> QED
    BY <1>0, <2>1, NewRows
<1>4. session[s].status = "NONE" => Additions(s) = {} /\ Removals(s) = {}
  BY DEF PeerInv, CommandsKnown, Additions, Removals
<1>5. ASSUME session[s].status = "NONE", NEW c \in Removals(s)' PROVE FALSE
  <2>1. c \in Cids' \ Cids /\ command'[c].type = "REMOVE_PEER" /\ command'[c].sid = s
    BY <1>2, <1>4, <1>5 DEF Removals
  <2>2. \A r \in Requests : CloseEnqueue(r) => session[job[r].sid].status # "NONE"
    BY <1>0 DEF CloseEnqueue, TableInv, InHand
  <2>3. \A t \in Live : session[t].status # "NONE"
    BY DEF Live, IsLive, LiveStates
  <2> QED
    BY <1>0, <1>5, <2>1, <2>2, <2>3, NewRows
<1> QED
  BY <1>1, <1>2, <1>3, <1>4, <1>5

-----------------------------------------------------------------------------
(***************************************************************************)
(* The order of the queue.                                                 *)
(***************************************************************************)
\* A row in use names a device, a node and an address of the node's pool.
RowsFull ==
    \A s \in Sids : session[s].status # "NONE" =>
        /\ session[s].dev \in Devices
        /\ session[s].node \in Nodes
        /\ session[s].ip \in Ips
\* A session has one ADD_PEER, and it precedes every removal of the session.
AdditionLeads ==
    \A s \in Sids :
        /\ session[s].status # "NONE" => Additions(s) # {}
        /\ \A a, b \in Additions(s) : a = b
        /\ \A a \in Additions(s), c \in Removals(s) : a < c
\* The ADD_PEER of a live session is the youngest of its device.
AdditionNewest ==
    \A s \in Live, t \in Sids : session[t].dev = session[s].dev =>
        \A a \in Additions(s), b \in Additions(t) : b <= a
\* What an agent has, what is answered and what is done was delivered; so was
\* every removal that is no longer pending.
Delivered ==
    /\ \A c \in Cids :
          \/ command[c].status \in {"DELIVERED", "DONE"}
          \/ command[c].type = "REMOVE_PEER" /\ command[c].status # "PENDING"
          => command[c].tries > 0
    /\ \A n \in Nodes : \A c \in agent[n].batch : command[c].tries > 0
    /\ \A c \in Cids : Answered(c) => command[c].tries > 0

\* The inductive invariant about the order of the queue.
QueueInv ==
    /\ PeerInv
    /\ RowsFull
    /\ AdditionLeads
    /\ AdditionNewest
    /\ Delivered

\* A row is filled in when it is created, and keeps what it names.
LEMMA RowsFullStep ==
  ASSUME PeerInv, RowsFull, [Next]_vars
  PROVE  RowsFull'
<1>0. TypeInv /\ TableInv /\ session \in [Sids -> SessionRows]
  BY DEF PeerInv, TableInv, TypeInv, TypeOK
<1>1. SUFFICES ASSUME NEW s \in Sids, session'[s].status # "NONE"
               PROVE  /\ session'[s].dev \in Devices
                      /\ session'[s].node \in Nodes
                      /\ session'[s].ip \in Ips
  BY DEF RowsFull
<1>2. CASE session[s].status # "NONE"
  BY <1>0, <1>2, UsedRow DEF RowsFull
<1>3. CASE session[s].status = "NONE"
  <2>1. PICK r \in Requests : CreateSession(r)
    BY <1>0, <1>1, <1>3, RowStep DEF TableInv
  <2>2. PICK ip \in Ips : session' = [session EXCEPT ![Least(Unused)] =
            [status |-> "PENDING", dev |-> job[r].dev, node |-> job[r].node, ip |-> ip]]
    BY <1>0, <2>1, Creation
  <2>3. s = Least(Unused)
    BY <1>0, <1>1, <1>3, <2>2
  <2> QED
    BY <1>0, <2>1, <2>2, <2>3, Creation
<1> QED
  BY <1>2, <1>3

\* The transaction that creates a session queues its ADD_PEER, once and first.
LEMMA AdditionLeadsStep ==
  ASSUME PeerInv, AdditionLeads, [Next]_vars
  PROVE  AdditionLeads'
<1>0. TypeInv /\ TableInv /\ session \in [Sids -> SessionRows]
  BY DEF PeerInv, TableInv, TypeInv, TypeOK
<1>1. ASSUME NEW s \in Sids, session'[s].status # "NONE" PROVE Additions(s)' # {}
  <2>1. CASE session[s].status # "NONE"
    BY <2>1, SessionQueue DEF AdditionLeads
  <2>2. CASE session[s].status = "NONE"
    <3>1. PICK r \in Requests : CreateSession(r)
      BY <1>0, <1>1, <2>2, RowStep DEF TableInv
    <3>2. s = Least(Unused)
      BY <1>0, <1>1, <2>2, <3>1, Creation
    <3>3. \E a \in Cids' : command'[a].type = "ADD_PEER" /\ command'[a].sid = s
      BY <1>0, <3>1, <3>2, Creation
    <3> QED
      BY <3>3 DEF Additions
  <2> QED
    BY <2>1, <2>2
<1>2. ASSUME NEW s \in Sids, NEW a \in Additions(s)', NEW b \in Additions(s)' PROVE a = b
  <2>1. session[s].status = "NONE" => Additions(s) = {}
    BY SessionQueue
  <2>2. a \notin Additions(s) \/ b \notin Additions(s) => session[s].status = "NONE"
    BY <1>0, SessionQueue, Creation
  <2> QED
    BY <2>1, <2>2, SessionQueue DEF AdditionLeads
<1>3. ASSUME NEW s \in Sids, NEW a \in Additions(s)', NEW c \in Removals(s)' PROVE a < c
  <2>1. CASE a \in Additions(s)
    BY <1>0, <2>1, SessionQueue, NewRows DEF AdditionLeads, Additions
  <2>2. CASE a \notin Additions(s)
    <3>1. session[s].status = "NONE" /\ Cids' = Cids \cup {a} /\ a \in Cids' \ Cids
      BY <1>0, <2>2, SessionQueue, Creation
    <3>2. c = a
      BY <3>1, SessionQueue
    <3> QED
      BY <3>2 DEF Additions, Removals
  <2> QED
    BY <2>1, <2>2
<1> QED
  BY <1>1, <1>2, <1>3 DEF AdditionLeads

\* A session is created when its device has no live one, so its ADD_PEER is the
\* youngest of the device.
LEMMA AdditionNewestStep ==
  ASSUME PeerInv, AdditionNewest, [Next]_vars
  PROVE  AdditionNewest'
<1>0. TypeInv /\ TableInv /\ session \in [Sids -> SessionRows]
  BY DEF PeerInv, TableInv, TypeInv, TypeOK
<1>1. SUFFICES ASSUME NEW s \in Sids, s \in Live', NEW t \in Sids,
                      session'[t].dev = session'[s].dev,
                      NEW a \in Additions(s)', NEW b \in Additions(t)'
               PROVE  b <= a
  BY DEF AdditionNewest, Live
<1>2. \A c \in Cids' : c \in Nat
  <2>1. TypeOK'
    BY <1>0, TypeStep DEF TypeInv
  <2> QED
    BY <2>1 DEF TypeOK, Cids
<1>3. a \in Nat /\ b \in Nat
  BY <1>2 DEF Additions
<1>4. CASE s \in Live
  <2>1. session[s].status # "NONE" /\ session'[s].dev = session[s].dev
    BY <1>0, <1>4, UsedRow DEF Live, IsLive, LiveStates
  <2>2. a \in Additions(s)
    BY <1>0, <2>1, SessionQueue, Creation
  <2>3. CASE b \in Additions(t)
    <3>1. session[t].status # "NONE"
      BY <2>3, SessionQueue
    <3>2. session'[t].dev = session[t].dev
      BY <1>0, <3>1, UsedRow
    <3> QED
      BY <1>1, <1>4, <2>1, <2>2, <2>3, <3>2 DEF AdditionNewest
  <2>4. CASE b \notin Additions(t)
    <3>1. PICK r \in Requests : CreateSession(r) /\ t = Least(Unused)
      BY <2>4, SessionQueue
    <3>2. PICK ip \in Ips : session' = [session EXCEPT ![t] =
            [status |-> "PENDING", dev |-> job[r].dev, node |-> job[r].node, ip |-> ip]]
      BY <1>0, <3>1, Creation
    <3>3. session[s].dev = job[r].dev
      BY <1>0, <1>1, <2>1, <3>2
    <3> QED
      BY <1>0, <1>4, <3>1, <3>3, Creation DEF LiveOfDevice
  <2> QED
    BY <2>3, <2>4
<1>5. CASE s \notin Live
  <2>1. session[s].status = "NONE"
    BY <1>0, <1>1, <1>5, LiveStep
  <2>2. /\ a \in Cids' \ Cids /\ Cids' = Cids \cup {a}
    BY <2>1, SessionQueue
  <2>3. b \in Cids'
    BY DEF Additions
  <2>4. b \in Cids => b < a
    BY <1>0, <2>2, NewRows
  <2> QED
    BY <1>3, <2>2, <2>3, <2>4
<1> QED
  BY <1>4, <1>5

\* Deliveries are counted, never forgotten.
LEMMA TriesGrow ==
  ASSUME TableInv, [Next]_vars, NEW c \in Cids
  PROVE  /\ command[c].tries \in Nat
         /\ command'[c].tries \in Nat
         /\ command'[c].tries >= command[c].tries
         /\ \/ command'[c].tries = command[c].tries
            \/ \E n \in Nodes : ServeHeartbeat(n) /\ c \in Claimed(n)
<1>1. command[c] \in CommandRows
  BY RowOfCommand DEF TableInv, TypeInv
<1>2. command[c].tries \in Nat
  BY <1>1 DEF CommandRows
<1>3. \A st : [command[c] EXCEPT !.status = st].tries = command[c].tries
  BY <1>1 DEF CommandRows
<1>4. [command[c] EXCEPT !.status = "DELIVERED", !.tries = @ + 1].tries
          = command[c].tries + 1
  BY <1>1 DEF CommandRows
<1>5. \/ \E st : command'[c] = [command[c] EXCEPT !.status = st]
      \/ command'[c] = command[c]
      \/ /\ command'[c] = [command[c] EXCEPT !.status = "DELIVERED", !.tries = @ + 1]
         /\ \E n \in Nodes : ServeHeartbeat(n) /\ c \in Claimed(n)
  BY CommandStep
<1>6. CASE \E st : command'[c] = [command[c] EXCEPT !.status = st]
  BY <1>2, <1>3, <1>6
<1>7. CASE command'[c] = command[c]
  BY <1>2, <1>7
<1>8. CASE /\ command'[c] = [command[c] EXCEPT !.status = "DELIVERED", !.tries = @ + 1]
           /\ \E n \in Nodes : ServeHeartbeat(n) /\ c \in Claimed(n)
  <2>1. command'[c].tries = command[c].tries + 1
    BY <1>4, <1>8
  <2> QED
    BY <1>2, <1>8, <2>1
<1> QED
  BY <1>5, <1>6, <1>7, <1>8

\* What a heartbeat claims is delivered once more.
LEMMA ClaimedRow ==
  ASSUME TypeOK, NEW n \in Nodes, ServeHeartbeat(n), NEW c \in Claimed(n)
  PROVE  /\ c \in Cids
         /\ command[c].status = "PENDING"
         /\ command[c].type = "ADD_PEER" => command[c].sid \in Live
         /\ NodeOf(c) = n
         /\ command'[c] = [command[c] EXCEPT !.status = "DELIVERED", !.tries = @ + 1]
         /\ command'[c].status = "DELIVERED"
         /\ command'[c].tries = command[c].tries + 1
<1>1. /\ c \in Cids /\ c \notin Stale(n)
      /\ NodeOf(c) = n /\ command[c].status = "PENDING"
  BY DEF Claimed, Deliverable
<1>2. command'[c] = [command[c] EXCEPT !.status = "DELIVERED", !.tries = @ + 1]
  BY <1>1 DEF ServeHeartbeat
<1>3. command[c] \in CommandRows /\ command[c].sid \in Sids
  BY <1>1, RowOfCommand
<1>4. command[c].type = "ADD_PEER" => command[c].sid \in Live
  BY <1>1, <1>3 DEF Stale, Live
<1> QED
  BY <1>1, <1>2, <1>3, <1>4 DEF CommandRows

\* What is in a batch was there, or the whole batch has just been claimed.
LEMMA BatchStep ==
  ASSUME TypeInv, [Next]_vars, NEW n \in Nodes
  PROVE  \/ agent'[n].batch \subseteq agent[n].batch
         \/ ServeHeartbeat(n) /\ agent'[n].batch \subseteq Claimed(n)
<1>0. agent \in [Nodes -> Agents] /\ agent[n] \in Agents
  BY DEF TypeInv, TypeOK
<1>1. CASE Execute(n) \/ ExecuteFails(n)
  BY <1>0, <1>1 DEF Execute, ExecuteFails, Agents
<1>2. CASE CleanPeers(n) \/ NodeReboot(n)
  BY <1>0, <1>2 DEF CleanPeers, NodeReboot, Resting
<1> QED
  BY <1>1, <1>2, AgentMoves

\* What is answered is in the queue, and the agent that is to answer runs it.
LEMMA AnsweredKnown ==
  ASSUME PeerInv, NEW c
  PROVE  /\ Answered(c) => c \in Cids
         /\ Confirmed(c) => Answered(c)
         /\ \A n \in Nodes : agent[n].pc \in {"run", "ack"} /\ Least(agent[n].batch) = c
               => /\ c \in agent[n].batch /\ c \in Cids /\ NodeOf(c) = n
                  /\ \A b \in agent[n].batch : c <= b
<1>1. TypeInv /\ TypeOK
  BY DEF PeerInv, TableInv, TypeInv
<1>2. \A m \in late : m.cid \in Cids
  BY <1>1 DEF TypeOK
<1>3. ASSUME NEW n \in Nodes, agent[n].pc \in {"run", "ack"}, Least(agent[n].batch) = c
      PROVE  /\ c \in agent[n].batch /\ c \in Cids /\ NodeOf(c) = n
             /\ \A b \in agent[n].batch : c <= b
  <2>1. c \in agent[n].batch
    BY <1>1, <1>3, BatchHead
  <2>2. agent[n].batch \subseteq Nat
    BY <1>1, RowOfCommand DEF PeerInv, BatchesOwn
  <2> QED
    BY <1>3, <2>1, <2>2, LeastIsMember DEF PeerInv, BatchesOwn
<1> QED
  BY <1>2, <1>3 DEF Answered, Confirmed

\* Only a claim delivers, and nothing is answered, done or given up before it.
LEMMA DeliveredStep ==
  ASSUME PeerInv, Delivered, [Next]_vars
  PROVE  Delivered'
<1>0. TypeOK /\ TypeInv /\ TableInv
  BY DEF PeerInv, TableInv, TypeInv
<1>1. \A c \in Cids : command[c].tries > 0 => command'[c].tries > 0
  BY <1>0, TriesGrow
<1>2. ASSUME NEW c \in Cids',
             \/ command'[c].status \in {"DELIVERED", "DONE"}
             \/ command'[c].type = "REMOVE_PEER" /\ command'[c].status # "PENDING"
      PROVE  command'[c].tries > 0
  <2>1. c \in Cids
    BY <1>0, <1>2, NewRows
  <2>2. command[c] \in CommandRows /\ command'[c].type = command[c].type
    BY <1>0, <2>1, RowOfCommand, QueueKept
  <2>3. CASE command'[c] = command[c]
    BY <1>2, <2>1, <2>3 DEF Delivered
  <2>4. CASE \E n \in Nodes : ServeHeartbeat(n) /\ c \in Claimed(n)
    <3>1. command'[c].tries = command[c].tries + 1
      BY <1>0, <2>4, ClaimedRow
    <3> QED
      BY <2>2, <3>1 DEF CommandRows
  <2>5. CASE command[c].type = "ADD_PEER" /\ command'[c] = [command[c] EXCEPT !.status = "FAILED"]
    BY <1>2, <2>2, <2>5 DEF CommandRows
  <2>6. CASE RequeueStale(c)
    <3>1. command[c].tries > 0
      BY <2>1, <2>6 DEF RequeueStale, Delivered
    <3> QED
      BY <1>1, <2>1, <3>1
  <2>7. CASE Answered(c)
    BY <1>1, <2>1, <2>7 DEF Delivered
  <2> QED
    BY <1>0, <2>1, <2>3, <2>4, <2>5, <2>6, <2>7, CommandStep
<1>3. ASSUME NEW n \in Nodes, NEW c \in agent'[n].batch PROVE command'[c].tries > 0
  <2>1. CASE c \in agent[n].batch
    BY <1>1, <2>1 DEF Delivered, PeerInv, BatchesOwn
  <2>2. CASE ServeHeartbeat(n) /\ c \in Claimed(n)
    <3>1. c \in Cids /\ command'[c].tries = command[c].tries + 1
      BY <1>0, <2>2, ClaimedRow
    <3> QED
      BY <1>0, <3>1, TriesGrow
  <2> QED
    BY <1>0, <2>1, <2>2, BatchStep
<1>4. ASSUME NEW c \in Cids', Answered(c)' PROVE command'[c].tries > 0
  <2>1. CASE Answered(c)
    BY <1>1, <2>1, AnsweredKnown DEF Delivered
  <2>2. ASSUME NEW n \in Nodes, Execute(n) \/ ExecuteFails(n), c = Least(agent[n].batch)
        PROVE  command'[c].tries > 0
    <3>1. agent[n].pc = "run"
      BY <2>2 DEF Execute, ExecuteFails
    <3> QED
      BY <1>1, <2>2, <3>1, AnsweredKnown DEF Delivered
  <2> QED
    BY <1>0, <1>4, <2>1, <2>2, AnswerStep
<1> QED
  BY <1>2, <1>3, <1>4 DEF Delivered

\* At the start the queue is empty.
LEMMA QueueInit == Init => QueueInv
<1> SUFFICES ASSUME Init PROVE QueueInv
  OBVIOUS
<1>1. /\ \A s \in Sids : session[s].status = "NONE"
      /\ Cids = {} /\ Live = {}
      /\ \A n \in Nodes : agent[n].batch = {}
  BY DEF Init, NoSession, Cids, Live, IsLive, LiveStates, Resting
<1>2. \A s \in Sids : Additions(s) = {} /\ Removals(s) = {}
  BY <1>1 DEF Additions, Removals
<1> QED
  BY <1>1, <1>2, PeerInit
     DEF QueueInv, RowsFull, AdditionLeads, AdditionNewest, Delivered

\* The inductive step for the order of the queue.
LEMMA QueueStep == QueueInv /\ [Next]_vars => QueueInv'
  BY PeerStep, RowsFullStep, AdditionLeadsStep, AdditionNewestStep, DeliveredStep
     DEF QueueInv

-----------------------------------------------------------------------------
(***************************************************************************)
(* Removals.  Unless the control server dies half-way, a live session that *)
(* has a removal is about to be closed, and its addition is not delivered  *)
(* again.                                                                  *)
(***************************************************************************)
\* A live session with a removal is in the hands of a request about to close it.
CloseUnderWay ==
    \A s \in Live : Removals(s) # {} =>
        \E r \in Requests : job[r].pc = "commit" /\ job[r].sid = s
\* No removal of a live session is delivered before its addition, or while the
\* addition waits to be delivered again.
AdditionFirst ==
    \A s \in Live : \A a \in Additions(s), c \in Removals(s) :
        command[c].tries > 0 => command[a].status # "PENDING"
\* While an agent has the addition of a session, no removal of the session is
\* done and none is acknowledged late.
NoReplay ==
    \A n \in Nodes, s \in Sids : \A a \in Additions(s) \cap agent[n].batch :
        \A c \in Removals(s) :
            command[c].status # "DONE" /\ ~\E m \in late : m.cid = c
\* The peer of a session is off the node once a removal has been carried out.
RemovalHolds ==
    \A s \in Sids : \A c \in Removals(s) :
        command[c].status = "DONE" \/ Confirmed(c)
            => peer[session[s].node][session[s].dev] # s

\* The inductive invariant about removals.
RemovalInv ==
    /\ QueueInv
    /\ CloseUnderWay
    /\ AdditionFirst
    /\ NoReplay
    /\ RemovalHolds

\* closeSession enqueues and updates the row before anything else it does, so a
\* live session with a removal is about to be closed, unless the request dies.
LEMMA CloseUnderWayStep ==
  ASSUME "server_crash" \notin Events, PeerInv, CloseUnderWay, [Next]_vars
  PROVE  CloseUnderWay'
<1>0. /\ TypeInv /\ TableInv /\ session \in [Sids -> SessionRows]
      /\ job \in [Requests -> Jobs]
  BY DEF PeerInv, TableInv, TypeInv, TypeOK
<1>1. SUFFICES ASSUME NEW s \in Sids, s \in Live', NEW c \in Removals(s)'
               PROVE  \E r \in Requests : job'[r].pc = "commit" /\ job'[r].sid = s
  BY DEF CloseUnderWay, Live
<1>2. s \in Live
  BY <1>0, <1>1, LiveStep, SessionQueue
<1>3. CASE c \in Removals(s)
  <2>1. PICK r \in Requests : job[r].pc = "commit" /\ job[r].sid = s
    BY <1>2, <1>3 DEF CloseUnderWay
  <2>2. ~RequestDies(r)
    BY DEF RequestDies, Happens
  <2>3. ~CloseCommit(r)
    BY <1>0, <1>1, <2>1 DEF CloseCommit, Live, IsLive, LiveStates, SessionRows
  <2> QED
    BY <1>0, <2>1, <2>2, <2>3, CommitStays
<1>4. CASE c \notin Removals(s)
  <2>1. c \in Cids' \ Cids /\ command'[c].type = "REMOVE_PEER" /\ command'[c].sid = s
    BY <1>4, SessionQueue DEF Removals
  <2>2. ASSUME NEW r \in Requests, CloseEnqueue(r), s = job[r].sid
        PROVE  job'[r].pc = "commit" /\ job'[r].sid = s
    BY <1>0, <2>2 DEF CloseEnqueue, Jobs
  <2>3. ASSUME NEW S \in SUBSET Live, CloseInTransaction(S), s \in S PROVE FALSE
    <3>1. session'[s] = [session[s] EXCEPT !.status = "CLOSED"]
      BY <2>3 DEF CloseInTransaction
    <3> QED
      BY <1>0, <1>1, <3>1 DEF Live, IsLive, LiveStates, SessionRows
  <2> QED
    BY <1>0, <2>1, <2>2, <2>3, NewRows
<1> QED
  BY <1>3, <1>4

\* The monitor requeues no addition while a request is closing its session, and
\* a heartbeat claims the older addition with the removal.
LEMMA AdditionFirstStep ==
  ASSUME PeerInv, AdditionLeads, CloseUnderWay, AdditionFirst, [Next]_vars
  PROVE  AdditionFirst'
<1>0. TypeOK /\ TypeInv /\ TableInv
  BY DEF PeerInv, TableInv, TypeInv
<1>1. SUFFICES ASSUME NEW s \in Sids, s \in Live', NEW a \in Additions(s)',
                      NEW c \in Removals(s)', command'[c].tries > 0,
                      command'[a].status = "PENDING"
               PROVE  FALSE
  BY DEF AdditionFirst, Live
<1>2. s \in Live /\ session[s].status # "NONE"
  BY <1>0, <1>1, LiveStep, SessionQueue DEF Live, IsLive, LiveStates
<1>3. a \in Additions(s) /\ c \in Removals(s)
  BY <1>0, <1>1, <1>2, SessionQueue, NewRows, Creation
<1>4. /\ a \in Cids /\ c \in Cids /\ a < c
      /\ command[a] \in CommandRows /\ command[c] \in CommandRows
      /\ command[a].sid = s /\ command[c].sid = s
      /\ command[c].type = "REMOVE_PEER" /\ command[a].type = "ADD_PEER"
  BY <1>0, <1>3, RowOfCommand DEF AdditionLeads, Additions, Removals
<1>5. ~Settled(s)
  BY <1>2, <1>3 DEF CloseUnderWay, Settled
<1>6. command'[a] = command[a]
  <2>1. ~\E n \in Nodes : ServeHeartbeat(n) /\ a \in Claimed(n)
    BY <1>0, <1>1, ClaimedRow
  <2>2. ~RequeueStale(a)
    BY <1>4, <1>5 DEF RequeueStale
  <2>3. \A st : [command[a] EXCEPT !.status = st].status = st
    BY <1>4 DEF CommandRows
  <2> QED
    BY <1>0, <1>1, <1>4, <2>1, <2>2, <2>3, CommandStep
<1>7. command[c].tries = 0
  <2>1. ~(command[c].tries > 0)
    BY <1>1, <1>2, <1>3, <1>6 DEF AdditionFirst
  <2> QED
    BY <1>0, <1>4, <2>1, TriesGrow
<1>8. PICK n \in Nodes : ServeHeartbeat(n) /\ c \in Claimed(n)
  BY <1>0, <1>1, <1>4, <1>7, TriesGrow
<1>9. a \in Deliverable(n)
  <2>0. NodeOf(c) = n
    BY <1>0, <1>8, ClaimedRow
  <2>1. NodeOf(a) = n
    BY <1>4, <2>0 DEF NodeOf
  <2> QED
    BY <1>1, <1>2, <1>4, <1>6, <2>1 DEF Deliverable, Stale, Live
<1>10. a \in Claimed(n)
  BY <1>0, <1>4, <1>8, <1>9, ClaimsOldest
<1> QED
  BY <1>0, <1>1, <1>8, <1>10, ClaimedRow

\* A removal that comes to be done, or to be acknowledged late, was being
\* answered for; its agent has nothing older in hand.
LEMMA DoneStep ==
  ASSUME PeerInv, [Next]_vars, NEW c \in Cids',
         command'[c].status = "DONE" \/ \E m \in late' : m.cid = c
  PROVE  /\ c \in Cids
         /\ \/ command[c].status = "DONE"
            \/ \E m \in late : m.cid = c
            \/ \E n \in Nodes : agent[n].pc = "ack" /\ Least(agent[n].batch) = c
<1>0. TypeOK /\ TypeInv /\ TableInv
  BY DEF PeerInv, TableInv, TypeInv
<1>1. CASE \E m \in late' : m.cid = c
  <2>1. PICK m \in late' : m.cid = c
    BY <1>1
  <2>2. CASE m \in late
    BY <1>0, <2>1, <2>2 DEF TypeOK
  <2>3. ASSUME NEW n \in Nodes, AckTimesOut(n), m.cid = Least(agent[n].batch)
        PROVE  c \in Cids /\ agent[n].pc = "ack" /\ Least(agent[n].batch) = c
    BY <1>0, <2>1, <2>3, AnsweredKnown DEF AckTimesOut
  <2> QED
    BY <1>0, <2>1, <2>2, <2>3, LateStep
<1>2. CASE command'[c].status = "DONE"
  <2>1. c \in Cids
    BY <1>0, <1>2, NewRows
  <2>2. \A st : [command[c] EXCEPT !.status = st].status = st
    BY <1>0, <2>1, RowOfCommand DEF CommandRows
  <2>3. ~\E n \in Nodes : ServeHeartbeat(n) /\ c \in Claimed(n)
    BY <1>0, <1>2, ClaimedRow
  <2>4. command[c].status = "DONE" \/ Answered(c)
    BY <1>0, <1>2, <2>1, <2>2, <2>3, CommandStep
  <2> QED
    BY <2>1, <2>4 DEF Answered
<1> QED
  BY <1>1, <1>2

\* The agent runs its batch in order, and nothing delivers the addition again
\* once a removal was delivered.
LEMMA NoReplayStep ==
  ASSUME PeerInv, AdditionLeads, Delivered, AdditionFirst, NoReplay, [Next]_vars
  PROVE  NoReplay'
<1>0. TypeOK /\ TypeInv /\ TableInv
  BY DEF PeerInv, TableInv, TypeInv
<1>1. SUFFICES ASSUME NEW n \in Nodes, NEW s \in Sids,
                      NEW a \in Additions(s)', a \in agent'[n].batch,
                      NEW c \in Removals(s)',
                      command'[c].status = "DONE" \/ \E m \in late' : m.cid = c
               PROVE  FALSE
  BY DEF NoReplay
<1>2. /\ c \in Cids
      /\ \/ command[c].status = "DONE"
         \/ \E m \in late : m.cid = c
         \/ \E m \in Nodes : agent[m].pc = "ack" /\ Least(agent[m].batch) = c
  <2>1. c \in Cids'
    BY DEF Removals
  <2> QED
    BY <1>1, <2>1, DoneStep
<1>3. a \in agent[n].batch \/ (ServeHeartbeat(n) /\ a \in Claimed(n))
  BY <1>0, <1>1, BatchStep
<1>4. a \in Cids /\ NodeOf(a) = n
  BY <1>0, <1>3, ClaimedRow DEF PeerInv, BatchesOwn
<1>5. a \in Additions(s) /\ c \in Removals(s) /\ a < c
  BY <1>2, <1>4, SessionQueue DEF AdditionLeads
<1>6. CASE a \in agent[n].batch
  <2>1. PICK m \in Nodes : agent[m].pc = "ack" /\ Least(agent[m].batch) = c
    BY <1>2, <1>5, <1>6 DEF NoReplay
  <2>2. NodeOf(c) = m /\ \A b \in agent[m].batch : c <= b
    BY <2>1, AnsweredKnown
  <2>3. m = n
    BY <1>4, <1>5, <2>2 DEF NodeOf, Additions, Removals
  <2>4. a \in Nat /\ c \in Nat /\ c <= a
    BY <1>0, <1>2, <1>4, <1>6, <2>2, <2>3, RowOfCommand
  <2> QED
    BY <1>5, <2>4
<1>7. CASE ServeHeartbeat(n) /\ a \in Claimed(n)
  <2>0. command[a].type = "ADD_PEER" /\ command[a].sid = s
    BY <1>5 DEF Additions
  <2>1. s \in Live /\ command[a].status = "PENDING"
    BY <1>0, <1>7, <2>0, ClaimedRow
  <2>2. command[c].tries > 0
    BY <1>2 DEF Delivered, Answered
  <2> QED
    BY <1>5, <2>1, <2>2 DEF AdditionFirst
<1> QED
  BY <1>3, <1>6, <1>7

\* A peer is added by the ADD_PEER of its session, which the node's agent runs.
LEMMA PeerGained ==
  ASSUME PeerInv, [Next]_vars, NEW n \in Nodes, NEW d \in Devices, NEW s \in Sids,
         peer'[n][d] = s, peer[n][d] # s
  PROVE  /\ agent[n].pc = "run"
         /\ Least(agent[n].batch) \in Additions(s)
         /\ Least(agent[n].batch) \in agent[n].batch
         /\ Execute(n) \/ ExecuteFails(n)
         /\ AddPeer(n, s)
         /\ session[s].dev = d
<1>0. /\ TypeOK /\ TypeInv /\ TableInv
      /\ peer \in [Nodes -> [Devices -> Sids \cup {0}]] /\ s # 0
  BY DEF PeerInv, TableInv, TypeInv, TypeOK, Sids
<1>1. ASSUME NEW D, RemovePeers(n, D) PROVE FALSE
  BY <1>0, <1>1 DEF RemovePeers
<1>2. Execute(n) \/ ExecuteFails(n)
  BY <1>0, <1>1, AgentMoves DEF CleanPeers, NodeReboot
<1>3. agent[n].pc = "run" /\ Apply(n, Least(agent[n].batch))
  BY <1>2 DEF Execute, ExecuteFails, kernelVars
<1>4. PICK c \in Cids : c = Least(agent[n].batch) /\ c \in agent[n].batch
  BY <1>3, AnsweredKnown
<1>5. command[c].type = "ADD_PEER" /\ AddPeer(n, command[c].sid)
  BY <1>1, <1>3, <1>4 DEF Apply
<1>6. command[c].sid = s /\ session[s].dev = d
  BY <1>0, <1>5 DEF AddPeer
<1> QED
  BY <1>2, <1>3, <1>4, <1>5, <1>6 DEF Additions

\* Carrying out a removal takes the peer off, and no addition brings it back.
LEMMA RemovalHoldsStep ==
  ASSUME PeerInv, RowsFull, NoReplay, RemovalHolds, [Next]_vars
  PROVE  RemovalHolds'
<1>0. TypeOK /\ TypeInv /\ TableInv
  BY DEF PeerInv, TableInv, TypeInv
<1>1. SUFFICES ASSUME NEW s \in Sids, NEW c \in Removals(s)',
                      command'[c].status = "DONE" \/ Confirmed(c)',
                      peer'[session'[s].node][session'[s].dev] = s
               PROVE  FALSE
  BY DEF RemovalHolds
<1>2. /\ c \in Cids
      /\ \/ command[c].status = "DONE"
         \/ Confirmed(c)
         \/ \E m \in Nodes : Execute(m) /\ c = Least(agent[m].batch)
  <2>1. CASE command'[c].status = "DONE"
    <3>1. c \in Cids
      BY <1>0, <2>1, NewRows DEF Removals
    <3>2. \A st : [command[c] EXCEPT !.status = st].status = st
      BY <1>0, <3>1, RowOfCommand DEF CommandRows
    <3>3. ~\E n \in Nodes : ServeHeartbeat(n) /\ c \in Claimed(n)
      BY <1>0, <2>1, ClaimedRow
    <3> QED
      BY <1>0, <2>1, <3>1, <3>2, <3>3, CommandStep
  <2>2. CASE Confirmed(c)'
    <3>1. Confirmed(c) \/ \E m \in Nodes : Execute(m) /\ c = Least(agent[m].batch)
      BY <1>0, <2>2, AnswerStep
    <3>2. \A m \in Nodes : Execute(m) => agent[m].pc = "run"
      BY DEF Execute
    <3> QED
      BY <3>1, <3>2, AnsweredKnown
  <2> QED
    BY <1>1, <2>1, <2>2
<1>3. c \in Removals(s)
  BY <1>2, SessionQueue
<1> DEFINE n == session[s].node
           d == session[s].dev
<1>4. /\ session[s].status # "NONE" /\ n \in Nodes /\ d \in Devices
      /\ session'[s].node = n /\ session'[s].dev = d
  <2>1. session[s].status # "NONE"
    BY <1>3, SessionQueue
  <2> QED
    BY <1>0, <2>1, UsedRow DEF RowsFull
<1>5. command[c].type = "REMOVE_PEER" /\ command[c].sid = s /\ NodeOf(c) = n
  BY <1>3 DEF Removals, NodeOf
<1>6. ASSUME NEW m \in Nodes, Execute(m), c = Least(agent[m].batch) PROVE FALSE
  <2>1. m = n
    BY <1>5, <1>6, AnsweredKnown DEF Execute
  <2>2. RemovePeers(n, {d})
    BY <1>5, <1>6, <2>1 DEF Execute, Apply
  <2>3. peer \in [Nodes -> [Devices -> Sids \cup {0}]] /\ s # 0
    BY <1>0 DEF TypeOK, Sids
  <2>4. peer'[n][d] = 0
    BY <1>4, <2>2, <2>3 DEF RemovePeers
  <2> QED
    BY <1>1, <1>4, <2>3, <2>4
<1>7. CASE command[c].status = "DONE" \/ Confirmed(c)
  <2>1. peer[n][d] # s
    BY <1>3, <1>7 DEF RemovalHolds
  <2>2. peer'[n][d] = s
    BY <1>1, <1>4
  <2>3. /\ agent[n].pc = "run"
        /\ Least(agent[n].batch) \in Additions(s) \cap agent[n].batch
    BY <1>4, <2>1, <2>2, PeerGained
  <2>4. PICK m \in Nodes : agent[m].pc = "ack" /\ Least(agent[m].batch) = c
    BY <1>3, <1>4, <1>7, <2>3 DEF NoReplay, Confirmed
  <2>5. m = n
    BY <1>5, <2>4, AnsweredKnown
  <2> QED
    BY <2>3, <2>4, <2>5
<1> QED
  BY <1>2, <1>6, <1>7

\* At the start there are no commands and no live sessions.
LEMMA RemovalInit == Init => RemovalInv
<1> SUFFICES ASSUME Init PROVE RemovalInv
  OBVIOUS
<1>1. Cids = {} /\ Live = {}
  BY DEF Init, NoSession, Cids, Live, IsLive, LiveStates
<1>2. \A s \in Sids : Additions(s) = {} /\ Removals(s) = {}
  BY <1>1 DEF Additions, Removals
<1> QED
  BY <1>1, <1>2, QueueInit
     DEF RemovalInv, CloseUnderWay, AdditionFirst, NoReplay, RemovalHolds

\* The inductive step for removals.
LEMMA RemovalStep ==
  ASSUME "server_crash" \notin Events
  PROVE  RemovalInv /\ [Next]_vars => RemovalInv'
  BY QueueStep, CloseUnderWayStep, AdditionFirstStep, NoReplayStep, RemovalHoldsStep
     DEF RemovalInv, QueueInv

\* Once every removal of a closed session is acknowledged, no redelivered
\* ADD_PEER brings its peer back.
THEOREM RemovedKept ==
  "server_crash" \notin Events => (Spec => []RemovedStaysRemoved)
<1> SUFFICES ASSUME "server_crash" \notin Events
             PROVE  Spec => []RemovedStaysRemoved
  OBVIOUS
<1> DEFINE Inv == RemovalInv /\ ClosedHasRemoval
<1>1. RemovalInv => (ClosedHasRemoval => RemovedStaysRemoved)
  <2> SUFFICES ASSUME RemovalInv, ClosedHasRemoval, NEW s \in Sids,
                      session[s].status = "CLOSED",
                      \A c \in Removals(s) : command[c].status = "DONE"
               PROVE  peer[session[s].node][session[s].dev] # s
    BY DEF RemovedStaysRemoved
  <2>1. PICK c \in Removals(s) : command[c].status = "DONE"
    BY DEF ClosedHasRemoval
  <2> QED
    BY <2>1 DEF RemovalInv, RemovalHolds
<1>2. RemovalInv /\ [Next]_vars => RemovalInv'
  BY RemovalStep
<1> QED
  BY <1>1, <1>2, RemovalInit, ClosedLeavesRemoval, PTL DEF Spec

-----------------------------------------------------------------------------
(***************************************************************************)
(* Addresses.  Where no command fails, no request dies and the monitor's   *)
(* reclaim is not cut in two, the address of a live session stays its own  *)
(* for as long as its peer is on the node, is about to be, or has not been *)
(* asked off it.                                                           *)
(***************************************************************************)
\* Every answer confirms, and no reclaim is under way.
Reliable ==
    /\ \A n \in Nodes : agent[n].ok
    /\ \A m \in late : m.ok
    /\ \A r \in Requests : job[r].pc # "reclaim"
\* Session s has its peer on the node, or its agent has its addition, or none of
\* its removals was delivered yet.
Using(s) ==
    \/ peer[session[s].node][session[s].dev] = s
    \/ agent[session[s].node].batch \cap Additions(s) # {}
    \/ \A c \in Removals(s) : command[c].tries = 0
\* And then it holds its address.
LeaseHeld ==
    \A s \in Live : Using(s) => lease[session[s].node][session[s].ip] = s
\* An address is routed to a peer of the session that leased it.
RoutesFit ==
    \A n \in Nodes, i \in Ips : route[n][i] # None =>
        /\ peer[n][route[n][i]] # 0
        /\ session[peer[n][route[n][i]]].ip = i
\* An agent that has the addition or the peer of a live session has no addition
\* of another session for the same address.
NoClash ==
    \A s \in Live, t \in Sids :
        /\ session[t].ip = session[s].ip
        /\ agent[session[s].node].batch \cap Additions(t) # {}
        /\ \/ peer[session[s].node][session[s].dev] = s
           \/ agent[session[s].node].batch \cap Additions(s) # {}
        => s = t

\* The inductive invariant about addresses.
AddressInv ==
    /\ RemovalInv
    /\ Reliable
    /\ LeaseHeld
    /\ RoutesFit
    /\ NoClash

\* The constants for which commands do not fail and no reclaim is cut in two.
Unfailing == Events \cap {"exec_fails", "slow_reclaim"} = {}
\* And no request dies half-way.
Dependable == Unfailing /\ "server_crash" \notin Events

\* Only the monitor begins a reclaim.
LEMMA ReclaimStarts ==
  ASSUME TypeInv, [Next]_vars, NEW r \in Requests, job'[r].pc = "reclaim"
  PROVE  job'[r] = job[r] \/ BeginReclaim(r)
<1> USE DEF serverVars, kernelVars
<1>0. job \in [Requests -> Jobs]
  BY DEF TypeInv, TypeOK
<1>1. CASE UNCHANGED vars
  BY <1>1 DEF vars
<1>2. ASSUME NEW q \in Requests, NEW x, job' = [job EXCEPT ![q] = x],
             q = r => x.pc # "reclaim"
      PROVE  job'[r] = job[r]
  BY <1>0, <1>2
<1>3. ASSUME NEW q \in Callers,
             \/ BeginClose(q) \/ BeginConnect(q)
             \/ BeginDisable(q) \/ BeginReclaim(q)
      PROVE  job'[r] = job[r] \/ BeginReclaim(r)
  <2>1. q \in Requests
    BY DEF Requests
  <2>2. ASSUME NEW todo, NEW then, NEW d, NEW n, Start(q, todo, then, d, n)
        PROVE  job'[r] = job[r]
    <3> DEFINE x == [pc |-> "close", todo |-> todo, sid |-> 0,
                     then |-> then, dev |-> d, node |-> n]
    <3>1. job' = [job EXCEPT ![q] = x] /\ x.pc = "close"
      BY <2>2 DEF Start
    <3> HIDE DEF x
    <3> QED
      BY <1>2, <2>1, <3>1
  <2>3. ASSUME BeginReclaim(q) PROVE job'[r] = job[r] \/ BeginReclaim(r)
    BY <1>0, <2>3 DEF BeginReclaim
  <2> QED
    BY <1>3, <2>2, <2>3 DEF BeginClose, BeginConnect, BeginDisable
<1>4. ASSUME NEW q \in Requests,
             \/ CloseSteps(q) \/ ConnectSteps(q) \/ FinishDisable(q)
             \/ FinishReclaim(q) \/ RequestDies(q)
      PROVE  job'[r] = job[r]
  <2>1. CASE CloseCheck(q)
    BY <1>0, <2>1 DEF CloseCheck, Jobs
  <2>2. CASE CloseEnqueue(q)
    BY <1>0, <2>2 DEF CloseEnqueue, Jobs
  <2>3. CASE CloseCommit(q)
    BY <1>0, <2>3 DEF CloseCommit, Jobs
  <2>4. CASE job' = [job EXCEPT ![q] = Idle]
    BY <1>2, <2>4 DEF Idle
  <2> QED
    BY <1>4, <2>1, <2>2, <2>3, <2>4 DEF CloseSteps, ConnectSteps, FinishClose,
       CreateSession, RefuseSession, FinishDisable, FinishReclaim, AtEnd,
       RequestDies
<1>5. ASSUME NEW d \in Devices, RevokeDevice(d) PROVE job'[r] = job[r]
  BY <1>5 DEF RevokeDevice, CloseInTransaction
<1>6. ASSUME NEW N \in {Nodes} \cup {{n} : n \in Nodes},
             EnterMaintenance(N) \/ LeaveMaintenance(N)
      PROVE  job'[r] = job[r]
  BY <1>6 DEF EnterMaintenance, LeaveMaintenance, CloseInTransaction
<1>7. CASE \/ \E n \in Nodes : EnableNode(n)
           \/ \E c \in Cids : RequeueStale(c)
           \/ \E s \in Sids : ReclaimLease(s)
           \/ LateAck
  BY <1>7 DEF EnableNode, RequeueStale, ReclaimLease, LateAck, ServeAck
<1>8. ASSUME NEW n \in Nodes, Agent(n) PROVE job'[r] = job[r]
  <2>1. ASSUME NEW aged \in BOOLEAN, ServeReport(n, aged) PROVE job'[r] = job[r]
    <3>1. n \in Requests
      BY DEF Requests
    <3>2. PICK x : job' = [job EXCEPT ![n] = [Idle EXCEPT !.pc = "close", !.todo = x]]
      BY <2>1 DEF ServeReport
    <3>3. [Idle EXCEPT !.pc = "close", !.todo = x].pc = "close"
      BY DEF Idle
    <3> QED
      BY <1>2, <3>1, <3>2, <3>3
  <2>2. CASE ~\E aged \in BOOLEAN : ServeReport(n, aged)
    BY <1>8, <2>2 DEF Agent, HeartbeatAuth, Heartbeat, HeartbeatReplyLost,
       ServeHeartbeat, Execute, ExecuteFails, Ack, ServeAck, AckFails,
       AckTimesOut, AckInterrupted, EndTick, DumpPeers, ReportFails, CleanPeers,
       AgentRestart, NodeReboot
  <2> QED
    BY <2>1, <2>2
<1> QED
  BY <1>1, <1>3, <1>4, <1>5, <1>6, <1>7, <1>8 DEF Next, Server

\* Without those events every answer confirms and no reclaim is cut in two.
LEMMA ReliableStep ==
  ASSUME Unfailing, TypeInv, Reliable, [Next]_vars
  PROVE  Reliable'
<1>0. agent \in [Nodes -> Agents]
  BY DEF TypeInv, TypeOK
<1>1. ASSUME NEW n \in Nodes PROVE agent'[n].ok
  <2>1. CASE Execute(n)
    BY <1>0, <2>1 DEF Execute, Agents
  <2>2. ~ExecuteFails(n)
    BY DEF Unfailing, ExecuteFails, Happens
  <2>3. CASE CleanPeers(n) \/ NodeReboot(n)
    BY <1>0, <2>3 DEF CleanPeers, NodeReboot, Resting
  <2> QED
    BY <2>1, <2>2, <2>3, AgentMoves DEF Reliable
<1>2. ASSUME NEW m \in late' PROVE m.ok
  BY LateStep DEF Reliable
<1>3. ASSUME NEW r \in Requests PROVE job'[r].pc # "reclaim"
  <2>1. ~BeginReclaim(r)
    BY DEF Unfailing, BeginReclaim, Happens
  <2> QED
    BY <2>1, ReclaimStarts DEF Reliable
<1> QED
  BY <1>1, <1>2, <1>3 DEF Reliable

\* An address changes hands when it is free, when its session has ended, or when
\* a removal of its session is confirmed.
LEMMA LeaseStep ==
  ASSUME PeerInv, Reliable, [Next]_vars, NEW n \in Nodes, NEW i \in Ips,
         lease'[n][i] # lease[n][i]
  PROVE  \/ lease[n][i] = 0
         \/ lease[n][i] \in Sids /\ session[lease[n][i]].status \in Terminal
         \/ \E c \in Cids : c \in Removals(lease[n][i]) /\ Confirmed(c)
<1> USE DEF serverVars, kernelVars
<1>0. /\ TypeInv /\ TypeOK
      /\ lease \in [Nodes -> [Ips -> Sids \cup {0}]]
  BY DEF PeerInv, TableInv, TypeInv, TypeOK
<1>1. CASE UNCHANGED vars
  BY <1>1 DEF vars
<1>2. ASSUME NEW r \in Callers,
             \/ BeginClose(r) \/ BeginConnect(r)
             \/ BeginDisable(r) \/ BeginReclaim(r)
      PROVE  FALSE
  BY <1>2 DEF BeginClose, BeginConnect, BeginDisable, BeginReclaim, Start
<1>3. ASSUME NEW r \in Requests, CreateSession(r) PROVE lease[n][i] = 0
  <2>1. PICK ip \in Ips : /\ lease[job[r].node][ip] = 0
                          /\ lease' = [lease EXCEPT ![job[r].node][ip] = Least(Unused)]
    BY <1>0, <1>3, Creation
  <2> QED
    BY <1>0, <2>1
<1>4. ASSUME NEW r \in Requests,
             \/ CloseSteps(r) \/ RefuseSession(r) \/ FinishDisable(r)
             \/ FinishReclaim(r) \/ RequestDies(r)
      PROVE  FALSE
  BY <1>4 DEF CloseSteps, CloseCheck, CloseEnqueue, CloseCommit, FinishClose,
     RefuseSession, FinishDisable, FinishReclaim, RequestDies, Reliable
<1>5. ASSUME NEW d \in Devices, RevokeDevice(d) PROVE FALSE
  BY <1>5 DEF RevokeDevice, CloseInTransaction
<1>6. ASSUME NEW N \in {Nodes} \cup {{m} : m \in Nodes},
             EnterMaintenance(N) \/ LeaveMaintenance(N)
      PROVE  FALSE
  BY <1>6 DEF EnterMaintenance, LeaveMaintenance, CloseInTransaction
<1>7. ASSUME NEW s \in Sids, lease' = Released(s) PROVE lease[n][i] = s
  BY <1>0, <1>7 DEF Released
<1>8. ASSUME NEW c \in Cids, ServeAck(c, TRUE), Confirmed(c)
      PROVE  \E b \in Cids : b \in Removals(lease[n][i]) /\ Confirmed(b)
  <2>1. command[c].type # "ADD_PEER" /\ lease' = Released(command[c].sid)
    BY <1>8 DEF ServeAck, AckEffect
  <2>2. command[c].type = "REMOVE_PEER" /\ command[c].sid \in Sids
    BY <1>0, <2>1, RowOfCommand DEF CommandRows
  <2>3. lease[n][i] = command[c].sid
    BY <1>7, <2>1, <2>2
  <2> QED
    BY <1>8, <2>2, <2>3 DEF Removals
<1>9. CASE LateAck
  <2>1. PICK m \in late : ServeAck(m.cid, m.ok)
    BY <1>9 DEF LateAck
  <2>2. m.cid \in Cids /\ m.ok = TRUE /\ Confirmed(m.cid)
    BY <1>0 DEF TypeOK, Reliable, Confirmed
  <2> QED
    BY <1>8, <2>1, <2>2
<1>10. ASSUME NEW s \in Sids, ReclaimLease(s)
       PROVE  lease[n][i] \in Sids /\ session[lease[n][i]].status \in Terminal
  BY <1>7, <1>10 DEF ReclaimLease, Terminal
<1>11. CASE (\E m \in Nodes : EnableNode(m)) \/ (\E c \in Cids : RequeueStale(c))
  BY <1>11 DEF EnableNode, RequeueStale
<1>12. ASSUME NEW m \in Nodes, Ack(m)
       PROVE  \E c \in Cids : c \in Removals(lease[n][i]) /\ Confirmed(c)
  <2>1. agent[m].pc = "ack" /\ ServeAck(Least(agent[m].batch), agent[m].ok)
    BY <1>12 DEF Ack
  <2>2. /\ Least(agent[m].batch) \in Cids
        /\ agent[m].ok = TRUE
        /\ Confirmed(Least(agent[m].batch))
    BY <1>0, <2>1, BatchHead DEF Reliable, Confirmed
  <2> QED
    BY <1>8, <2>1, <2>2
<1>13. ASSUME NEW m \in Nodes, Agent(m), ~Ack(m) PROVE FALSE
  BY <1>13 DEF Agent, HeartbeatAuth, Heartbeat, HeartbeatReplyLost,
     ServeHeartbeat, Execute, ExecuteFails, AckFails, AckTimesOut,
     AckInterrupted, EndTick, DumpPeers, ServeReport, ReportFails, CleanPeers,
     AgentRestart, NodeReboot
<1> QED
  BY <1>1, <1>2, <1>3, <1>4, <1>5, <1>6, <1>9, <1>10, <1>11, <1>12, <1>13
     DEF Next, Server, ConnectSteps

\* A session gets its address when it is created.
LEMMA LeaseMade ==
  ASSUME TableInv, [Next]_vars, NEW s \in Sids, s \in Live', s \notin Live
  PROVE  lease'[session'[s].node][session'[s].ip] = s
<1>0. /\ TypeInv /\ session \in [Sids -> SessionRows]
      /\ lease \in [Nodes -> [Ips -> Sids \cup {0}]]
  BY DEF TableInv, TypeInv, TypeOK
<1>1. PICK r \in Requests : CreateSession(r) /\ session[s].status = "NONE"
  BY LiveStep
<1>2. PICK ip \in Ips :
        /\ job[r].node \in Nodes
        /\ session' = [session EXCEPT ![Least(Unused)] =
             [status |-> "PENDING", dev |-> job[r].dev, node |-> job[r].node, ip |-> ip]]
        /\ lease' = [lease EXCEPT ![job[r].node][ip] = Least(Unused)]
  BY <1>0, <1>1, Creation
<1>3. s = Least(Unused)
  BY <1>0, <1>2 DEF Live, IsLive
<1> QED
  BY <1>0, <1>2, <1>3

\* The address of a live session is its own until the removal of its peer has
\* been asked for, where commands do not fail and no reclaim is cut in two.
THEOREM LeasesKept == Unfailing => (Spec => []LeaseKept)
<1> SUFFICES ASSUME Unfailing PROVE Spec => []LeaseKept
  OBVIOUS
<1> DEFINE Inv == QueueInv /\ Reliable /\ LeaseKept
<1>1. Init => Inv
  <2>1. ASSUME Init PROVE Reliable /\ LeaseKept
    BY <2>1 DEF Init, Reliable, LeaseKept, NoSession, Live, IsLive, LiveStates,
       Resting, Idle
  <2> QED
    BY <2>1, QueueInit
<1>2. ASSUME Inv, [Next]_vars PROVE Inv'
  <2>0. PeerInv /\ TableInv /\ TypeInv /\ session \in [Sids -> SessionRows]
    BY <1>2 DEF QueueInv, PeerInv, TableInv, TypeInv, TypeOK
  <2>1. ASSUME NEW s \in Sids, s \in Live', Removals(s)' = {}
        PROVE  lease'[session'[s].node][session'[s].ip] = s
    <3>1. CASE s \notin Live
      BY <1>2, <2>0, <2>1, <3>1, LeaseMade
    <3>2. CASE s \in Live
      <4> DEFINE n == session[s].node
                 i == session[s].ip
      <4>1. session[s].status \in LiveStates /\ session[s].status # "NONE" /\ s # 0
        BY <3>2 DEF Live, IsLive, LiveStates, Sids
      <4>2. /\ n \in Nodes /\ i \in Ips
            /\ session'[s].node = n /\ session'[s].ip = i
        BY <1>2, <2>0, <4>1, UsedRow DEF QueueInv, RowsFull
      <4>3. Removals(s) = {}
        BY <1>2, <2>0, <2>1, SessionQueue
      <4>4. lease[n][i] = s
        BY <1>2, <3>2, <4>3 DEF LeaseKept
      <4>5. lease'[n][i] = s
        BY <1>2, <2>0, <4>1, <4>2, <4>3, <4>4, LeaseStep DEF LiveStates, Terminal
      <4> QED
        BY <4>2, <4>5
    <3> QED
      BY <3>1, <3>2
  <2>2. LeaseKept'
    BY <2>1 DEF LeaseKept, Live
  <2> QED
    BY <1>2, <2>0, <2>2, QueueStep, ReliableStep
<1>3. Inv => LeaseKept
  OBVIOUS
<1> QED
  BY <1>1, <1>2, <1>3, PTL DEF Spec

\* A live session that uses its address was using it before the step.
LEMMA UsingBefore ==
  ASSUME RemovalInv, [Next]_vars, NEW s \in Live, Using(s)'
  PROVE  Using(s)
<1>0. /\ TypeOK /\ TypeInv /\ TableInv /\ PeerInv
      /\ s \in Sids /\ session[s].status # "NONE"
  BY DEF RemovalInv, QueueInv, PeerInv, TableInv, TypeInv, Live, IsLive, LiveStates
<1> DEFINE n == session[s].node
           d == session[s].dev
<1>1. /\ n \in Nodes /\ d \in Devices
      /\ session'[s].node = n /\ session'[s].dev = d
  BY <1>0, UsedRow DEF RemovalInv, QueueInv, RowsFull
<1>2. CASE peer'[n][d] = s
  <2>1. peer[n][d] # s => agent[n].batch \cap Additions(s) # {}
    BY <1>0, <1>1, <1>2, PeerGained
  <2> QED
    BY <2>1 DEF Using
<1>3. ASSUME NEW a \in Additions(s)', a \in agent'[n].batch PROVE Using(s)
  <2>1. CASE a \in agent[n].batch
    <3>1. a \in Cids
      BY <1>0, <1>1, <2>1 DEF PeerInv, BatchesOwn
    <3>2. a \in Additions(s)
      BY <1>0, <3>1, SessionQueue
    <3> QED
      BY <2>1, <3>2 DEF Using
  <2>2. CASE ServeHeartbeat(n) /\ a \in Claimed(n)
    <3>1. a \in Cids /\ command[a].status = "PENDING"
      BY <1>0, <1>1, <2>2, ClaimedRow
    <3>2. a \in Additions(s)
      BY <1>0, <3>1, SessionQueue
    <3>3. \A c \in Removals(s) : ~(command[c].tries > 0)
      BY <3>1, <3>2 DEF RemovalInv, AdditionFirst
    <3>4. \A c \in Removals(s) : command[c].tries \in Nat
      BY <1>0, TriesGrow DEF Removals
    <3>5. \A c \in Removals(s) : command[c].tries = 0
      BY <3>3, <3>4
    <3> QED
      BY <3>5 DEF Using
  <2> QED
    BY <1>0, <1>1, <1>3, <2>1, <2>2, BatchStep
<1>4. ASSUME \A c \in Removals(s)' : command'[c].tries = 0 PROVE Using(s)
  <2>1. ASSUME NEW c \in Removals(s) PROVE command[c].tries = 0
    <3>1. c \in Cids /\ command'[c].tries = 0
      BY <1>0, <1>4, SessionQueue DEF Removals
    <3> QED
      BY <1>0, <3>1, TriesGrow
  <2> QED
    BY <2>1 DEF Using
<1> QED
  BY <1>1, <1>2, <1>3, <1>4 DEF Using

\* A live session keeps its address while it uses it.
LEMMA LeaseHeldStep ==
  ASSUME RemovalInv, Reliable, LeaseHeld, [Next]_vars
  PROVE  LeaseHeld'
<1>0. /\ TypeOK /\ TypeInv /\ TableInv /\ PeerInv
      /\ session \in [Sids -> SessionRows]
      /\ lease \in [Nodes -> [Ips -> Sids \cup {0}]]
  BY DEF RemovalInv, QueueInv, PeerInv, TableInv, TypeInv, TypeOK
<1>1. SUFFICES ASSUME NEW s \in Sids, s \in Live', Using(s)'
               PROVE  lease'[session'[s].node][session'[s].ip] = s
  BY DEF LeaseHeld, Live
<1>2. CASE s \notin Live
  BY <1>0, <1>1, <1>2, LeaseMade
<1>3. CASE s \in Live
  <2> DEFINE n == session[s].node
             d == session[s].dev
             i == session[s].ip
  <2>1. /\ session[s].status \in LiveStates /\ s # 0
        /\ n \in Nodes /\ d \in Devices /\ i \in Ips
        /\ session'[s].node = n /\ session'[s].dev = d /\ session'[s].ip = i
    <3>1. session[s].status \in LiveStates /\ session[s].status # "NONE" /\ s # 0
      BY <1>3 DEF Live, IsLive, LiveStates, Sids
    <3> QED
      BY <1>0, <3>1, UsedRow DEF RemovalInv, QueueInv, RowsFull
  <2>2. lease[n][i] = s
    BY <1>1, <1>3, UsingBefore DEF LeaseHeld
  <2>3. SUFFICES ASSUME lease'[n][i] # s PROVE FALSE
    BY <2>1
  <2>4. PICK c \in Removals(s) : Confirmed(c)
    BY <1>0, <2>1, <2>2, <2>3, LeaseStep DEF LiveStates, Terminal
  <2>5. c \in Cids /\ Answered(c) /\ command[c].tries > 0
    BY <1>0, <2>4, AnsweredKnown DEF RemovalInv, QueueInv, Delivered
  <2>6. CASE \A b \in Removals(s)' : command'[b].tries = 0
    <3>1. c \in Removals(s)'
      BY <1>0, <2>4, SessionQueue
    <3> QED
      BY <1>0, <2>5, <2>6, <3>1, TriesGrow
  <2>7. CASE peer'[n][d] = s
    <3>1. peer[n][d] # s
      BY <2>4 DEF RemovalInv, RemovalHolds
    <3>2. Execute(n) \/ ExecuteFails(n)
      BY <1>0, <2>1, <2>7, <3>1, PeerGained
    <3> QED
      BY <2>2, <2>3, <3>2 DEF Execute, ExecuteFails, serverVars
  <2>8. ASSUME NEW a \in Additions(s)', a \in agent'[n].batch PROVE FALSE
    <3>1. ~ServeHeartbeat(n)
      BY <2>2, <2>3 DEF ServeHeartbeat
    <3>2. a \in agent[n].batch /\ a \in Cids
      BY <1>0, <2>1, <2>8, <3>1, BatchStep DEF PeerInv, BatchesOwn
    <3>3. a \in Additions(s)
      BY <1>0, <3>2, SessionQueue
    <3>4. PICK m \in Nodes : agent[m].pc = "ack" /\ Least(agent[m].batch) = c
      BY <2>1, <2>4, <3>2, <3>3 DEF RemovalInv, NoReplay, Confirmed
    <3>5. NodeOf(c) = m /\ \A b \in agent[m].batch : c <= b
      BY <1>0, <3>4, AnsweredKnown
    <3>6. m = n
      BY <2>4, <3>5 DEF NodeOf, Removals
    <3>7. c <= a /\ a < c
      BY <2>4, <3>2, <3>3, <3>5, <3>6 DEF RemovalInv, QueueInv, AdditionLeads
    <3> QED
      BY <1>0, <2>5, <3>2, <3>7, RowOfCommand
  <2> QED
    BY <1>1, <2>1, <2>6, <2>7, <2>8 DEF Using
<1> QED
  BY <1>2, <1>3

\* A routed address is routed to the peer of a session with that address.
LEMMA RoutesFitStep ==
  ASSUME PeerInv, RowsFull, RoutesFit, [Next]_vars
  PROVE  RoutesFit'
<1>0. /\ TypeOK /\ TypeInv /\ TableInv
      /\ peer \in [Nodes -> [Devices -> Sids \cup {0}]]
      /\ route \in [Nodes -> [Ips -> Devices \cup {None}]]
      /\ None \notin Devices
  BY ConstantsAssumption DEF PeerInv, TableInv, TypeInv, TypeOK
<1>1. SUFFICES ASSUME NEW n \in Nodes, NEW i \in Ips, NEW x,
                      x = route'[n][i], x # None
               PROVE  peer'[n][x] # 0 /\ session'[peer'[n][x]].ip = i
  BY DEF RoutesFit
<1>2. ASSUME NEW s \in Sids, session[s].status # "NONE", session[s].ip = i
      PROVE  session'[s].ip = i
  BY <1>0, <1>2, UsedRow
<1>3. ASSUME x = route[n][i], peer'[n][x] = peer[n][x]
      PROVE  peer'[n][x] # 0 /\ session'[peer'[n][x]].ip = i
  <2>1. x \in Devices /\ peer[n][x] # 0 /\ session[peer[n][x]].ip = i
    BY <1>0, <1>1, <1>3 DEF RoutesFit
  <2>2. peer[n][x] \in Sids /\ session[peer[n][x]].status # "NONE"
    BY <1>0, <2>1 DEF PeerInv, PeersKnown
  <2> QED
    BY <1>2, <1>3, <2>1, <2>2
<1>4. ASSUME NEW D, RemovePeers(n, D)
      PROVE  x = route[n][i] /\ peer'[n][x] = peer[n][x]
  <2>1. x = route[n][i] /\ x \notin D
    BY <1>0, <1>1, <1>4 DEF RemovePeers
  <2> QED
    BY <1>0, <1>1, <1>4, <2>1 DEF RemovePeers
<1>5. ASSUME NEW t \in Sids, session[t].status # "NONE", AddPeer(n, t)
      PROVE  peer'[n][x] # 0 /\ session'[peer'[n][x]].ip = i
  <2>1. session[t].dev \in Devices /\ t # 0
    BY <1>5 DEF RowsFull, Sids
  <2>2. CASE i = session[t].ip
    <3>1. x = session[t].dev /\ peer'[n][x] = t
      BY <1>0, <1>1, <1>5, <2>1, <2>2 DEF AddPeer
    <3> QED
      BY <1>2, <1>5, <2>1, <2>2, <3>1
  <2>3. CASE i # session[t].ip
    <3>1. x = route[n][i] /\ x # session[t].dev /\ x \in Devices
      BY <1>0, <1>1, <1>5, <2>1, <2>3 DEF AddPeer
    <3>2. peer'[n][x] = peer[n][x]
      BY <1>0, <1>5, <3>1 DEF AddPeer
    <3> QED
      BY <1>3, <3>1, <3>2
  <2> QED
    BY <2>2, <2>3
<1>6. CASE Execute(n) \/ ExecuteFails(n)
  <2>1. agent[n].pc = "run"
    BY <1>6 DEF Execute, ExecuteFails
  <2>2. PICK c \in Cids : c = Least(agent[n].batch)
    BY <2>1, AnsweredKnown
  <2>3. command[c].sid \in Sids /\ session[command[c].sid].status # "NONE"
    BY <1>0, RowOfCommand DEF PeerInv, CommandsKnown
  <2>4. Apply(n, c) \/ UNCHANGED kernelVars
    BY <1>6, <2>2 DEF Execute, ExecuteFails
  <2> QED
    BY <1>1, <1>3, <1>4, <1>5, <2>3, <2>4 DEF Apply, kernelVars
<1> QED
  BY <1>0, <1>1, <1>3, <1>4, <1>6, AgentMoves DEF CleanPeers, NodeReboot

\* Two sessions of one address are never both in the hands of one agent.
LEMMA NoClashStep ==
  ASSUME RemovalInv, PeerInv', LeaseHeld', NoClash, [Next]_vars
  PROVE  NoClash'
<1>0. /\ TypeOK /\ TypeInv /\ TableInv /\ PeerInv
      /\ session \in [Sids -> SessionRows]
  BY DEF RemovalInv, QueueInv, PeerInv, TableInv, TypeInv, TypeOK
<1>1. SUFFICES ASSUME NEW s \in Sids, s \in Live', NEW t \in Sids,
                      session'[t].ip = session'[s].ip,
                      NEW b \in Additions(t)', b \in agent'[session'[s].node].batch,
                      \/ peer'[session'[s].node][session'[s].dev] = s
                      \/ agent'[session'[s].node].batch \cap Additions(s)' # {}
               PROVE  s = t
  BY DEF NoClash, Live
<1>2. lease'[session'[s].node][session'[s].ip] = s
  BY <1>1 DEF LeaseHeld, Using
<1>3. CASE t \in Live'
  <2>1. session'[s].node \in Nodes
    <3>1. RowsFull' /\ session'[s].status # "NONE"
      BY <1>0, <1>1, RowsFullStep DEF RemovalInv, QueueInv, Live, IsLive, LiveStates
    <3> QED
      BY <3>1 DEF RowsFull
  <2>2. session'[command'[b].sid].node = session'[s].node
    BY <1>1, <2>1 DEF PeerInv, BatchesOwn, NodeOf
  <2>3. session'[t].node = session'[s].node
    BY <2>2 DEF Additions
  <2>4. agent'[session'[t].node].batch \cap Additions(t)' # {}
    BY <1>1, <2>3
  <2>5. lease'[session'[t].node][session'[t].ip] = t
    BY <1>3, <2>4 DEF LeaseHeld, Using
  <2> QED
    BY <1>1, <1>2, <2>3, <2>5
<1>4. CASE t \notin Live'
  <2> DEFINE n == session'[s].node
             d == session'[s].dev
  <2>0. n \in Nodes /\ d \in Devices
    <3>1. RowsFull' /\ session'[s].status # "NONE"
      BY <1>0, <1>1, RowsFullStep DEF RemovalInv, QueueInv, Live, IsLive, LiveStates
    <3> QED
      BY <3>1 DEF RowsFull
  <2>1. ~(ServeHeartbeat(n) /\ b \in Claimed(n))
    <3> SUFFICES ASSUME ServeHeartbeat(n), b \in Claimed(n) PROVE FALSE
      OBVIOUS
    <3>1. b \in Cids /\ (command[b].type = "ADD_PEER" => command[b].sid \in Live)
      BY <1>0, <2>0, ClaimedRow
    <3>2. b \in Additions(t)
      BY <1>0, <3>1, SessionQueue
    <3>3. t \in Live /\ session' = session
      BY <3>1, <3>2 DEF Additions, ServeHeartbeat
    <3> QED
      BY <1>4, <3>3 DEF Live, IsLive
  <2>2. agent'[n].batch \subseteq agent[n].batch
    BY <1>0, <1>1, <2>0, <2>1, BatchStep
  <2>3. \A a \in agent[n].batch : a \in Cids
    BY <1>0, <2>0 DEF PeerInv, BatchesOwn
  <2>4. \A u \in Sids : \A a \in agent[n].batch : a \in Additions(u)' => a \in Additions(u)
    BY <1>0, <2>3, SessionQueue
  <2>5. b \in agent[n].batch /\ b \in Additions(t)
    BY <1>1, <2>2, <2>4
  <2>6. \/ peer[n][d] = s
        \/ agent[n].batch \cap Additions(s) # {}
    <3>1. CASE peer'[n][d] = s
      BY <1>0, <2>0, <3>1, PeerGained
    <3>2. CASE agent'[n].batch \cap Additions(s)' # {}
      BY <2>2, <2>4, <3>2
    <3> QED
      BY <1>1, <3>1, <3>2
  <2>7. session[s].status # "NONE" /\ session[t].status # "NONE"
    <3>1. peer[n][d] = s => session[s].status # "NONE"
      BY <1>0, <2>0 DEF PeerInv, PeersKnown, Sids
    <3>2. \A u \in Sids : Additions(u) # {} => session[u].status # "NONE"
      BY <1>0, SessionQueue
    <3> QED
      BY <2>5, <2>6, <3>1, <3>2
  <2>8. /\ s \in Live
        /\ session[s].node = n /\ session[s].dev = d
        /\ session[s].ip = session[t].ip
    <3>1. s \in Live
      BY <1>0, <1>1, <2>7, LiveStep
    <3> QED
      BY <1>0, <1>1, <2>7, <3>1, UsedRow
  <2> QED
    BY <2>5, <2>6, <2>8 DEF NoClash
<1> QED
  BY <1>3, <1>4

\* At the start nothing is leased and nothing is under way.
LEMMA AddressInit == Init => AddressInv
<1> SUFFICES ASSUME Init PROVE AddressInv
  OBVIOUS
<1>1. /\ Live = {} /\ late = {}
      /\ \A n \in Nodes : agent[n].ok
      /\ \A r \in Requests : job[r].pc # "reclaim"
      /\ \A n \in Nodes, i \in Ips : route[n][i] = None
  BY DEF Init, NoSession, Live, IsLive, LiveStates, Resting, Idle
<1> QED
  BY <1>1, RemovalInit DEF AddressInv, Reliable, LeaseHeld, RoutesFit, NoClash

\* The inductive step for addresses.
LEMMA AddressStep ==
  ASSUME Dependable
  PROVE  AddressInv /\ [Next]_vars => AddressInv'
<1> SUFFICES ASSUME AddressInv, [Next]_vars PROVE AddressInv'
  OBVIOUS
<1>0. RemovalInv /\ PeerInv /\ RowsFull /\ TypeInv
  BY DEF AddressInv, RemovalInv, QueueInv, PeerInv, TableInv
<1>1. RemovalInv' /\ PeerInv'
  BY <1>0, RemovalStep DEF Dependable, RemovalInv, QueueInv
<1>2. Reliable'
  BY <1>0, ReliableStep DEF AddressInv, Dependable
<1>3. LeaseHeld'
  BY <1>0, LeaseHeldStep DEF AddressInv
<1>4. RoutesFit'
  BY <1>0, RoutesFitStep DEF AddressInv
<1>5. NoClash'
  BY <1>0, <1>1, <1>3, NoClashStep DEF AddressInv
<1> QED
  BY <1>1, <1>2, <1>3, <1>4, <1>5 DEF AddressInv

\* Carrying out a command takes no address from the peer of a live session.
THEOREM AddressesNeverStolen == Dependable => (Spec => NeverStolen)
<1> SUFFICES ASSUME Dependable PROVE Spec => NeverStolen
  OBVIOUS
<1>1. AddressInv /\ [Next]_vars =>
        [\A n \in Nodes, d \in Devices, i \in Ips :
            /\ agent[n].pc = "run"
            /\ route[n][i] = d
            /\ route'[n][i] \notin {d, None}
            => peer[n][d] \notin Live]_vars
  <2> SUFFICES ASSUME AddressInv, [Next]_vars,
                      NEW n \in Nodes, NEW d \in Devices, NEW i \in Ips,
                      agent[n].pc = "run", route[n][i] = d,
                      route'[n][i] \notin {d, None}, peer[n][d] \in Live
               PROVE  FALSE
    OBVIOUS
  <2>0. /\ TypeOK /\ TypeInv /\ PeerInv /\ TableInv /\ d # None
        /\ route \in [Nodes -> [Ips -> Devices \cup {None}]]
    BY ConstantsAssumption DEF AddressInv, RemovalInv, QueueInv, PeerInv, TableInv,
       TypeInv, TypeOK
  <2>1. \A D : ~RemovePeers(n, D)
    BY <2>0 DEF RemovePeers
  <2>2. Execute(n) \/ ExecuteFails(n)
    BY <2>0, <2>1, AgentMoves DEF CleanPeers, NodeReboot
  <2>3. PICK c \in Cids : c = Least(agent[n].batch) /\ c \in agent[n].batch
    BY <2>0, AnsweredKnown
  <2>4. Apply(n, c)
    BY <2>0, <2>2, <2>3 DEF Execute, ExecuteFails, kernelVars
  <2>5. command[c].type = "ADD_PEER" /\ AddPeer(n, command[c].sid)
    BY <2>1, <2>4 DEF Apply
  <2>6. PICK t \in Sids : t = command[c].sid /\ c \in Additions(t)
    BY <2>0, <2>5, RowOfCommand DEF Additions
  <2>7. session[t].ip = i /\ session[t].dev # d
    BY <2>0, <2>5, <2>6 DEF AddPeer
  <2>8. PICK s \in Live : s = peer[n][d]
    OBVIOUS
  <2>9. session[s].ip = i /\ session[s].dev = d /\ session[s].node = n
    BY <2>0, <2>8 DEF AddressInv, RoutesFit, PeerInv, PeersKnown
  <2>10. s = t
    BY <2>3, <2>6, <2>7, <2>8, <2>9 DEF AddressInv, NoClash
  <2> QED
    BY <2>7, <2>9, <2>10
<1>2. AddressInv /\ [Next]_vars => AddressInv'
  BY AddressStep
<1> QED
  BY <1>1, <1>2, AddressInit, PTL DEF Spec, NeverStolen

-----------------------------------------------------------------------------
(***************************************************************************)
(* Peers.  Where, besides, no node restarts, the peer and the route of a   *)
(* live session whose addition was carried out are on its node, unless its *)
(* agent was given a removal for the same key afterwards.                  *)
(***************************************************************************)
\* The addition of session s was carried out, and its answer is due or was given.
Executed(s) ==
    session[s].status = "ACTIVE" \/ \E a \in Additions(s) : Answered(a)
\* Its node has its peer and its route.
Installed(s) ==
    LET n == session[s].node
        d == session[s].dev
    IN peer[n][d] = s /\ route[n][session[s].ip] = d
\* And nothing in the hands of the agent takes them off.
Undisturbed(s) ==
    \A b \in agent[session[s].node].batch :
        LET t == command[b].sid IN
        session[t].dev = session[s].dev =>
            /\ command[b].type = "ADD_PEER" => t = s
            /\ command[b].type = "REMOVE_PEER" => command[b].tries > 1
\* The node was given a removal for the same key that is younger than the
\* addition or was delivered once more.
Excused(s) ==
    \E c \in Cids :
        /\ command[c].type = "REMOVE_PEER"
        /\ session[command[c].sid].dev = session[s].dev
        /\ command[c].tries > 1 \/ \E a \in Additions(s) : a < c

\* Nothing is delivered to a node before an older removal is.
RemovalsFirst ==
    \A a, c \in Cids :
        /\ command[a].type = "ADD_PEER" /\ command[c].type = "REMOVE_PEER"
        /\ NodeOf(a) = NodeOf(c) /\ c < a /\ command[a].tries > 0
        => command[c].tries > 0
\* The addition of an active session was delivered.
ActiveDelivered ==
    \A s \in Sids : session[s].status = "ACTIVE" =>
        \A a \in Additions(s) : command[a].tries > 0
\* The peer of an executed addition is held.
PeerHeld ==
    \A s \in Live : Executed(s) => (Installed(s) /\ Undisturbed(s)) \/ Excused(s)

\* The inductive invariant about the kernel of a node.
KernelInv ==
    /\ AddressInv
    /\ RemovalsFirst
    /\ ActiveDelivered
    /\ PeerHeld

\* Two live sessions have two devices.
LEMMA OneOfDevice ==
  ASSUME QueueInv, NEW s \in Live, NEW t \in Live, session[s].dev = session[t].dev
  PROVE  s = t
<1>1. /\ s \in Sids /\ t \in Sids
      /\ session[s].status # "NONE" /\ session[t].status # "NONE"
  BY DEF Live, IsLive, LiveStates
<1>2. PICK a \in Additions(s), b \in Additions(t) : TRUE
  BY <1>1 DEF QueueInv, AdditionLeads
<1>3. a <= b /\ b <= a
  BY <1>1, <1>2 DEF QueueInv, AdditionNewest
<1>4. a \in Nat /\ b \in Nat
  BY <1>2, RowOfCommand DEF QueueInv, PeerInv, TableInv, TypeInv, Additions
<1> QED
  BY <1>2, <1>3, <1>4 DEF Additions

\* A heartbeat claims the oldest commands first.
LEMMA RemovalsFirstStep ==
  ASSUME PeerInv, Delivered, RemovalsFirst, [Next]_vars
  PROVE  RemovalsFirst'
<1>0. TypeOK /\ TypeInv /\ TableInv
  BY DEF PeerInv, TableInv, TypeInv
<1>1. SUFFICES ASSUME NEW a \in Cids', NEW c \in Cids',
                      command'[a].type = "ADD_PEER", command'[c].type = "REMOVE_PEER",
                      session'[command'[a].sid].node = session'[command'[c].sid].node,
                      c < a, command'[a].tries > 0
               PROVE  command'[c].tries > 0
  BY DEF RemovalsFirst, NodeOf
<1>2. a \in Cids /\ \A b \in Cids : b \in Nat
  BY <1>0, <1>1, NewRows, RowOfCommand
<1>3. c \in Cids
  <2>1. c \notin Cids => a < c
    BY <1>0, <1>2, NewRows
  <2>2. c \in Nat
    <3>1. TypeOK'
      BY <1>0, TypeStep DEF TypeInv
    <3> QED
      BY <3>1 DEF TypeOK, Cids
  <2> QED
    BY <1>1, <1>2, <2>1, <2>2
<1>4. /\ command[a].type = "ADD_PEER" /\ command[c].type = "REMOVE_PEER"
      /\ NodeOf(a) = NodeOf(c)
  <2>1. ASSUME NEW b \in Cids PROVE session'[command'[b].sid].node = NodeOf(b)
    <3>1. command[b].sid \in Sids /\ session[command[b].sid].status # "NONE"
      BY <1>0, RowOfCommand DEF PeerInv, CommandsKnown
    <3> QED
      BY <1>0, <3>1, QueueKept, UsedRow DEF NodeOf
  <2> QED
    BY <1>0, <1>1, <1>2, <1>3, <2>1, QueueKept
<1>5. CASE command[a].tries > 0
  <2>1. command[c].tries > 0
    BY <1>1, <1>2, <1>3, <1>4, <1>5 DEF RemovalsFirst
  <2> QED
    BY <1>0, <1>3, <2>1, TriesGrow
<1>6. CASE ~(command[a].tries > 0)
  <2>1. PICK n \in Nodes : ServeHeartbeat(n) /\ a \in Claimed(n)
    BY <1>0, <1>1, <1>2, <1>6, TriesGrow
  <2>2. NodeOf(c) = n
    BY <1>0, <1>4, <2>1, ClaimedRow
  <2>3. CASE command[c].status = "PENDING"
    <3>1. c \in Deliverable(n)
      BY <1>3, <1>4, <2>2, <2>3 DEF Deliverable, Stale
    <3>2. c \in Claimed(n)
      BY <1>0, <1>1, <2>1, <3>1, ClaimsOldest
    <3>3. command'[c].tries = command[c].tries + 1
      BY <1>0, <2>1, <3>2, ClaimedRow
    <3> QED
      BY <1>0, <1>3, <3>3, TriesGrow
  <2>4. CASE command[c].status # "PENDING"
    <3>1. command[c].tries > 0
      BY <1>3, <1>4, <2>4 DEF Delivered
    <3> QED
      BY <1>0, <1>3, <3>1, TriesGrow
  <2> QED
    BY <2>3, <2>4
<1> QED
  BY <1>5, <1>6

\* Only the ack of its addition makes a session active.
LEMMA ActivatedByAck ==
  ASSUME PeerInv, [Next]_vars, NEW s \in Sids,
         session'[s].status = "ACTIVE", session[s].status # "ACTIVE"
  PROVE  \E a \in Additions(s) : Answered(a)
<1>0. TypeOK /\ TypeInv /\ session \in [Sids -> SessionRows]
  BY DEF PeerInv, TableInv, TypeInv, TypeOK
<1>1. ASSUME NEW r \in Requests, CreateSession(r) PROVE FALSE
  <2>1. PICK ip \in Ips : session' = [session EXCEPT ![Least(Unused)] =
          [status |-> "PENDING", dev |-> job[r].dev, node |-> job[r].node, ip |-> ip]]
    BY <1>0, <1>1, Creation
  <2> QED
    BY <1>0, <2>1
<1>2. ASSUME NEW r \in Requests, CloseCommit(r) PROVE FALSE
  BY <1>0, <1>2 DEF CloseCommit, SessionRows
<1>3. ASSUME NEW S \in SUBSET Live, CloseInTransaction(S) PROVE FALSE
  <2>1. \/ session'[s] = session[s]
        \/ session'[s] = [session[s] EXCEPT !.status = "CLOSED"]
    BY <1>3 DEF CloseInTransaction
  <2> QED
    BY <1>0, <2>1 DEF SessionRows
<1>4. ASSUME NEW c \in Cids, NEW ok \in BOOLEAN, ServeAck(c, ok), Answered(c)
      PROVE  \E a \in Additions(s) : Answered(a)
  <2>1. command[c].sid \in Sids
    BY <1>0, RowOfCommand
  <2>2. session' # session
    OBVIOUS
  <2>3. /\ command[c].type = "ADD_PEER"
        /\ \E st : session' = [session EXCEPT ![command[c].sid].status = st]
    BY <1>4, <2>2 DEF ServeAck, AckEffect
  <2>4. command[c].sid = s
    BY <1>0, <2>1, <2>3
  <2> QED
    BY <1>4, <2>3, <2>4 DEF Additions
<1>5. SessionSteps
  BY <1>0, SessionKept
<1> QED
  BY <1>1, <1>2, <1>3, <1>4, <1>5 DEF SessionSteps

\* A session is made active by the ack of an addition that was delivered.
LEMMA ActiveDeliveredStep ==
  ASSUME QueueInv, ActiveDelivered, [Next]_vars
  PROVE  ActiveDelivered'
<1>0. TypeInv /\ TableInv /\ PeerInv
  BY DEF QueueInv, PeerInv, TableInv
<1>1. SUFFICES ASSUME NEW s \in Sids, session'[s].status = "ACTIVE",
                      NEW a \in Additions(s)'
               PROVE  command'[a].tries > 0
  BY DEF ActiveDelivered
<1>2. session[s].status # "NONE"
  <2>1. session[s].status = "ACTIVE" \/ Additions(s) # {}
    BY <1>0, <1>1, ActivatedByAck
  <2> QED
    BY <1>0, <2>1, SessionQueue
<1>3. a \in Additions(s) /\ a \in Cids
  BY <1>0, <1>2, SessionQueue, Creation DEF Additions
<1>4. command[a].tries > 0
  <2>1. CASE session[s].status = "ACTIVE"
    BY <1>3, <2>1 DEF ActiveDelivered
  <2>2. CASE session[s].status # "ACTIVE"
    <3>1. PICK b \in Additions(s) : Answered(b)
      BY <1>0, <1>1, <2>2, ActivatedByAck
    <3>2. a = b
      BY <1>3, <3>1 DEF QueueInv, AdditionLeads
    <3> QED
      BY <1>3, <3>1, <3>2 DEF QueueInv, Delivered
  <2> QED
    BY <2>1, <2>2
<1> QED
  BY <1>0, <1>3, <1>4, TriesGrow

\* A session whose addition is carried out by this step has its peer installed
\* by it.
LEMMA ExecutedStep ==
  ASSUME QueueInv, [Next]_vars, Unfailing,
         NEW s \in Sids, Executed(s)'
  PROVE  \/ Executed(s)
         \/ \E a \in Additions(s) :
               LET n == session[s].node IN
               /\ Execute(n) /\ AddPeer(n, s)
               /\ a = Least(agent[n].batch)
<1>0. TypeOK /\ TypeInv /\ TableInv /\ PeerInv
  BY DEF QueueInv, PeerInv, TableInv, TypeInv
<1>1. CASE session'[s].status = "ACTIVE"
  BY <1>0, <1>1, ActivatedByAck DEF Executed
<1>2. ASSUME NEW a \in Additions(s)', Answered(a)'
      PROVE  \/ Executed(s)
             \/ /\ a \in Additions(s)
                /\ Execute(session[s].node) /\ AddPeer(session[s].node, s)
                /\ a = Least(agent[session[s].node].batch)
  <2>1. CASE Answered(a)
    <3>1. a \in Additions(s)
      BY <1>0, <2>1, AnsweredKnown, SessionQueue
    <3> QED
      BY <2>1, <3>1 DEF Executed
  <2>2. ASSUME NEW n \in Nodes, Execute(n) \/ ExecuteFails(n), a = Least(agent[n].batch)
        PROVE  /\ a \in Additions(s) /\ n = session[s].node
               /\ Execute(n) /\ AddPeer(n, s)
    <3>1. Execute(n) /\ agent[n].pc = "run"
      BY <2>2 DEF Unfailing, Execute, ExecuteFails, Happens
    <3>2. a \in Cids /\ NodeOf(a) = n
      BY <1>0, <2>2, <3>1, AnsweredKnown
    <3>3. a \in Additions(s)
      BY <1>0, <3>2, SessionQueue
    <3>4. command[a].type = "ADD_PEER" /\ command[a].sid = s
      BY <3>3 DEF Additions
    <3> QED
      BY <2>2, <3>1, <3>2, <3>3, <3>4 DEF NodeOf, Execute, Apply
  <2> QED
    BY <1>0, <1>2, <2>1, <2>2, AnswerStep
<1>3. session'[s].status = "ACTIVE" \/ \E a \in Additions(s)' : Answered(a)'
  BY DEF Executed
<1> QED
  BY <1>1, <1>2, <1>3

\* What excuses a session stays in the queue.
LEMMA ExcuseStays ==
  ASSUME PeerInv, [Next]_vars, NEW s \in Sids, session[s].status # "NONE", Excused(s)
  PROVE  Excused(s)'
<1>0. TypeOK /\ TypeInv /\ TableInv
  BY DEF PeerInv, TableInv, TypeInv
<1>1. PICK c \in Cids :
        /\ command[c].type = "REMOVE_PEER"
        /\ session[command[c].sid].dev = session[s].dev
        /\ command[c].tries > 1 \/ \E a \in Additions(s) : a < c
  BY DEF Excused
<1>2. command[c].sid \in Sids /\ session[command[c].sid].status # "NONE"
  BY <1>0, RowOfCommand DEF PeerInv, CommandsKnown
<1>3. /\ c \in Cids' /\ command'[c].type = "REMOVE_PEER"
      /\ command'[c].sid = command[c].sid
  BY <1>0, <1>1, QueueKept
<1>4. session'[command'[c].sid].dev = session'[s].dev
  BY <1>0, <1>1, <1>2, <1>3, UsedRow
<1>5. command[c].tries > 1 => command'[c].tries > 1
  BY <1>0, TriesGrow
<1>6. (\E a \in Additions(s) : a < c) => \E a \in Additions(s)' : a < c
  BY <1>0, SessionQueue
<1> QED
  BY <1>1, <1>3, <1>4, <1>5, <1>6 DEF Excused

\* The constants for which the kernel of a node is settled.
Steady == Dependable /\ "node_reboot" \notin Events

\* No step takes the peer or the route of an executed addition away without an
\* excuse: the additions and removals that follow it in the queue are its own or
\* excuse it, and a report names dead keys only.
LEMMA PeerHeldStep ==
  ASSUME Steady, AddressInv, RemovalsFirst, ActiveDelivered, PeerHeld, [Next]_vars
  PROVE  PeerHeld'
<1>0. /\ TypeOK /\ TypeInv /\ TableInv /\ PeerInv /\ QueueInv
      /\ session \in [Sids -> SessionRows]
      /\ agent \in [Nodes -> Agents]
      /\ peer \in [Nodes -> [Devices -> Sids \cup {0}]]
      /\ route \in [Nodes -> [Ips -> Devices \cup {None}]]
      /\ None \notin Devices
  BY ConstantsAssumption DEF AddressInv, RemovalInv, QueueInv, PeerInv, TableInv,
     TypeInv, TypeOK
<1>1. SUFFICES ASSUME NEW s \in Sids, s \in Live', Executed(s)', ~Excused(s)'
               PROVE  Installed(s)' /\ Undisturbed(s)'
  BY DEF PeerHeld, Live
<1> DEFINE n == session[s].node
           d == session[s].dev
           i == session[s].ip
<1>2. \/ Executed(s)
      \/ \E a \in Additions(s) : /\ Execute(n) /\ AddPeer(n, s)
                                 /\ a = Least(agent[n].batch)
  BY <1>0, <1>1, ExecutedStep DEF Steady, Dependable
<1>3. s \in Live /\ session[s].status # "NONE"
  <2>1. session[s].status = "ACTIVE" \/ Additions(s) # {}
    BY <1>2 DEF Executed
  <2>2. session[s].status # "NONE"
    BY <1>0, <2>1, SessionQueue
  <2> QED
    BY <1>0, <1>1, <2>2, LiveStep
<1>4. /\ n \in Nodes /\ d \in Devices /\ i \in Ips /\ s # 0
      /\ session'[s].node = n /\ session'[s].dev = d /\ session'[s].ip = i
  BY <1>0, <1>3, UsedRow DEF QueueInv, RowsFull, Sids
<1>5. ~Excused(s)
  BY <1>0, <1>1, <1>3, ExcuseStays
<1>6. ASSUME NEW b \in agent[n].batch \cup Claimed(n)
      PROVE  /\ b \in Cids
             /\ command[b].type \in {"ADD_PEER", "REMOVE_PEER"}
             /\ command[b].sid \in Sids
             /\ command'[b].type = command[b].type
             /\ command'[b].sid = command[b].sid
             /\ session'[command[b].sid].dev = session[command[b].sid].dev
             /\ NodeOf(b) = n
  <2>1. b \in Cids /\ NodeOf(b) = n
    BY <1>0, <1>4 DEF PeerInv, BatchesOwn, Claimed, Deliverable
  <2>2. /\ command[b].sid \in Sids /\ command[b] \in CommandRows
        /\ session[command[b].sid].status # "NONE"
    BY <1>0, <2>1, RowOfCommand DEF PeerInv, CommandsKnown
  <2> QED
    BY <1>0, <2>1, <2>2, QueueKept, UsedRow DEF CommandRows
<1>7. ASSUME NEW a \in Additions(s), NEW c \in Cids,
             command[c].type = "REMOVE_PEER", session[command[c].sid].dev = d
      PROVE  c < a /\ ~(command[c].tries > 1)
  <2>1. ~(a < c) /\ ~(command[c].tries > 1)
    BY <1>5, <1>7 DEF Excused
  <2>2. a # c /\ a \in Nat /\ c \in Nat
    BY <1>0, <1>7, RowOfCommand DEF Additions
  <2> QED
    BY <2>1, <2>2
<1>8. PICK a \in Additions(s) : \A b \in Additions(s) : b = a
  BY <1>3 DEF AddressInv, RemovalInv, QueueInv, AdditionLeads
<1>9. ~ExecuteFails(n) /\ ~NodeReboot(n)
  BY DEF Steady, Dependable, Unfailing, ExecuteFails, NodeReboot, Happens

<1>10. ASSUME \E b \in Additions(s) : /\ Execute(n) /\ AddPeer(n, s)
                                      /\ b = Least(agent[n].batch)
       PROVE  Installed(s)' /\ Undisturbed(s)'
  <2>1. Execute(n) /\ AddPeer(n, s) /\ a = Least(agent[n].batch)
    BY <1>8, <1>10
  <2>2. peer'[n][d] = s /\ route'[n][i] = d
    BY <1>0, <1>4, <2>1 DEF AddPeer
  <2>3. Installed(s)'
    BY <1>4, <2>2 DEF Installed
  <2>4. agent'[n].batch = agent[n].batch
    BY <1>0, <1>4, <2>1 DEF Execute, Agents
  <2>5. /\ a \in agent[n].batch /\ a \in Cids
        /\ \A b \in agent[n].batch : a <= b
    BY <1>0, <1>4, <2>1, AnsweredKnown DEF Execute
  <2>6. ASSUME NEW b \in agent[n].batch, session[command[b].sid].dev = d
        PROVE  command[b].type = "ADD_PEER" /\ command[b].sid = s
    <3>1. b \in Cids /\ a <= b /\ a \in Nat /\ b \in Nat
      BY <1>0, <1>6, <2>5, RowOfCommand
    <3>2. command[b].type # "REMOVE_PEER"
      BY <1>7, <2>6, <3>1
    <3>3. command[b].type = "ADD_PEER" /\ b \in Additions(command[b].sid)
      BY <1>6, <3>1, <3>2 DEF Additions
    <3>4. b <= a
      BY <1>3, <1>6, <2>6, <3>3 DEF AddressInv, RemovalInv, QueueInv, AdditionNewest
    <3>5. b = a
      BY <3>1, <3>4
    <3> QED
      BY <3>3, <3>5 DEF Additions
  <2>7. Undisturbed(s)'
    BY <1>4, <1>6, <2>4, <2>6 DEF Undisturbed
  <2> QED
    BY <2>3, <2>7

<1>11. ASSUME Executed(s)
       PROVE  Installed(s)' /\ Undisturbed(s)'
  <2>1. /\ peer[n][d] = s /\ route[n][i] = d
        /\ Undisturbed(s)
    BY <1>3, <1>5, <1>11 DEF PeerHeld, Installed
  <2>2. command[a].tries > 0
    <3>1. CASE session[s].status = "ACTIVE"
      BY <3>1 DEF ActiveDelivered
    <3>2. CASE Answered(a)
      BY <1>0, <3>2 DEF QueueInv, Delivered, Additions
    <3> QED
      BY <1>8, <1>11, <3>1, <3>2 DEF Executed
  <2>3. ASSUME peer'[n][d] = s, route'[n][i] = d PROVE Installed(s)'
    BY <1>4, <2>3 DEF Installed
  <2>4. ASSUME agent'[n].batch \subseteq agent[n].batch PROVE Undisturbed(s)'
    <3>1. ASSUME NEW b \in agent'[n].batch, session'[command'[b].sid].dev = d
          PROVE  /\ command'[b].type = "ADD_PEER" => command'[b].sid = s
                 /\ command'[b].type = "REMOVE_PEER" => command'[b].tries > 1
      <4>1. b \in agent[n].batch /\ session[command[b].sid].dev = d
        BY <1>6, <2>4, <3>1
      <4>2. /\ command[b].type = "ADD_PEER" => command[b].sid = s
            /\ command[b].type = "REMOVE_PEER" => command[b].tries > 1
        BY <2>1, <4>1 DEF Undisturbed
      <4>3. command[b].tries > 1 => command'[b].tries > 1
        BY <1>0, <1>6, <4>1, TriesGrow
      <4> QED
        BY <1>6, <4>1, <4>2, <4>3
    <3> QED
      BY <1>4, <3>1 DEF Undisturbed
  <2>5. ASSUME ServeHeartbeat(n), agent'[n].batch \subseteq Claimed(n)
        PROVE  Undisturbed(s)'
    <3>1. ASSUME NEW b \in agent'[n].batch, session'[command'[b].sid].dev = d
          PROVE  /\ command'[b].type = "ADD_PEER" => command'[b].sid = s
                 /\ command'[b].type = "REMOVE_PEER" => command'[b].tries > 1
      <4>1. b \in Claimed(n) /\ b \in Cids /\ session[command[b].sid].dev = d
        BY <1>6, <2>5, <3>1
      <4>2. CASE command[b].type = "ADD_PEER"
        <5>1. command[b].sid \in Live
          BY <1>0, <1>4, <2>5, <4>1, <4>2, ClaimedRow
        <5>2. command[b].sid = s
          BY <1>0, <1>3, <4>1, <5>1, OneOfDevice
        <5> QED
          BY <1>6, <4>1, <4>2, <5>2
      <4>3. CASE command[b].type = "REMOVE_PEER"
        <5>1. b < a
          BY <1>7, <4>1, <4>3
        <5>2. NodeOf(a) = NodeOf(b)
          BY <1>6, <4>1 DEF Additions, NodeOf
        <5>3. command[b].tries > 0
          BY <2>2, <4>1, <4>3, <5>1, <5>2 DEF RemovalsFirst, Additions
        <5>4. command'[b].tries = command[b].tries + 1
          BY <1>0, <1>4, <2>5, <4>1, ClaimedRow
        <5>5. command'[b].tries > 1
          BY <1>0, <4>1, <5>3, <5>4, TriesGrow
        <5> QED
          BY <1>6, <4>1, <4>3, <5>5
      <4> QED
        BY <1>6, <4>1, <4>2, <4>3
    <3> QED
      BY <1>4, <3>1 DEF Undisturbed
  <2>6. ASSUME NEW D, d \notin D, RemovePeers(n, D)
        PROVE  peer'[n][d] = s /\ route'[n][i] = d
    BY <1>0, <1>4, <2>1, <2>6 DEF RemovePeers
  <2>7. CASE Execute(n)
    <3>1. PICK c \in Cids : c = Least(agent[n].batch) /\ c \in agent[n].batch
      BY <1>0, <1>4, <2>7, AnsweredKnown DEF Execute
    <3> DEFINE t == command[c].sid
    <3>2. Apply(n, c) /\ agent'[n].batch = agent[n].batch
      BY <1>0, <1>4, <2>7, <3>1 DEF Execute, Agents
    <3>3. t \in Sids /\ command[c].type \in {"ADD_PEER", "REMOVE_PEER"}
      BY <1>6, <3>1
    <3>4. CASE command[c].type = "REMOVE_PEER"
      <4>1. session[t].dev # d
        BY <1>7, <2>1, <3>1, <3>4 DEF Undisturbed
      <4>2. RemovePeers(n, {session[t].dev})
        BY <3>2, <3>4 DEF Apply
      <4> QED
        BY <2>3, <2>4, <2>6, <3>2, <4>1, <4>2
    <3>5. CASE command[c].type = "ADD_PEER"
      <4>1. AddPeer(n, t) /\ c \in Additions(t)
        BY <3>2, <3>5 DEF Apply, Additions
      <4>2. CASE t = s
        BY <1>0, <1>4, <2>3, <2>4, <3>2, <4>1, <4>2 DEF AddPeer
      <4>3. CASE t # s
        <5>1. session[t].dev # d
          BY <2>1, <3>1, <3>5, <4>3 DEF Undisturbed
        <5>2. session[t].ip # i
          BY <1>3, <2>1, <3>1, <3>3, <4>1, <4>3 DEF AddressInv, NoClash
        <5>3. peer'[n][d] = s /\ route'[n][i] = d
          BY <1>0, <1>4, <2>1, <4>1, <5>1, <5>2 DEF AddPeer
        <5> QED
          BY <2>3, <2>4, <3>2, <5>3
      <4> QED
        BY <4>2, <4>3
    <3> QED
      BY <3>3, <3>4, <3>5
  <2>8. CASE CleanPeers(n)
    <3>1. d \notin agent[n].seen
      BY <1>0, <1>3, <1>4, <2>1, <2>8 DEF CleanPeers, PeerInv, AnswersDead
    <3>2. agent'[n].batch = {}
      BY <1>0, <1>4, <2>8 DEF CleanPeers, Resting
    <3>3. RemovePeers(n, agent[n].seen)
      BY <2>8 DEF CleanPeers
    <3> QED
      BY <2>3, <2>4, <2>6, <3>1, <3>2, <3>3
  <2>9. CASE /\ peer'[n] = peer[n] /\ route'[n] = route[n]
             /\ \/ agent'[n].batch \subseteq agent[n].batch
                \/ ServeHeartbeat(n) /\ agent'[n].batch \subseteq Claimed(n)
    BY <2>1, <2>3, <2>4, <2>5, <2>9
  <2> QED
    BY <1>0, <1>4, <1>9, <2>7, <2>8, <2>9, AgentMoves
<1> QED
  BY <1>2, <1>10, <1>11

\* At the start no session is live.
LEMMA KernelInit == Init => KernelInv
<1> SUFFICES ASSUME Init PROVE KernelInv
  OBVIOUS
<1>1. /\ Live = {} /\ Cids = {}
      /\ \A s \in Sids : session[s].status = "NONE"
  BY DEF Init, NoSession, Cids, Live, IsLive, LiveStates
<1> QED
  BY <1>1, AddressInit DEF KernelInv, RemovalsFirst, ActiveDelivered, PeerHeld

\* The inductive step for the kernel of a node.
LEMMA KernelStep ==
  ASSUME Steady
  PROVE  KernelInv /\ [Next]_vars => KernelInv'
<1> SUFFICES ASSUME KernelInv, [Next]_vars PROVE KernelInv'
  OBVIOUS
<1>0. AddressInv /\ QueueInv /\ PeerInv /\ Delivered
  BY DEF KernelInv, AddressInv, RemovalInv, QueueInv
<1>1. AddressInv'
  BY <1>0, AddressStep DEF Steady
<1> QED
  BY <1>0, <1>1, RemovalsFirstStep, ActiveDeliveredStep, PeerHeldStep DEF KernelInv

\* A session shown as ready has its peer and its address on the node, its
\* address is leased to it, and a removed peer stays removed, where commands do
\* not fail and no node restarts.
THEOREM KernelKept == Steady => (Spec => []KernelAgrees)
<1> SUFFICES ASSUME Steady PROVE Spec => []KernelAgrees
  OBVIOUS
<1>1. KernelInv => PeerOfActive
  <2> SUFFICES ASSUME KernelInv, NEW s \in Live, session[s].status = "ACTIVE"
               PROVE  Installed(s) \/ Excused(s)
    BY DEF PeerOfActive, Installed, Excused
  <2> QED
    BY DEF KernelInv, PeerHeld, Executed
<1>2. KernelInv => LeaseKept
  BY DEF KernelInv, AddressInv, LeaseHeld, Using, LeaseKept
<1>3. KernelInv /\ [Next]_vars => KernelInv'
  BY KernelStep
<1>4. Spec => []RemovedStaysRemoved
  BY RemovedKept DEF Steady, Dependable
<1> QED
  BY <1>1, <1>2, <1>3, <1>4, KernelInit, PTL DEF Spec, KernelAgrees
=============================================================================
