------------------------ MODULE NodeCredentialsProofs ------------------------
(***************************************************************************)
(* Proofs about NodeCredentials: its types; that, as long as no heartbeat  *)
(* is handled after its agent gave up on it, the token in a node's env     *)
(* file is one the server has not retired; and that, if moreover nobody    *)
(* disables a node, an agent exits for good for one of two reasons.        *)
(***************************************************************************)
EXTENDS NodeCredentials, TLAPS

-----------------------------------------------------------------------------
(***************************************************************************)
(* Types.  TypeOK is inductive together with two facts: an agent runs with  *)
(* a token, as it exits at once without one, and an enrollment has the     *)
(* invite it began with.                                                   *)
(***************************************************************************)
Running(n) == agent[n].pc \notin {"off", "halted"}
\* A running agent has a token.
Armed == \A n \in Nodes : Running(n) => agent[n].tok # None
\* An enrollment has the invite it began with.
Invited == \A n \in Nodes : enroll[n].pc # "idle" => enroll[n].invite # None
\* Types, with those two facts.
TypeInv == TypeOK /\ Armed /\ Invited

\* The states of an agent that the actions write.
LEMMA AgentTyped ==
  ASSUME NEW a \in Agents
  PROVE  /\ \A pc \in {"idle", "beat", "rotate", "issue", "persist"} :
              [a EXCEPT !.pc = pc] \in Agents
         /\ \A pc \in {"idle", "rotate"} : [a EXCEPT !.fails = 0, !.pc = pc] \in Agents
         /\ \A t \in Tokens : [a EXCEPT !.pc = "persist", !.new = t] \in Agents
         /\ [a EXCEPT !.pc = "idle", !.tok = a.new, !.new = None] \in Agents
         /\ a.fails + 1 < MaxAuthFailures => [a EXCEPT !.fails = a.fails + 1] \in Agents
         /\ Halted \in Agents /\ Off \in Agents
         /\ \A t \in Tokens : [pc |-> "idle", tok |-> t, new |-> None, fails |-> 0] \in Agents
<1> USE CredentialsAssumption DEF CredentialsAssumption, Agents
<1>1. \A pc \in {"idle", "beat", "rotate", "issue", "persist"} :
        [a EXCEPT !.pc = pc] \in Agents
  OBVIOUS
<1>2. \A pc \in {"idle", "rotate"} : [a EXCEPT !.fails = 0, !.pc = pc] \in Agents
  <2>1. 0 \in 0 .. MaxAuthFailures OBVIOUS
  <2>2. TAKE pc \in {"idle", "rotate"}
  <2>3. QED BY <2>1
<1>3. \A t \in Tokens : [a EXCEPT !.pc = "persist", !.new = t] \in Agents
  OBVIOUS
<1>4. [a EXCEPT !.pc = "idle", !.tok = a.new, !.new = None] \in Agents
  OBVIOUS
<1>5. a.fails + 1 < MaxAuthFailures => [a EXCEPT !.fails = a.fails + 1] \in Agents
  <2>1. MaxAuthFailures \in Nat /\ a.fails \in Int OBVIOUS
  <2>2. ASSUME a.fails + 1 < MaxAuthFailures
        PROVE  [a EXCEPT !.fails = a.fails + 1] \in Agents
    <3>1. a.fails >= 0 /\ a.fails + 1 \in 0 .. MaxAuthFailures BY <2>1, <2>2
    <3>2. QED BY <3>1
  <2>3. QED BY <2>2
<1>6. Halted \in Agents /\ Off \in Agents
  BY DEF Halted, Off
<1>7. \A t \in Tokens : [pc |-> "idle", tok |-> t, new |-> None, fails |-> 0] \in Agents
  OBVIOUS
<1>8. QED BY <1>1, <1>2, <1>3, <1>4, <1>5, <1>6, <1>7

\* The rows of the tokens table that the actions write.
LEMMA RowTyped ==
  ASSUME NEW r \in TokenRows
  PROVE  /\ [r EXCEPT !.state = "retired"] \in TokenRows
         /\ [r EXCEPT !.state = "withdrawn"] \in TokenRows
         /\ [r EXCEPT !.age = "due"] \in TokenRows
         /\ [r EXCEPT !.age = "expired"] \in TokenRows
         /\ \A n \in Nodes, i \in Invites \cup {None} :
              [node |-> n, state |-> "valid", age |-> "fresh", invite |-> i] \in TokenRows
BY DEF TokenRows

\* A heartbeat handler keeps both tables well typed.
LEMMA BeatTyped ==
  ASSUME TypeOK, NEW n \in Nodes, NEW t \in Tokens, ServeBeat(n, t)
  PROVE  status' \in [Nodes -> Statuses] /\ token' \in [Tokens -> TokenRows]
BY RowTyped DEF TypeOK, ServeBeat, Statuses

\* The initial state is well typed.
LEMMA InitTyped == ASSUME Init PROVE TypeInv
<1> USE DEF Init
<1>1. token \in [Tokens -> TokenRows] BY DEF TokenRows, NoToken
<1>2. enroll \in [Nodes -> Enrollments] BY DEF Enrollments, Waiting, Statuses
<1>3. agent \in [Nodes -> Agents]
  BY CredentialsAssumption DEF CredentialsAssumption, Agents, Halted
<1>4. TypeOK BY <1>1, <1>2, <1>3 DEF TypeOK, Statuses
<1>5. Armed BY DEF Armed, Running, Halted
<1>6. Invited BY DEF Invited, Waiting
<1>7. QED BY <1>4, <1>5, <1>6 DEF TypeInv

\* Every step keeps the types.
LEMMA StepTyped == ASSUME TypeInv, [Next]_vars PROVE TypeInv'
<1> USE DEF TypeInv
<1>n. \A m \in Nodes : agent[m] \in Agents BY DEF TypeOK
<1>a. \A m \in Nodes : Running(m) => agent[m].tok \in Tokens
  BY DEF TypeOK, Armed, Running, Agents
<1>1. CASE UNCHANGED vars
  BY <1>1 DEF vars, TypeOK, Armed, Invited, Running
<1>2. ASSUME NEW n \in Nodes, NEW i \in Invites, EnrollCheck(n, i) PROVE TypeInv'
  <2>1. enroll' \in [Nodes -> Enrollments]
    BY <1>2 DEF EnrollCheck, TypeOK, Enrollments
  <2>2. Invited'
    BY <1>2, CredentialsAssumption DEF EnrollCheck, TypeOK, Invited, CredentialsAssumption
  <2>3. QED BY <1>2, <2>1, <2>2 DEF EnrollCheck, TypeOK, Armed, Running
<1>3. ASSUME NEW n \in Nodes, EnrollSteps(n) PROVE TypeInv'
  <2>1. CASE EnrollMint(n)
    <3>1. PICK t \in Tokens : /\ Mint(t, n, enroll[n].invite)
                              /\ enroll' = [enroll EXCEPT ![n].pc = "minted", ![n].tok = t]
      BY <2>1 DEF EnrollMint
    <3>2. enroll' \in [Nodes -> Enrollments]
      <4>1. enroll[n] \in Enrollments BY DEF TypeOK
      <4>2. [enroll[n] EXCEPT !.pc = "minted", !.tok = t] \in Enrollments
        BY <4>1 DEF Enrollments
      <4>3. QED BY <3>1, <4>2 DEF TypeOK
    <3>3. enroll[n].invite \in Invites \cup {None}
      BY DEF TypeOK, Enrollments
    <3>4. token' \in [Tokens -> TokenRows]
      BY <3>1, <3>3 DEF TypeOK, Mint, TokenRows
    <3>5. status' \in [Nodes -> Statuses]
      BY <2>1 DEF EnrollMint, TypeOK, Statuses
    <3>6. Invited' BY <2>1, <3>1 DEF EnrollMint, TypeOK, Invited, Enrollments
    <3>7. QED BY <2>1, <3>2, <3>4, <3>5, <3>6 DEF EnrollMint, TypeOK, Armed, Running
  <2>2. CASE EnrollMark(n)
    <3>1. enroll' \in [Nodes -> Enrollments]
      BY <2>2 DEF EnrollMark, TypeOK, Enrollments
    <3>2. enroll[n].pc = "minted" /\ enroll[n].invite # None
      BY <2>2 DEF EnrollMark, Invited
    <3>3. used' \subseteq Invites
      BY <2>2, <3>2 DEF EnrollMark, TypeOK, Enrollments
    <3>4. Invited' BY <2>2 DEF EnrollMark, TypeOK, Invited, Enrollments
    <3>5. QED BY <2>2, <3>1, <3>3, <3>4 DEF EnrollMark, TypeOK, Armed, Running
  <2>3. CASE EnrollStore(n)
    <3>1. enroll' \in [Nodes -> Enrollments]
      BY <2>3 DEF EnrollStore, TypeOK, Enrollments, Waiting, Statuses
    <3>2. disk' \in [Nodes -> Tokens \cup {None}]
      BY <2>3 DEF EnrollStore, TypeOK, Enrollments
    <3>3. agent' \in [Nodes -> Agents]
      BY <1>n, <2>3, AgentTyped DEF EnrollStore, TypeOK
    <3>4. Armed'
      BY <2>3 DEF EnrollStore, TypeOK, Armed, Running, Off, Halted
    <3>5. Invited' BY <2>3 DEF EnrollStore, TypeOK, Invited, Waiting
    <3>6. QED BY <2>3, <3>1, <3>2, <3>3, <3>4, <3>5 DEF EnrollStore, TypeOK
  <2>4. CASE EnrollFails(n)
    <3>1. enroll' \in [Nodes -> Enrollments]
      BY <2>4 DEF EnrollFails, TypeOK, Enrollments, Waiting, Statuses
    <3>2. Invited' BY <2>4 DEF EnrollFails, TypeOK, Invited, Waiting
    <3>3. QED BY <2>4, <3>1, <3>2 DEF EnrollFails, Happens, TypeOK, Armed, Running
  <2>5. QED BY <1>3, <2>1, <2>2, <2>3, <2>4 DEF EnrollSteps
<1>4. ASSUME NEW n \in Nodes, BeatSteps(n) PROVE TypeInv'
  <2>1. CASE BeatAccepted(n)
    <3>1. agent' \in [Nodes -> Agents]
      BY <1>n, <2>1, AgentTyped DEF BeatAccepted, TypeOK
    <3>2. Armed' BY <2>1 DEF BeatAccepted, TypeOK, Armed, Running, Agents
    <3>3. QED BY <2>1, <3>1, <3>2 DEF BeatAccepted, TypeOK, Invited
  <2>2. CASE BeatRefused(n)
    <3>1. agent' \in [Nodes -> Agents]
      BY <1>n, <2>2, AgentTyped, ZenonT(30) DEF BeatRefused, Refused, TypeOK
    <3>2. Armed'
      BY <2>2 DEF BeatRefused, Refused, TypeOK, Armed, Running, Agents, Halted
    <3>3. QED BY <2>2, <3>1, <3>2 DEF BeatRefused, TypeOK, Invited
  <2>3. CASE Beat(n)
    <3>1. agent' \in [Nodes -> Agents]
      BY <1>n, <2>3, AgentTyped DEF Beat, TypeOK
    <3>2. Armed' BY <2>3 DEF Beat, TypeOK, Armed, Running, Agents
    <3>3. agent[n].tok \in Tokens BY <1>a, <2>3 DEF Beat, Running
    <3>4. status' \in [Nodes -> Statuses] /\ token' \in [Tokens -> TokenRows]
      BY <2>3, <3>3, BeatTyped DEF Beat
    <3>5. QED BY <2>3, <3>1, <3>2, <3>4 DEF Beat, TypeOK, Invited
  <2>4. CASE BeatReplyLost(n)
    <3>1. agent' \in [Nodes -> Agents]
      BY <1>n, <2>4, AgentTyped DEF BeatReplyLost, TypeOK
    <3>2. Armed' BY <2>4 DEF BeatReplyLost, TypeOK, Armed, Running, Agents
    <3>3. agent[n].tok \in Tokens BY <1>a, <2>4 DEF BeatReplyLost, Running
    <3>4. status' \in [Nodes -> Statuses] /\ token' \in [Tokens -> TokenRows]
      BY <2>4, <3>3, BeatTyped DEF BeatReplyLost
    <3>5. QED BY <2>4, <3>1, <3>2, <3>4 DEF BeatReplyLost, Happens, TypeOK, Invited
  <2>5. CASE BeatTimesOut(n)
    <3>1. agent' \in [Nodes -> Agents]
      BY <1>n, <2>5, AgentTyped DEF BeatTimesOut, TypeOK
    <3>2. Armed' BY <2>5 DEF BeatTimesOut, TypeOK, Armed, Running, Agents
    <3>3. agent[n].tok \in Tokens BY <1>a, <2>5 DEF BeatTimesOut, Running
    <3>4. late' \subseteq [node : Nodes, tok : Tokens]
      BY <2>5, <3>3 DEF BeatTimesOut, TypeOK
    <3>5. QED BY <2>5, <3>1, <3>2, <3>4 DEF BeatTimesOut, Happens, TypeOK, Invited
  <2>6. QED BY <1>4, <2>1, <2>2, <2>3, <2>4, <2>5 DEF BeatSteps
<1>5. ASSUME NEW n \in Nodes, RotateSteps(n) PROVE TypeInv'
  <2>1. CASE RotateAccepted(n)
    <3>1. agent' \in [Nodes -> Agents]
      BY <1>n, <2>1, AgentTyped DEF RotateAccepted, TypeOK
    <3>2. Armed' BY <2>1 DEF RotateAccepted, TypeOK, Armed, Running, Agents
    <3>3. QED BY <2>1, <3>1, <3>2 DEF RotateAccepted, TypeOK, Invited
  <2>2. CASE RotateSkipped(n)
    <3>1. agent' \in [Nodes -> Agents]
      BY <1>n, <2>2, AgentTyped DEF RotateSkipped, TypeOK
    <3>2. Armed' BY <2>2 DEF RotateSkipped, TypeOK, Armed, Running, Agents
    <3>3. QED BY <2>2, <3>1, <3>2 DEF RotateSkipped, TypeOK, Invited
  <2>3. CASE RotateRefused(n)
    <3>1. agent' \in [Nodes -> Agents]
      BY <1>n, <2>3, AgentTyped DEF RotateRefused, TypeOK
    <3>2. Armed' BY <2>3 DEF RotateRefused, TypeOK, Armed, Running, Agents
    <3>3. QED BY <2>3, <3>1, <3>2 DEF RotateRefused, TypeOK, Invited
  <2>4. CASE Rotate(n)
    <3>1. PICK t \in Tokens :
            /\ Mint(t, n, None)
            /\ \/ agent' = [agent EXCEPT ![n].pc = "persist", ![n].new = t]
               \/ agent' = [agent EXCEPT ![n].pc = "idle"]
      BY <2>4 DEF Rotate, Issue
    <3>2. agent' \in [Nodes -> Agents]
      <4>1. /\ [agent[n] EXCEPT !.pc = "persist", !.new = t] \in Agents
            /\ [agent[n] EXCEPT !.pc = "idle"] \in Agents
        BY <1>n, AgentTyped
      <4>2. QED BY <3>1, <4>1 DEF TypeOK
    <3>3. agent[n].tok # None BY <2>4 DEF Rotate, Armed, Running
    <3>4. Armed' BY <3>1, <3>3 DEF TypeOK, Armed, Running, Agents
    <3>5. token' \in [Tokens -> TokenRows] BY <3>1, RowTyped DEF Mint, TypeOK
    <3>6. events' \in Nat BY <2>4 DEF Rotate, Happens, TypeOK
    <3>7. QED BY <2>4, <3>2, <3>4, <3>5, <3>6 DEF Rotate, TypeOK, Invited
  <2>5. CASE Persist(n)
    <3>1. agent' \in [Nodes -> Agents]
      BY <1>n, <2>5, AgentTyped DEF Persist, TypeOK
    <3>2. disk' \in [Nodes -> Tokens \cup {None}]
      BY <2>5 DEF Persist, Stored, TypeOK, Agents
    <3>3. Armed' BY <2>5 DEF Persist, TypeOK, Armed, Running, Agents
    <3>4. QED BY <2>5, <3>1, <3>2, <3>3 DEF Persist, TypeOK, Invited
  <2>6. CASE TornWrite(n)
    <3>1. agent' \in [Nodes -> Agents]
      BY <1>n, <2>6, AgentTyped DEF TornWrite, TypeOK
    <3>2. disk' \in [Nodes -> Tokens \cup {None}]
      BY <2>6 DEF TornWrite, TypeOK
    <3>3. Armed' BY <2>6 DEF TornWrite, TypeOK, Armed, Running, Off, Halted
    <3>4. QED BY <2>6, <3>1, <3>2, <3>3 DEF TornWrite, Happens, TypeOK, Invited
  <2>7. QED BY <1>5, <2>1, <2>2, <2>3, <2>4, <2>5, <2>6 DEF RotateSteps
<1>6. ASSUME NEW n \in Nodes, Start(n) \/ Crash(n) PROVE TypeInv'
  <2>1. CASE Start(n)
    <3>1. agent' \in [Nodes -> Agents]
      BY <1>n, <2>1, AgentTyped DEF Start, TypeOK
    <3>2. Armed' BY <2>1 DEF Start, TypeOK, Armed, Running, Halted
    <3>3. QED BY <2>1, <3>1, <3>2 DEF Start, TypeOK, Invited
  <2>2. CASE Crash(n)
    <3>1. agent' \in [Nodes -> Agents]
      BY <1>n, <2>2, AgentTyped DEF Crash, TypeOK
    <3>2. Armed' BY <2>2 DEF Crash, TypeOK, Armed, Running, Off, Halted
    <3>3. QED BY <2>2, <3>1, <3>2 DEF Crash, Happens, TypeOK, Invited
  <2>3. QED BY <1>6, <2>1, <2>2
<1>7. ASSUME NEW n \in Nodes,
             Withdraw(n) \/ Disable(n) \/ Enable(n) \/ FindSilent(n) \/ MarkOffline(n)
      PROVE TypeInv'
  <2>1. CASE Withdraw(n)
    <3>1. token' \in [Tokens -> TokenRows] BY <2>1, RowTyped DEF Withdraw, TypeOK
    <3>2. QED BY <2>1, <3>1 DEF Withdraw, Happens, TypeOK, Armed, Running, Invited
  <2>2. CASE Disable(n) \/ Enable(n) \/ FindSilent(n) \/ MarkOffline(n)
    BY <2>2 DEF Disable, Enable, FindSilent, MarkOffline, Happens, TypeOK, Statuses,
                Armed, Running, Invited
  <2>3. QED BY <1>7, <2>1, <2>2
<1>8. ASSUME NEW t \in Tokens, Ages(t) \/ Expires(t) PROVE TypeInv'
  <2>1. token' \in [Tokens -> TokenRows]
    <3>1. CASE Ages(t) BY <3>1, RowTyped DEF Ages, TypeOK
    <3>2. CASE Expires(t) BY <3>2, RowTyped DEF Expires, TypeOK
    <3>3. QED BY <1>8, <3>1, <3>2
  <2>2. QED
    BY <1>8, <2>1 DEF Ages, Expires, Happens, TypeOK, Armed, Running, Invited
<1>9. CASE LateBeat
  <2>1. PICK m \in late : late' = late \ {m} /\ ServeBeat(m.node, m.tok)
    BY <1>9 DEF LateBeat
  <2>2. m.node \in Nodes /\ m.tok \in Tokens BY DEF TypeOK
  <2>3. status' \in [Nodes -> Statuses] /\ token' \in [Tokens -> TokenRows]
    BY <2>1, <2>2, BeatTyped
  <2>4. QED BY <1>9, <2>1, <2>3 DEF LateBeat, TypeOK, Armed, Running, Invited
<1>10. QED
  BY <1>1, <1>2, <1>3, <1>4, <1>5, <1>6, <1>7, <1>8, <1>9 DEF Next

\* Every variable keeps its type, for every number of nodes, tokens and events.
THEOREM CredentialsTyped == Spec => []TypeOK
<1>1. Init => TypeInv BY InitTyped
<1>2. TypeInv /\ [Next]_vars => TypeInv' BY StepTyped
<1>3. TypeInv => TypeOK BY DEF TypeInv
<1>4. QED BY <1>1, <1>2, <1>3, PTL DEF Spec

-----------------------------------------------------------------------------
(***************************************************************************)
(* The token in the env file.  A running agent works with that token; one  *)
(* it has been issued and has not stored yet, and one that an enrollment   *)
(* has obtained, must survive until they are stored.  They do, because the *)
(* only request that retires tokens is the node's own heartbeat and the    *)
(* agent sends none meanwhile: unless an old one is still in service.      *)
(***************************************************************************)
Kept(n, t) == token[t].node = n /\ token[t].state \in {"valid", "withdrawn"}
\* What a node's agent and its enrollment hold is kept.
Held(n) ==
    /\ disk[n] # None => Kept(n, disk[n])
    /\ Running(n) => disk[n] = agent[n].tok
    /\ agent[n].pc = "persist" => agent[n].new # None /\ Kept(n, agent[n].new)
    /\ enroll[n].pc # "idle" => agent[n].pc = "halted"
    /\ enroll[n].pc \in {"minted", "marked"} => enroll[n].tok # None /\ Kept(n, enroll[n].tok)
\* So for every node, and no heartbeat is late.
HeldInv == late = {} /\ \A n \in Nodes : Held(n)

\* The tokens a node and its agent refer to are rows of the table.
LEMMA InTable ==
  ASSUME TypeInv, NEW n \in Nodes
  PROVE  /\ disk[n] # None => disk[n] \in Tokens
         /\ agent[n].new # None => agent[n].new \in Tokens
         /\ enroll[n].tok # None => enroll[n].tok \in Tokens
         /\ Running(n) => agent[n].tok \in Tokens
BY DEF TypeInv, TypeOK, Armed, Running, Agents, Enrollments

\* A new token is kept and takes no kept token's row.
LEMMA MintKeeps ==
  ASSUME TypeOK, NEW n \in Nodes, NEW t \in Tokens, NEW i, Mint(t, n, i)
  PROVE  /\ Kept(n, t)'
         /\ \A m \in Nodes, u \in Tokens : Kept(m, u) => Kept(m, u)'
BY DEF TypeOK, Mint, Kept

\* A heartbeat with the token of the env file retires no token that matters.
LEMMA BeatKeeps ==
  ASSUME TypeOK, NEW n \in Nodes, NEW t \in Tokens, ServeBeat(n, t)
  PROVE  \A m \in Nodes, u \in Tokens : Kept(m, u) /\ (m # n \/ u = t) => Kept(m, u)'
<1>1. SUFFICES ASSUME NEW m \in Nodes, NEW u \in Tokens, Kept(m, u), m # n \/ u = t
               PROVE  Kept(m, u)'
  OBVIOUS
<1>2. u \notin Others(n, t) BY <1>1 DEF Others, Kept
<1>3. token'[u] = token[u] BY <1>2 DEF ServeBeat
<1>4. QED BY <1>1, <1>3 DEF Kept

\* A step that keeps the tokens and leaves nodes and agents alone keeps Held.
LEMMA TokensOnly ==
  ASSUME TypeInv, HeldInv, UNCHANGED <<disk, agent, enroll, late>>,
         \A m \in Nodes, u \in Tokens : Kept(m, u) => Kept(m, u)'
  PROVE  HeldInv'
<1>1. SUFFICES ASSUME NEW m \in Nodes PROVE Held(m)'
  BY DEF HeldInv
<1>2. Held(m) BY DEF HeldInv
<1>3. (Running(m) <=> Running(m)') BY DEF Running
<1>4. QED BY <1>2, <1>3, InTable DEF Held

\* A step of one agent, which keeps the tokens of the other nodes.
LEMMA AgentMoves ==
  ASSUME TypeInv, HeldInv, NEW n \in Nodes, agent[n].pc # "halted",
         UNCHANGED <<enroll, late>>,
         \A m \in Nodes : m # n => agent'[m] = agent[m] /\ disk'[m] = disk[m],
         \A m \in Nodes, u \in Tokens : m # n /\ Kept(m, u) => Kept(m, u)',
         disk'[n] # None => Kept(n, disk[n])',
         Running(n)' => disk'[n] = agent'[n].tok,
         agent'[n].pc = "persist" => agent'[n].new # None /\ Kept(n, agent[n].new)'
  PROVE  HeldInv'
<1>1. \A m \in Nodes : Held(m) BY DEF HeldInv
<1>2. ASSUME NEW m \in Nodes, m # n PROVE Held(m)'
  <2>1. Running(m) <=> Running(m)' BY <1>2 DEF Running
  <2>2. QED BY <1>1, <1>2, <2>1, InTable DEF Held
<1>3. Held(n)'
  <2>1. enroll[n].pc = "idle" BY <1>1 DEF Held
  <2>2. QED BY <2>1 DEF Held
<1>4. QED BY <1>2, <1>3 DEF HeldInv

\* Every step keeps the tokens that are held, unless a heartbeat is late.
LEMMA HeldStep ==
  ASSUME TypeInv, HeldInv, [Next]_vars, "beat_late" \notin Events
  PROVE  HeldInv'
<1>t. TypeOK BY DEF TypeInv
<1>h. \A m \in Nodes : Held(m) BY DEF HeldInv
<1>1. CASE UNCHANGED vars
  BY <1>1, TokensOnly DEF vars, Kept
<1>2. ASSUME NEW n \in Nodes, NEW i \in Invites, EnrollCheck(n, i) PROVE HeldInv'
  <2>1. \A m \in Nodes, u \in Tokens : Kept(m, u) => Kept(m, u)'
    BY <1>2 DEF EnrollCheck, Kept
  <2>2. \A m \in Nodes : Running(m) <=> Running(m)' BY <1>2 DEF EnrollCheck, Running
  <2>3. \A m \in Nodes : Held(m)'
    BY <1>h, <1>t, <1>2, <2>1, <2>2, InTable DEF EnrollCheck, Held, TypeOK
  <2>4. QED BY <1>2, <2>3 DEF EnrollCheck, HeldInv
<1>3. ASSUME NEW n \in Nodes, EnrollSteps(n) PROVE HeldInv'
  <2>1. CASE EnrollMint(n)
    <3>1. PICK t \in Tokens : /\ Mint(t, n, enroll[n].invite)
                              /\ enroll' = [enroll EXCEPT ![n].pc = "minted", ![n].tok = t]
      BY <2>1 DEF EnrollMint
    <3>2. Kept(n, t)' /\ \A m \in Nodes, u \in Tokens : Kept(m, u) => Kept(m, u)'
      BY <1>t, <3>1, MintKeeps
    <3>3. \A m \in Nodes : Running(m) <=> Running(m)' BY <2>1 DEF EnrollMint, Running
    <3>4. t # None BY CredentialsAssumption DEF CredentialsAssumption
    <3>5. enroll'[n].tok = t /\ enroll'[n].pc = "minted"
      BY <1>t, <3>1 DEF TypeOK, Enrollments
    <3>6. \A m \in Nodes : m # n => enroll'[m] = enroll[m]
      BY <1>t, <3>1 DEF TypeOK
    <3>7. UNCHANGED <<disk, agent, late>> BY <2>1 DEF EnrollMint
    <3>8. ASSUME NEW m \in Nodes PROVE Held(m)'
      <4>1. CASE m = n
        BY <1>h, <2>1, <3>2, <3>3, <3>4, <3>5, <3>7, <4>1, InTable DEF Held, EnrollMint
      <4>2. CASE m # n
        BY <1>h, <3>2, <3>3, <3>6, <3>7, <4>2, InTable DEF Held
      <4>3. QED BY <4>1, <4>2
    <3>9. QED BY <3>7, <3>8 DEF HeldInv
  <2>2. CASE EnrollMark(n)
    <3>1. \A m \in Nodes, u \in Tokens : Kept(m, u) => Kept(m, u)'
      BY <2>2 DEF EnrollMark, Kept
    <3>2. \A m \in Nodes : Running(m) <=> Running(m)' BY <2>2 DEF EnrollMark, Running
    <3>3. \A m \in Nodes : /\ enroll'[m].tok = enroll[m].tok
                            /\ \/ enroll'[m].pc = enroll[m].pc
                               \/ enroll[m].pc = "minted" /\ enroll'[m].pc = "marked"
      BY <1>t, <2>2 DEF EnrollMark, TypeOK, Enrollments
    <3>4. \A m \in Nodes : Held(m)'
      BY <1>h, <2>2, <3>1, <3>2, <3>3, InTable DEF EnrollMark, Held
    <3>5. QED BY <2>2, <3>4 DEF EnrollMark, HeldInv
  <2>3. CASE EnrollStore(n)
    <3>1. \A m \in Nodes, u \in Tokens : Kept(m, u) => Kept(m, u)'
      BY <2>3 DEF EnrollStore, Kept
    <3>2. /\ disk'[n] = enroll[n].tok /\ enroll'[n].pc = "idle"
          /\ agent'[n].pc = "off"
      BY <1>t, <2>3 DEF EnrollStore, TypeOK, Waiting, Off, Halted
    <3>3. ASSUME NEW m \in Nodes PROVE Held(m)'
      <4>1. CASE m = n
        BY <1>h, <2>3, <3>1, <3>2, <4>1, InTable DEF Held, Running, EnrollStore
      <4>2. CASE m # n
        <5>1. disk'[m] = disk[m] /\ agent'[m] = agent[m] /\ enroll'[m] = enroll[m]
          BY <1>t, <2>3, <4>2 DEF EnrollStore, TypeOK
        <5>2. QED BY <1>h, <3>1, <5>1, InTable DEF Held, Running
      <4>3. QED BY <4>1, <4>2
    <3>4. QED BY <2>3, <3>3 DEF EnrollStore, HeldInv
  <2>4. CASE EnrollFails(n)
    <3>1. \A m \in Nodes, u \in Tokens : Kept(m, u) => Kept(m, u)'
      BY <2>4 DEF EnrollFails, Kept
    <3>2. \A m \in Nodes : Running(m) <=> Running(m)' BY <2>4 DEF EnrollFails, Running
    <3>3. \A m \in Nodes : Held(m)'
      BY <1>h, <1>t, <2>4, <3>1, <3>2, InTable DEF EnrollFails, Held, TypeOK, Waiting
    <3>4. QED BY <2>4, <3>3 DEF EnrollFails, HeldInv
  <2>5. QED BY <1>3, <2>1, <2>2, <2>3, <2>4 DEF EnrollSteps
<1>4. ASSUME NEW n \in Nodes, BeatSteps(n) PROVE HeldInv'
  <2>1. CASE BeatAccepted(n)
    <3>1. /\ agent[n].pc # "halted" /\ agent'[n].pc # "persist"
          /\ Running(n)' => agent'[n].tok = disk'[n]
          /\ \A m \in Nodes : m # n => agent'[m] = agent[m]
      BY <1>h, <1>t, <2>1 DEF BeatAccepted, Held, Running, TypeOK, Agents, Halted, Off
    <3>2. UNCHANGED <<token, enroll, disk, late>> BY <2>1 DEF BeatAccepted
    <3>3. QED BY <1>h, <3>1, <3>2, AgentMoves DEF Held, Kept
  <2>2. CASE BeatRefused(n)
    <3>1. /\ agent[n].pc # "halted" /\ agent'[n].pc # "persist"
          /\ Running(n)' => agent'[n].tok = disk'[n]
          /\ \A m \in Nodes : m # n => agent'[m] = agent[m]
      BY <1>h, <1>t, <2>2 DEF BeatRefused, Refused, Held, Running, TypeOK, Agents, Halted, Off
    <3>2. UNCHANGED <<token, enroll, disk, late>> BY <2>2 DEF BeatRefused
    <3>3. QED BY <1>h, <3>1, <3>2, AgentMoves DEF Held, Kept
  <2>3. CASE Beat(n)
    <3>1. /\ Running(n) /\ agent[n].pc # "halted" /\ agent'[n].pc # "persist"
          /\ Running(n)' => agent'[n].tok = agent[n].tok
          /\ \A m \in Nodes : m # n => agent'[m] = agent[m]
      BY <1>t, <2>3 DEF Beat, Running, TypeOK, Agents
    <3>2. disk[n] = agent[n].tok /\ agent[n].tok \in Tokens
      BY <1>h, <3>1, InTable DEF Held
    <3>3. UNCHANGED <<enroll, disk, late>> /\ ServeBeat(n, agent[n].tok)
      BY <2>3 DEF Beat
    <3>4. \A m \in Nodes, u \in Tokens :
             Kept(m, u) /\ (m # n \/ u = disk[n]) => Kept(m, u)'
      BY <1>t, <3>2, <3>3, BeatKeeps
    <3>5. disk'[n] # None => Kept(n, disk[n])'
      BY <1>h, <3>2, <3>3, <3>4 DEF Held, Kept
    <3>6. QED BY <3>1, <3>2, <3>3, <3>4, <3>5, AgentMoves
  <2>4. CASE BeatReplyLost(n)
    <3>1. /\ Running(n) /\ agent[n].pc # "halted" /\ agent'[n].pc # "persist"
          /\ Running(n)' => agent'[n].tok = agent[n].tok
          /\ \A m \in Nodes : m # n => agent'[m] = agent[m]
      BY <1>t, <2>4 DEF BeatReplyLost, Running, TypeOK, Agents
    <3>2. disk[n] = agent[n].tok /\ agent[n].tok \in Tokens
      BY <1>h, <3>1, InTable DEF Held
    <3>3. UNCHANGED <<enroll, disk, late>> /\ ServeBeat(n, agent[n].tok)
      BY <2>4 DEF BeatReplyLost
    <3>4. \A m \in Nodes, u \in Tokens :
             Kept(m, u) /\ (m # n \/ u = disk[n]) => Kept(m, u)'
      BY <1>t, <3>2, <3>3, BeatKeeps
    <3>5. disk'[n] # None => Kept(n, disk[n])'
      BY <1>h, <3>2, <3>3, <3>4 DEF Held, Kept
    <3>6. QED BY <3>1, <3>2, <3>3, <3>4, <3>5, AgentMoves
  <2>5. ~BeatTimesOut(n) BY DEF BeatTimesOut, Happens
  <2>6. QED BY <1>4, <2>1, <2>2, <2>3, <2>4, <2>5 DEF BeatSteps
<1>5. ASSUME NEW n \in Nodes, RotateSteps(n) PROVE HeldInv'
  <2>1. CASE RotateAccepted(n)
    <3>1. /\ agent[n].pc # "halted" /\ agent'[n].pc # "persist"
          /\ Running(n)' => agent'[n].tok = disk'[n]
          /\ \A m \in Nodes : m # n => agent'[m] = agent[m]
      BY <1>h, <1>t, <2>1 DEF RotateAccepted, Held, Running, TypeOK, Agents, Halted, Off
    <3>2. UNCHANGED <<token, enroll, disk, late>> BY <2>1 DEF RotateAccepted
    <3>3. QED BY <1>h, <3>1, <3>2, AgentMoves DEF Held, Kept
  <2>2. CASE RotateSkipped(n)
    <3>1. /\ agent[n].pc # "halted" /\ agent'[n].pc # "persist"
          /\ Running(n)' => agent'[n].tok = disk'[n]
          /\ \A m \in Nodes : m # n => agent'[m] = agent[m]
      BY <1>h, <1>t, <2>2 DEF RotateSkipped, Held, Running, TypeOK, Agents, Halted, Off
    <3>2. UNCHANGED <<token, enroll, disk, late>> BY <2>2 DEF RotateSkipped
    <3>3. QED BY <1>h, <3>1, <3>2, AgentMoves DEF Held, Kept
  <2>3. CASE RotateRefused(n)
    <3>1. /\ agent[n].pc # "halted" /\ agent'[n].pc # "persist"
          /\ Running(n)' => agent'[n].tok = disk'[n]
          /\ \A m \in Nodes : m # n => agent'[m] = agent[m]
      BY <1>h, <1>t, <2>3 DEF RotateRefused, Held, Running, TypeOK, Agents, Halted, Off
    <3>2. UNCHANGED <<token, enroll, disk, late>> BY <2>3 DEF RotateRefused
    <3>3. QED BY <1>h, <3>1, <3>2, AgentMoves DEF Held, Kept
  <2>4. CASE Rotate(n)
    <3>1. PICK t \in Tokens :
            /\ Mint(t, n, None)
            /\ \/ agent' = [agent EXCEPT ![n].pc = "persist", ![n].new = t]
               \/ agent' = [agent EXCEPT ![n].pc = "idle"]
      BY <2>4 DEF Rotate, Issue
    <3>2. Kept(n, t)' /\ \A m \in Nodes, u \in Tokens : Kept(m, u) => Kept(m, u)'
      BY <1>t, <3>1, MintKeeps
    <3>3. Running(n) /\ agent[n].pc = "issue" BY <2>4 DEF Rotate, Running
    <3>4. /\ agent'[n].tok = agent[n].tok
          /\ agent'[n].pc = "persist" => agent'[n].new = t
          /\ \A m \in Nodes : m # n => agent'[m] = agent[m]
      BY <1>t, <3>1 DEF TypeOK, Agents
    <3>5. UNCHANGED <<enroll, disk, late>> BY <2>4 DEF Rotate
    <3>6. t # None BY CredentialsAssumption DEF CredentialsAssumption
    <3>7. agent'[n].pc = "persist" => agent'[n].new # None /\ Kept(n, agent[n].new)'
      BY <3>2, <3>4, <3>6 DEF Kept
    <3>8. disk'[n] # None => Kept(n, disk[n])'
      BY <1>h, <3>2, <3>5, InTable DEF Held, Kept
    <3>9. QED BY <1>h, <3>2, <3>3, <3>4, <3>5, <3>7, <3>8, AgentMoves DEF Held
  <2>5. CASE Persist(n)
    <3>1. /\ agent[n].pc = "persist" /\ agent'[n].pc = "idle"
          /\ disk'[n] = agent[n].new /\ agent'[n].tok = agent[n].new
          /\ \A m \in Nodes : m # n => agent'[m] = agent[m] /\ disk'[m] = disk[m]
      BY <1>t, <2>5 DEF Persist, Stored, TypeOK, Agents
    <3>2. UNCHANGED <<enroll, token, late>> BY <2>5 DEF Persist
    <3>3. disk'[n] # None => Kept(n, disk[n])' BY <1>h, <3>1, <3>2 DEF Held, Kept
    <3>4. \A m \in Nodes, u \in Tokens : Kept(m, u) => Kept(m, u)' BY <3>2 DEF Kept
    <3>5. QED BY <3>1, <3>2, <3>3, <3>4, AgentMoves
  <2>6. CASE TornWrite(n)
    <3>1. /\ agent[n].pc = "persist" /\ agent'[n].pc = "off" /\ disk'[n] = None
          /\ \A m \in Nodes : m # n => agent'[m] = agent[m] /\ disk'[m] = disk[m]
      BY <1>t, <2>6 DEF TornWrite, TypeOK, Off, Halted
    <3>2. UNCHANGED <<enroll, token, late>> BY <2>6 DEF TornWrite
    <3>3. \A m \in Nodes, u \in Tokens : Kept(m, u) => Kept(m, u)' BY <3>2 DEF Kept
    <3>4. ~Running(n)' BY <3>1 DEF Running
    <3>5. QED BY <3>1, <3>2, <3>3, <3>4, AgentMoves
  <2>7. QED BY <1>5, <2>1, <2>2, <2>3, <2>4, <2>5, <2>6 DEF RotateSteps
<1>6. ASSUME NEW n \in Nodes, Start(n) \/ Crash(n) PROVE HeldInv'
  <2>1. CASE Start(n)
    <3>1. /\ agent[n].pc # "halted" /\ agent'[n].pc # "persist"
          /\ Running(n)' => agent'[n].tok = disk'[n]
          /\ \A m \in Nodes : m # n => agent'[m] = agent[m]
      BY <1>h, <1>t, <2>1 DEF Start, Held, Running, TypeOK, Agents, Halted, Off
    <3>2. UNCHANGED <<token, enroll, disk, late>> BY <2>1 DEF Start
    <3>3. QED BY <1>h, <3>1, <3>2, AgentMoves DEF Held, Kept
  <2>2. CASE Crash(n)
    <3>1. /\ agent[n].pc # "halted" /\ agent'[n].pc # "persist"
          /\ Running(n)' => agent'[n].tok = disk'[n]
          /\ \A m \in Nodes : m # n => agent'[m] = agent[m]
      BY <1>h, <1>t, <2>2 DEF Crash, Held, Running, TypeOK, Agents, Halted, Off
    <3>2. UNCHANGED <<token, enroll, disk, late>> BY <2>2 DEF Crash
    <3>3. QED BY <1>h, <3>1, <3>2, AgentMoves DEF Held, Kept
  <2>3. QED BY <1>6, <2>1, <2>2
<1>7. ASSUME NEW n \in Nodes,
             Withdraw(n) \/ Disable(n) \/ Enable(n) \/ FindSilent(n) \/ MarkOffline(n)
      PROVE HeldInv'
  <2>1. \A m \in Nodes, u \in Tokens : Kept(m, u) => Kept(m, u)'
    BY <1>7, <1>t DEF Withdraw, Disable, Enable, FindSilent, MarkOffline, Kept, TypeOK,
                      TokenRows
  <2>2. QED
    BY <1>7, <2>1, TokensOnly DEF Withdraw, Disable, Enable, FindSilent, MarkOffline
<1>8. ASSUME NEW t \in Tokens, Ages(t) \/ Expires(t) PROVE HeldInv'
  <2>1. \A m \in Nodes, u \in Tokens : Kept(m, u) => Kept(m, u)'
    BY <1>8, <1>t DEF Ages, Expires, Kept, TypeOK, TokenRows
  <2>2. QED BY <1>8, <2>1, TokensOnly DEF Ages, Expires
<1>9. ~LateBeat BY DEF LateBeat, HeldInv
<1>10. QED
  BY <1>1, <1>2, <1>3, <1>4, <1>5, <1>6, <1>7, <1>8, <1>9 DEF Next

\* If no heartbeat is handled after its agent gave up on it, the token in a node's
\* env file is never one the server has retired, whatever else is lost or dies.
THEOREM StoredTokenKept == "beat_late" \notin Events => (Spec => []CredentialKept)
<1>1. SUFFICES ASSUME "beat_late" \notin Events PROVE Spec => []CredentialKept
  OBVIOUS
<1>2. Init => TypeInv /\ HeldInv
  <2>1. Init => HeldInv BY DEF Init, HeldInv, Held, Halted, Waiting, Running
  <2>2. QED BY <2>1, InitTyped
<1>3. TypeInv /\ HeldInv /\ [Next]_vars => (TypeInv /\ HeldInv)'
  BY <1>1, StepTyped, HeldStep
<1>4. HeldInv => CredentialKept BY DEF HeldInv, Held, Kept, CredentialKept
<1>5. QED BY <1>2, <1>3, <1>4, PTL DEF Spec

-----------------------------------------------------------------------------
(***************************************************************************)
(* Why agents exit for good.  A refused agent, with no node disabled and   *)
(* its token kept, has a token that no later step brings back to life.     *)
(***************************************************************************)
Graceful(n) ==
    /\ agent[n].fails > 0 => agent[n].pc = "idle" /\ Dead(disk[n])
    /\ agent[n].pc = "halted" /\ disk[n] # None => Dead(disk[n])
\* No row, and no row an enrollment has read, is DISABLED.
NoneDisabled ==
    \A n \in Nodes : status[n] # "DISABLED" /\ enroll[n].row # "DISABLED"
\* The inductive invariant about agents that exit.
HaltInv == NoneDisabled /\ \A n \in Nodes : Graceful(n)

\* Without a disable no row, and no row an enrollment has read, is DISABLED.
LEMMA NoneDisabledStep ==
  ASSUME TypeInv, HeldInv, NoneDisabled, [Next]_vars,
         "disable" \notin Events, "beat_late" \notin Events
  PROVE  NoneDisabled'
<1>t. TypeOK BY DEF TypeInv
<1>1. CASE UNCHANGED vars BY <1>1 DEF vars, NoneDisabled
<1>2. ASSUME NEW n \in Nodes, NEW i \in Invites, EnrollCheck(n, i) PROVE NoneDisabled'
  BY <1>2, <1>t DEF EnrollCheck, NoneDisabled, TypeOK
<1>3. ASSUME NEW n \in Nodes, EnrollSteps(n) PROVE NoneDisabled'
  <2>1. CASE EnrollMint(n)
    <3>1. /\ \A m \in Nodes : status'[m] # "DISABLED"
          /\ \A m \in Nodes : enroll'[m].row = enroll[m].row
      BY <2>1, <1>t DEF EnrollMint, NoneDisabled, TypeOK, Enrollments
    <3>2. QED BY <3>1 DEF NoneDisabled
  <2>2. CASE EnrollMark(n)
    BY <2>2, <1>t DEF EnrollMark, NoneDisabled, TypeOK, Enrollments
  <2>3. CASE EnrollStore(n)
    BY <2>3, <1>t DEF EnrollStore, NoneDisabled, TypeOK, Waiting
  <2>4. CASE EnrollFails(n)
    BY <2>4, <1>t DEF EnrollFails, NoneDisabled, TypeOK, Waiting
  <2>5. QED BY <1>3, <2>1, <2>2, <2>3, <2>4 DEF EnrollSteps
<1>4. ASSUME NEW n \in Nodes, BeatSteps(n) PROVE NoneDisabled'
  BY <1>4, <1>t DEF BeatSteps, BeatAccepted, BeatRefused, Beat, BeatReplyLost, BeatTimesOut,
                    ServeBeat, NoneDisabled, TypeOK
<1>5. ASSUME NEW n \in Nodes, RotateSteps(n) PROVE NoneDisabled'
  BY <1>5 DEF RotateSteps, RotateAccepted, RotateSkipped, RotateRefused, Rotate, Persist,
              TornWrite, NoneDisabled
<1>6. ASSUME NEW n \in Nodes, Start(n) \/ Crash(n) \/ Withdraw(n) \/ FindSilent(n)
      PROVE NoneDisabled'
  BY <1>6 DEF Start, Crash, Withdraw, FindSilent, NoneDisabled
<1>7. ASSUME NEW n \in Nodes, MarkOffline(n) PROVE NoneDisabled'
  BY <1>7, <1>t DEF MarkOffline, NoneDisabled, TypeOK
<1>8. \A n \in Nodes : ~Disable(n) /\ ~Enable(n)
  BY DEF Disable, Enable, Happens, NoneDisabled
<1>9. ASSUME NEW t \in Tokens, Ages(t) \/ Expires(t) PROVE NoneDisabled'
  BY <1>9 DEF Ages, Expires, NoneDisabled
<1>10. ~LateBeat BY DEF LateBeat, HeldInv
<1>11. QED
  BY <1>1, <1>2, <1>3, <1>4, <1>5, <1>6, <1>7, <1>8, <1>9, <1>10 DEF Next

\* A kept token that is dead stays dead, whatever happens to the table.
LEMMA DeadStays ==
  ASSUME TypeInv, HeldInv, [Next]_vars, "beat_late" \notin Events,
         NEW m \in Nodes, NEW u \in Tokens, Kept(m, u), Dead(u), Kept(m, u)'
  PROVE  Dead(u)'
<1>t. TypeOK BY DEF TypeInv
<1>1. token[u].state # "free" BY DEF Kept
<1>2. CASE UNCHANGED token BY <1>2 DEF Dead
<1>3. CASE \E n \in Nodes, t \in Tokens : \E i : Mint(t, n, i)
  BY <1>1, <1>3, <1>t DEF Mint, TypeOK, Dead
<1>4. CASE \E n \in Nodes : \E t : ServeBeat(n, t)
  <2>1. token'[u].age = token[u].age
    BY <1>4, <1>t DEF ServeBeat, TypeOK, TokenRows
  <2>p. PICK n \in Nodes : \E t : ServeBeat(n, t) BY <1>4
  <2>2. PICK t : ServeBeat(n, t) BY <2>p
  <2>3. CASE token[u].state = "withdrawn"
    <3>1. u \notin Others(n, t) BY <2>3 DEF Others
    <3>2. QED BY <2>2, <2>3, <3>1 DEF ServeBeat, Dead
  <2>4. QED BY <2>1, <2>3 DEF Dead
<1>5. CASE \E n \in Nodes : Withdraw(n)
  BY <1>5, <1>t DEF Withdraw, TypeOK, TokenRows, Dead
<1>6. CASE \E t \in Tokens : Ages(t) \/ Expires(t)
  <2>1. PICK t \in Tokens : Ages(t) \/ Expires(t) BY <1>6
  <2>2. CASE Ages(t) BY <2>2, <1>t DEF Ages, TypeOK, TokenRows, Dead
  <2>3. CASE Expires(t) BY <2>3, <1>t DEF Expires, TypeOK, TokenRows, Dead
  <2>4. QED BY <2>1, <2>2, <2>3
<1>7. QED
  <2>1. ASSUME NEW n \in Nodes, EnrollSteps(n) PROVE Dead(u)'
    BY <2>1, <1>2, <1>3 DEF EnrollSteps, EnrollMint, EnrollMark, EnrollStore, EnrollFails
  <2>2. ASSUME NEW n \in Nodes, BeatSteps(n) PROVE Dead(u)'
    BY <2>2, <1>2, <1>4 DEF BeatSteps, BeatAccepted, BeatRefused, Beat, BeatReplyLost,
                            BeatTimesOut
  <2>3. ASSUME NEW n \in Nodes, RotateSteps(n) PROVE Dead(u)'
    BY <2>3, <1>2, <1>3 DEF RotateSteps, RotateAccepted, RotateSkipped, RotateRefused,
                            Rotate, Issue, Persist, TornWrite
  <2>4. ASSUME NEW n \in Nodes, Start(n) \/ Crash(n) \/ Disable(n) \/ Enable(n)
                                 \/ FindSilent(n) \/ MarkOffline(n)
        PROVE  Dead(u)'
    BY <2>4, <1>2 DEF Start, Crash, Disable, Enable, FindSilent, MarkOffline
  <2>5. ASSUME NEW n \in Nodes, NEW i \in Invites, EnrollCheck(n, i) PROVE Dead(u)'
    BY <2>5, <1>2 DEF EnrollCheck
  <2>6. ~LateBeat BY DEF LateBeat, HeldInv
  <2>7. QED BY <1>2, <1>5, <1>6, <2>1, <2>2, <2>3, <2>4, <2>5, <2>6 DEF Next, vars

\* Every step keeps a refused agent's token dead, unless a heartbeat is late.
LEMMA GracefulStep ==
  ASSUME TypeInv, HeldInv, HeldInv', HaltInv, [Next]_vars, "beat_late" \notin Events
  PROVE  \A m \in Nodes : Graceful(m)'
<1>t. TypeOK BY DEF TypeInv
<1>h. \A m \in Nodes : Held(m) BY DEF HeldInv
<1>g. \A m \in Nodes : Graceful(m) BY DEF HaltInv
<1>s. ASSUME NEW m \in Nodes, agent'[m] = agent[m], disk'[m] = disk[m]
      PROVE  Graceful(m)'
  <2>1. Held(m) /\ Held(m)' BY <1>h DEF HeldInv
  <2>2. disk[m] # None => disk[m] \in Tokens /\ Kept(m, disk[m])
    BY <2>1, InTable DEF Held
  <2>3. disk[m] # None => Kept(m, disk[m])'
    BY <1>s, <2>1 DEF Held
  <2>4. disk[m] # None /\ Dead(disk[m]) => Dead(disk[m])'
    <3>1. SUFFICES ASSUME disk[m] # None, Dead(disk[m]) PROVE Dead(disk[m])'
      OBVIOUS
    <3>2. \A u \in Tokens : Kept(m, u) /\ Dead(u) /\ Kept(m, u)' => Dead(u)'
      BY DeadStays
    <3>3. Kept(m, disk[m])' = (token'[disk'[m]].node = m
                                 /\ token'[disk'[m]].state \in {"valid", "withdrawn"})
      BY DEF Kept
    <3>4. QED BY <1>s, <2>2, <2>3, <3>1, <3>2, <3>3 DEF Kept, Dead
  <2>5. agent[m].pc = "idle" => disk[m] # None
    BY <2>1 DEF Held, Running, TypeInv, Armed
  <2>6. QED BY <1>g, <1>s, <2>4, <2>5 DEF Graceful
<1>1. CASE UNCHANGED vars BY <1>1, <1>s DEF vars
<1>2. ASSUME NEW n \in Nodes, NEW i \in Invites, EnrollCheck(n, i)
      PROVE  \A m \in Nodes : Graceful(m)'
  BY <1>2, <1>s DEF EnrollCheck
<1>3. ASSUME NEW n \in Nodes, EnrollSteps(n) PROVE \A m \in Nodes : Graceful(m)'
  <2>1. CASE EnrollMint(n) \/ EnrollMark(n) \/ EnrollFails(n)
    BY <2>1, <1>s DEF EnrollMint, EnrollMark, EnrollFails
  <2>2. CASE EnrollStore(n)
    <3>1. Graceful(n)'
      BY <1>g, <1>h, <1>t, <2>2 DEF EnrollStore, Off, Halted, Graceful, TypeOK, Agents
    <3>2. \A m \in Nodes : m # n => agent'[m] = agent[m] /\ disk'[m] = disk[m]
      BY <1>t, <2>2 DEF EnrollStore, TypeOK
    <3>3. QED BY <3>1, <3>2, <1>s
  <2>3. QED BY <1>3, <2>1, <2>2 DEF EnrollSteps
<1>4. ASSUME NEW n \in Nodes, BeatSteps(n) PROVE \A m \in Nodes : Graceful(m)'
  <2>1. CASE BeatAccepted(n)
    <3>1. ~Dead(disk[n])
      BY <1>h, <2>1 DEF BeatAccepted, LetIn, Held, Running, Dead
    <3>2. agent'[n].fails = agent[n].fails /\ agent'[n].pc = "beat"
      BY <1>t, <2>1 DEF BeatAccepted, TypeOK, Agents
    <3>3. agent[n].fails \in Int BY <1>t DEF TypeOK, Agents
    <3>4. Graceful(n)' BY <1>g, <3>1, <3>2, <3>3 DEF Graceful
    <3>5. \A m \in Nodes : m # n => agent'[m] = agent[m] /\ disk'[m] = disk[m]
      BY <1>t, <2>1 DEF BeatAccepted, TypeOK
    <3>6. QED BY <3>4, <3>5, <1>s
  <2>2. CASE BeatRefused(n)
    <3>1. Running(n) /\ disk[n] = agent[n].tok /\ disk[n] # None
      BY <1>h, <2>2 DEF BeatRefused, Running, Held, TypeInv, Armed
    <3>2. Dead(disk[n])
      BY <1>h, <2>2, <3>1 DEF BeatRefused, LetIn, Held, Kept, Dead, HaltInv, NoneDisabled
    <3>3. UNCHANGED <<disk, token>> BY <2>2 DEF BeatRefused
    <3>4. Dead(disk[n])' BY <3>2, <3>3 DEF Dead
    <3>5. agent'[n] = Halted \/ agent'[n].pc = "idle"
      BY <1>t, <2>2 DEF BeatRefused, Refused, TypeOK, Agents
    <3>6. Graceful(n)' BY <3>4, <3>5 DEF Graceful, Halted
    <3>7. \A m \in Nodes : m # n => agent'[m] = agent[m] /\ disk'[m] = disk[m]
      BY <1>t, <2>2 DEF BeatRefused, Refused, TypeOK
    <3>8. QED BY <3>6, <3>7, <1>s
  <2>3. CASE Beat(n)
    <3>1. Graceful(n)'
      BY <1>g, <1>h, <1>t, <2>3 DEF Beat, Graceful, TypeOK, Agents
    <3>2. \A m \in Nodes : m # n => agent'[m] = agent[m] /\ disk'[m] = disk[m]
      BY <1>t, <2>3 DEF Beat, TypeOK
    <3>3. QED BY <3>1, <3>2, <1>s
  <2>4. CASE BeatReplyLost(n)
    <3>1. Graceful(n)'
      BY <1>g, <1>h, <1>t, <2>4 DEF BeatReplyLost, Graceful, TypeOK, Agents
    <3>2. \A m \in Nodes : m # n => agent'[m] = agent[m] /\ disk'[m] = disk[m]
      BY <1>t, <2>4 DEF BeatReplyLost, TypeOK
    <3>3. QED BY <3>1, <3>2, <1>s
  <2>5. ~BeatTimesOut(n) BY DEF BeatTimesOut, Happens
  <2>6. QED BY <1>4, <2>1, <2>2, <2>3, <2>4, <2>5 DEF BeatSteps
<1>5. ASSUME NEW n \in Nodes, RotateSteps(n) PROVE \A m \in Nodes : Graceful(m)'
  <2>1. CASE RotateAccepted(n)
    <3>1. Graceful(n)'
      BY <1>g, <1>h, <1>t, <2>1 DEF RotateAccepted, Graceful, TypeOK, Agents
    <3>2. \A m \in Nodes : m # n => agent'[m] = agent[m] /\ disk'[m] = disk[m]
      BY <1>t, <2>1 DEF RotateAccepted, TypeOK
    <3>3. QED BY <3>1, <3>2, <1>s
  <2>2. CASE RotateSkipped(n)
    <3>1. Graceful(n)'
      BY <1>g, <1>h, <1>t, <2>2 DEF RotateSkipped, Graceful, TypeOK, Agents
    <3>2. \A m \in Nodes : m # n => agent'[m] = agent[m] /\ disk'[m] = disk[m]
      BY <1>t, <2>2 DEF RotateSkipped, TypeOK
    <3>3. QED BY <3>1, <3>2, <1>s
  <2>3. CASE RotateRefused(n)
    <3>1. Graceful(n)'
      BY <1>g, <1>h, <1>t, <2>3 DEF RotateRefused, Graceful, TypeOK, Agents
    <3>2. \A m \in Nodes : m # n => agent'[m] = agent[m] /\ disk'[m] = disk[m]
      BY <1>t, <2>3 DEF RotateRefused, TypeOK
    <3>3. QED BY <3>1, <3>2, <1>s
  <2>4. CASE Rotate(n)
    <3>1. Graceful(n)'
      BY <1>g, <1>h, <1>t, <2>4 DEF Rotate, Graceful, TypeOK, Agents
    <3>2. \A m \in Nodes : m # n => agent'[m] = agent[m] /\ disk'[m] = disk[m]
      BY <1>t, <2>4 DEF Rotate, TypeOK
    <3>3. QED BY <3>1, <3>2, <1>s
  <2>5. CASE Persist(n)
    <3>1. Graceful(n)'
      BY <1>g, <1>h, <1>t, <2>5 DEF Persist, Stored, Graceful, TypeOK, Agents
    <3>2. \A m \in Nodes : m # n => agent'[m] = agent[m] /\ disk'[m] = disk[m]
      BY <1>t, <2>5 DEF Persist, Stored, TypeOK
    <3>3. QED BY <3>1, <3>2, <1>s
  <2>6. CASE TornWrite(n)
    <3>1. Graceful(n)'
      BY <1>g, <1>h, <1>t, <2>6 DEF TornWrite, Off, Halted, Graceful, TypeOK, Agents
    <3>2. \A m \in Nodes : m # n => agent'[m] = agent[m] /\ disk'[m] = disk[m]
      BY <1>t, <2>6 DEF TornWrite, TypeOK
    <3>3. QED BY <3>1, <3>2, <1>s
  <2>7. QED BY <1>5, <2>1, <2>2, <2>3, <2>4, <2>5, <2>6 DEF RotateSteps
<1>6. ASSUME NEW n \in Nodes, Start(n) \/ Crash(n) PROVE \A m \in Nodes : Graceful(m)'
  <2>1. CASE Start(n)
    <3>1. Graceful(n)'
      BY <1>g, <1>h, <1>t, <2>1 DEF Start, Halted, Graceful, TypeOK, Agents
    <3>2. \A m \in Nodes : m # n => agent'[m] = agent[m] /\ disk'[m] = disk[m]
      BY <1>t, <2>1 DEF Start, TypeOK
    <3>3. QED BY <3>1, <3>2, <1>s
  <2>2. CASE Crash(n)
    <3>1. Graceful(n)'
      BY <1>g, <1>h, <1>t, <2>2 DEF Crash, Off, Halted, Graceful, TypeOK, Agents
    <3>2. \A m \in Nodes : m # n => agent'[m] = agent[m] /\ disk'[m] = disk[m]
      BY <1>t, <2>2 DEF Crash, TypeOK
    <3>3. QED BY <3>1, <3>2, <1>s
  <2>3. QED BY <1>6, <2>1, <2>2
<1>7. ASSUME NEW n \in Nodes,
             Withdraw(n) \/ Disable(n) \/ Enable(n) \/ FindSilent(n) \/ MarkOffline(n)
      PROVE \A m \in Nodes : Graceful(m)'
  BY <1>7, <1>s DEF Withdraw, Disable, Enable, FindSilent, MarkOffline
<1>8. ASSUME NEW t \in Tokens, Ages(t) \/ Expires(t)
      PROVE \A m \in Nodes : Graceful(m)'
  BY <1>8, <1>s DEF Ages, Expires
<1>9. ~LateBeat BY DEF LateBeat, HeldInv
<1>10. QED
  BY <1>1, <1>2, <1>3, <1>4, <1>5, <1>6, <1>7, <1>8, <1>9 DEF Next

\* If besides nobody disables a node, an agent that has exited for good and still has
\* its env file was refused a token that was withdrawn or had expired.
THEOREM HaltsForAReason ==
  Events \cap {"beat_late", "disable"} = {} => (Spec => []HaltHasReason)
<1>1. SUFFICES ASSUME "beat_late" \notin Events, "disable" \notin Events
               PROVE  Spec => []HaltHasReason
  OBVIOUS
<1>2. Init => TypeInv /\ HeldInv /\ HaltInv
  <2>1. Init => HeldInv BY DEF Init, HeldInv, Held, Halted, Waiting, Running
  <2>2. Init => HaltInv BY DEF Init, HaltInv, NoneDisabled, Graceful, Halted, Waiting
  <2>3. QED BY <2>1, <2>2, InitTyped
<1>3. TypeInv /\ HeldInv /\ HaltInv /\ [Next]_vars => (TypeInv /\ HeldInv /\ HaltInv)'
  <2>1. SUFFICES ASSUME TypeInv, HeldInv, HaltInv, [Next]_vars
                 PROVE  TypeInv' /\ HeldInv' /\ HaltInv'
    OBVIOUS
  <2>2. HeldInv' BY <1>1, <2>1, HeldStep
  <2>3. NoneDisabled' BY <1>1, <2>1, NoneDisabledStep DEF HaltInv
  <2>4. \A m \in Nodes : Graceful(m)' BY <1>1, <2>1, <2>2, GracefulStep
  <2>5. QED BY <2>1, <2>2, <2>3, <2>4, StepTyped DEF HaltInv
<1>4. HaltInv => HaltHasReason BY DEF HaltInv, Graceful, HaltHasReason
<1>5. QED BY <1>2, <1>3, <1>4, PTL DEF Spec
=============================================================================
