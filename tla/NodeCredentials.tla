--------------------------- MODULE NodeCredentials ---------------------------
(***************************************************************************)
(* The credentials of the VPN nodes: enrollment with a one-time token, the *)
(* node token the agent keeps in its env file, its rotation, the           *)
(* retirement of older tokens, and the status of the node's row.           *)
(*                                                                         *)
(* The enroll script and the agent of a node run one after the other; the  *)
(* control server serves the requests of all nodes, the administrator and  *)
(* its monitor at the same time.                                           *)
(***************************************************************************)
EXTENDS Integers, FiniteSets

CONSTANTS
    Nodes,
    Invites,          \* one-time enrollment tokens
    Tokens,           \* rows of the node_tokens table
    MaxAuthFailures,  \* refusals in a row after which the agent exits
    Events,           \* which of EventKinds may happen
    MaxEvents,        \* bound of the model: how many of them happen in all
    None              \* no token, no invite, no node

EventKinds ==
    { "due",            \* a token comes within three days of its expiry
      "expiry",         \* a token expires
      "reply_lost",     \* a request or its reply is lost
      "beat_late",      \* a heartbeat is handled after the agent gave up on it
      "crash",          \* the agent dies; systemd starts it again
      "torn_write",     \* the agent dies while it rewrites the env file
      "enroll_fails",   \* the enroll script or its request dies half-way
      "withdraw",       \* the operator revokes every token of a node
      "disable" }       \* the administrator disables a node

ASSUME CredentialsAssumption ==
    /\ MaxAuthFailures \in Nat \ {0}
    /\ Events \subseteq EventKinds
    /\ MaxEvents \in Nat
    /\ None \notin Nodes \cup Invites \cup Tokens

VARIABLES
    status,     \* status[n]: the status of node n's row
    token,      \* the node_tokens table
    used,       \* invites whose usedAt is set
    enroll,     \* enroll[n]: where the enrollment of node n is
    disk,       \* disk[n]: the token in the env file of node n
    agent,      \* agent[n]: where the agent of node n is
    late,       \* heartbeats in service that their agent gave up on
    silent,     \* nodes the monitor is about to mark OFFLINE
    events      \* how many of Events have happened

vars == <<status, token, used, enroll, disk, agent, late, silent, events>>

\* retired: by a heartbeat with another token; withdrawn: by the operator.
NoToken == [node |-> None, state |-> "free", age |-> "fresh", invite |-> None]
Waiting == [pc |-> "idle", invite |-> None, row |-> "NONE", tok |-> None]
\* An agent that does not run; nobody starts it but the operator.
Halted == [pc |-> "halted", tok |-> None, new |-> None, fails |-> 0]
Off == [Halted EXCEPT !.pc = "off"]

Init ==
    /\ status = [n \in Nodes |-> "NONE"]
    /\ token = [t \in Tokens |-> NoToken]
    /\ used = {}
    /\ enroll = [n \in Nodes |-> Waiting]
    /\ disk = [n \in Nodes |-> None]
    /\ agent = [n \in Nodes |-> Halted]
    /\ late = {}
    /\ silent = {}
    /\ events = 0

\* One more of the events this instance admits.
Happens(kind) ==
    /\ kind \in Events
    /\ events < MaxEvents
    /\ events' = events + 1

-----------------------------------------------------------------------------
(***************************************************************************)
(* Enrollment.  The operator runs the script while the agent is stopped.   *)
(***************************************************************************)
\* POST /api/node/register reads the invite and the row of that name.
EnrollCheck(n, i) ==
    /\ enroll[n].pc = "idle"
    /\ agent[n].pc = "halted"
    /\ i \notin used
    /\ enroll' = [enroll EXCEPT ![n] =
                    [pc |-> "checked", invite |-> i, row |-> status[n], tok |-> None]]
    /\ UNCHANGED <<status, token, used, disk, agent, late, silent, events>>

\* A token of node n, valid for the whole of its term.
Mint(t, n, i) ==
    /\ token[t].state = "free"
    /\ token' = [token EXCEPT ![t] =
                   [node |-> n, state |-> "valid", age |-> "fresh", invite |-> i]]

\* It then writes the node's row and inserts the token; the status it writes is
\* computed from the row it read.
EnrollMint(n) ==
    /\ enroll[n].pc = "checked"
    /\ status' = [status EXCEPT ![n] =
                    IF enroll[n].row = "DISABLED" THEN "DISABLED" ELSE "ONLINE"]
    /\ \E t \in Tokens :
         /\ Mint(t, n, enroll[n].invite)
         /\ enroll' = [enroll EXCEPT ![n].pc = "minted", ![n].tok = t]
    /\ UNCHANGED <<used, disk, agent, late, silent, events>>

EnrollMark(n) ==
    /\ enroll[n].pc = "minted"
    /\ used' = used \cup {enroll[n].invite}
    /\ enroll' = [enroll EXCEPT ![n].pc = "marked"]
    /\ UNCHANGED <<status, token, disk, agent, late, silent, events>>

\* The script stores the credentials and the operator starts the agent.
EnrollStore(n) ==
    /\ enroll[n].pc = "marked"
    /\ disk' = [disk EXCEPT ![n] = enroll[n].tok]
    /\ enroll' = [enroll EXCEPT ![n] = Waiting]
    /\ agent' = [agent EXCEPT ![n] = Off]
    /\ UNCHANGED <<status, token, used, late, silent, events>>

EnrollFails(n) ==
    /\ Happens("enroll_fails")
    /\ enroll[n].pc # "idle"
    /\ enroll' = [enroll EXCEPT ![n] = Waiting]
    /\ UNCHANGED <<status, token, used, disk, agent, late, silent>>

-----------------------------------------------------------------------------
(***************************************************************************)
(* The agent's loop: a heartbeat and, when its reply says the token is     *)
(* about to expire, a rotation.                                            *)
(***************************************************************************)
Start(n) ==
    /\ agent[n].pc = "off"
    /\ agent' = [agent EXCEPT ![n] =
         IF disk[n] = None THEN Halted
         ELSE [pc |-> "idle", tok |-> disk[n], new |-> None, fails |-> 0]]
    /\ UNCHANGED <<status, token, used, enroll, disk, late, silent, events>>

\* requireNode.
LetIn(n, t) ==
    /\ token[t].node = n
    /\ token[t].state = "valid"
    /\ token[t].age # "expired"
    /\ status[n] # "DISABLED"

BeatAccepted(n) ==
    /\ agent[n].pc = "idle"
    /\ LetIn(n, agent[n].tok)
    /\ agent' = [agent EXCEPT ![n].pc = "beat"]
    /\ UNCHANGED <<status, token, used, enroll, disk, late, silent, events>>

\* Fault: the agent lets one refusal too many pass.
RefusedOnceMore(n) ==
    \/ agent[n].fails > MaxAuthFailures /\ agent' = [agent EXCEPT ![n] = Halted]
    \/ agent[n].fails <= MaxAuthFailures /\ agent' = [agent EXCEPT ![n].fails = @ + 1]

\* The agent gives up for good after MaxAuthFailures refusals in a row.
Refused(n) ==
    \/ /\ agent[n].fails + 1 >= MaxAuthFailures
       /\ agent' = [agent EXCEPT ![n] = Halted]
    \/ /\ agent[n].fails + 1 < MaxAuthFailures
       /\ agent' = [agent EXCEPT ![n].fails = @ + 1]

BeatRefused(n) ==
    /\ agent[n].pc = "idle"
    /\ ~LetIn(n, agent[n].tok)
    /\ Refused(n)
    /\ UNCHANGED <<status, token, used, enroll, disk, late, silent, events>>

\* Fault: a heartbeat retires no other token.
NoOthers(n, t) == {}
Others(n, t) == {u \in Tokens : /\ token[u].node = n
                                /\ token[u].state = "valid"
                                /\ u # t}

\* The heartbeat handler once it has let the agent in: the row is ONLINE, and
\* the use of token t retires every other token of the node.
ServeBeat(n, t) ==
    /\ status' = [status EXCEPT ![n] = "ONLINE"]
    /\ token' = [u \in Tokens |-> IF u \in Others(n, t)
                                  THEN [token[u] EXCEPT !.state = "retired"]
                                  ELSE token[u]]

\* Fault: the agent waits for the expiry itself.
ExpiredOnly(t) == token[t].age = "expired"
NeedsRotation(t) == token[t].age # "fresh"

Beat(n) ==
    /\ agent[n].pc = "beat"
    /\ ServeBeat(n, agent[n].tok)
    /\ agent' = [agent EXCEPT
         ![n].fails = 0,
         ![n].pc = IF NeedsRotation(agent[n].tok) THEN "rotate" ELSE "idle"]
    /\ UNCHANGED <<used, enroll, disk, late, silent, events>>

BeatReplyLost(n) ==
    /\ Happens("reply_lost")
    /\ agent[n].pc = "beat"
    /\ ServeBeat(n, agent[n].tok)
    /\ agent' = [agent EXCEPT ![n].pc = "idle"]
    /\ UNCHANGED <<used, enroll, disk, late, silent>>

\* The agent's request times out while the handler is still at work.
BeatTimesOut(n) ==
    /\ Happens("beat_late")
    /\ agent[n].pc = "beat"
    /\ late' = late \cup {[node |-> n, tok |-> agent[n].tok]}
    /\ agent' = [agent EXCEPT ![n].pc = "idle"]
    /\ UNCHANGED <<status, token, used, enroll, disk, silent>>

LateBeat ==
    \E m \in late :
        /\ late' = late \ {m}
        /\ ServeBeat(m.node, m.tok)
        /\ UNCHANGED <<used, enroll, disk, agent, silent, events>>

\* Less than an hour since the last attempt.
RotateSkipped(n) ==
    /\ agent[n].pc = "rotate"
    /\ agent' = [agent EXCEPT ![n].pc = "idle"]
    /\ UNCHANGED <<status, token, used, enroll, disk, late, silent, events>>

\* Fault: the old token dies when the new one is issued.
IssueAndRetire(n, t) ==
    /\ token[t].state = "free"
    /\ token' = [token EXCEPT
         ![t] = [node |-> n, state |-> "valid", age |-> "fresh", invite |-> None],
         ![agent[n].tok].state = "retired"]

\* POST /api/node/token/rotate: requireNode lets the agent in, and the handler
\* then inserts the new token.
RotateAccepted(n) ==
    /\ agent[n].pc = "rotate"
    /\ LetIn(n, agent[n].tok)
    /\ agent' = [agent EXCEPT ![n].pc = "issue"]
    /\ UNCHANGED <<status, token, used, enroll, disk, late, silent, events>>

Issue(n, t) == Mint(t, n, None)

Rotate(n) ==
    /\ agent[n].pc = "issue"
    /\ \E t \in Tokens :
         /\ Issue(n, t)
         /\ \/ /\ agent' = [agent EXCEPT ![n].pc = "persist", ![n].new = t]
               /\ UNCHANGED events
            \/ /\ Happens("reply_lost")
               /\ agent' = [agent EXCEPT ![n].pc = "idle"]
    /\ UNCHANGED <<status, used, enroll, disk, late, silent>>

\* A refused rotation is logged only; the next heartbeat will tell.
RotateRefused(n) ==
    /\ agent[n].pc = "rotate"
    /\ ~LetIn(n, agent[n].tok)
    /\ agent' = [agent EXCEPT ![n].pc = "idle"]
    /\ UNCHANGED <<status, token, used, enroll, disk, late, silent, events>>

\* Fault: the token goes to the client object and not to the env file.
NotStored(n) == disk' = disk
Stored(n) == disk' = [disk EXCEPT ![n] = agent[n].new]

\* persistCredentials, then setToken.
Persist(n) ==
    /\ agent[n].pc = "persist"
    /\ Stored(n)
    /\ agent' = [agent EXCEPT ![n].pc = "idle", ![n].tok = agent[n].new,
                              ![n].new = None]
    /\ UNCHANGED <<status, token, used, enroll, late, silent, events>>

Crash(n) ==
    /\ Happens("crash")
    /\ agent[n].pc \notin {"off", "halted"}
    /\ agent' = [agent EXCEPT ![n] = Off]
    /\ UNCHANGED <<status, token, used, enroll, disk, late, silent>>

\* writeFileSync truncates the env file before it writes it.
TornWrite(n) ==
    /\ Happens("torn_write")
    /\ agent[n].pc = "persist"
    /\ disk' = [disk EXCEPT ![n] = None]
    /\ agent' = [agent EXCEPT ![n] = Off]
    /\ UNCHANGED <<status, token, used, enroll, late, silent>>

-----------------------------------------------------------------------------
(***************************************************************************)
(* Time, the operator, the administrator and the monitor.                  *)
(***************************************************************************)
Ages(t) ==
    /\ Happens("due")
    /\ token[t].state = "valid"
    /\ token[t].age = "fresh"
    /\ token' = [token EXCEPT ![t].age = "due"]
    /\ UNCHANGED <<status, used, enroll, disk, agent, late, silent>>

Expires(t) ==
    /\ Happens("expiry")
    /\ token[t].age = "due"
    /\ token' = [token EXCEPT ![t].age = "expired"]
    /\ UNCHANGED <<status, used, enroll, disk, agent, late, silent>>

\* cli nodes:revoke-tokens.
Withdraw(n) ==
    /\ Happens("withdraw")
    /\ token' = [t \in Tokens |->
         IF token[t].node = n /\ token[t].state = "valid"
         THEN [token[t] EXCEPT !.state = "withdrawn"] ELSE token[t]]
    /\ UNCHANGED <<status, used, enroll, disk, agent, late, silent>>

Disable(n) ==
    /\ Happens("disable")
    /\ status[n] # "NONE"
    /\ status' = [status EXCEPT ![n] = "DISABLED"]
    /\ UNCHANGED <<token, used, enroll, disk, agent, late, silent>>

Enable(n) ==
    /\ status[n] = "DISABLED"
    /\ status' = [status EXCEPT ![n] = "OFFLINE"]
    /\ UNCHANGED <<token, used, enroll, disk, agent, late, silent, events>>

\* The monitor reads which ONLINE nodes are silent and then names them by id.
FindSilent(n) ==
    /\ status[n] = "ONLINE"
    /\ n \notin silent
    /\ silent' = silent \cup {n}
    /\ UNCHANGED <<status, token, used, enroll, disk, agent, late, events>>

MarkOffline(n) ==
    /\ n \in silent
    /\ silent' = silent \ {n}
    /\ status' = [status EXCEPT ![n] = "OFFLINE"]
    /\ UNCHANGED <<token, used, enroll, disk, agent, late, events>>

-----------------------------------------------------------------------------
EnrollSteps(n) == EnrollMint(n) \/ EnrollMark(n) \/ EnrollStore(n) \/ EnrollFails(n)
BeatSteps(n) ==
    \/ BeatAccepted(n) \/ BeatRefused(n) \/ Beat(n) \/ BeatReplyLost(n)
    \/ BeatTimesOut(n)
RotateSteps(n) ==
    \/ RotateAccepted(n) \/ RotateSkipped(n) \/ RotateRefused(n)
    \/ Rotate(n) \/ Persist(n) \/ TornWrite(n)

Next ==
    \/ \E n \in Nodes, i \in Invites : EnrollCheck(n, i)
    \/ \E n \in Nodes :
         \/ EnrollSteps(n) \/ BeatSteps(n) \/ RotateSteps(n)
         \/ Start(n) \/ Crash(n)
         \/ Withdraw(n) \/ Disable(n) \/ Enable(n)
         \/ FindSilent(n) \/ MarkOffline(n)
    \/ \E t \in Tokens : Ages(t) \/ Expires(t)
    \/ LateBeat

Spec == Init /\ [][Next]_vars

\* systemd restarts the agent, its loop goes on, and the hour between two
\* attempts at a rotation passes again and again.
Fairness ==
    \A n \in Nodes :
        /\ WF_vars(Start(n))
        /\ WF_vars(BeatAccepted(n) \/ BeatRefused(n))
        /\ WF_vars(Beat(n))
        /\ SF_vars(RotateAccepted(n))
        /\ WF_vars(Rotate(n))
        /\ WF_vars(RotateSkipped(n) \/ RotateRefused(n))
        /\ WF_vars(Persist(n))
        /\ WF_vars(MarkOffline(n))

FairSpec == Spec /\ Fairness

-----------------------------------------------------------------------------
(***************************************************************************)
(* Properties.                                                             *)
(***************************************************************************)
Statuses == {"NONE", "ONLINE", "OFFLINE", "DISABLED"}
TokenRows == [node : Nodes \cup {None},
              state : {"free", "valid", "retired", "withdrawn"},
              age : {"fresh", "due", "expired"},
              invite : Invites \cup {None}]
Enrollments == [pc : {"idle", "checked", "minted", "marked"},
                invite : Invites \cup {None},
                row : Statuses,
                tok : Tokens \cup {None}]
Agents == [pc : {"halted", "off", "idle", "beat", "rotate", "issue", "persist"},
           tok : Tokens \cup {None},
           new : Tokens \cup {None},
           fails : 0 .. MaxAuthFailures]

\* Every variable stays within its type.
TypeOK ==
    /\ status \in [Nodes -> Statuses]
    /\ token \in [Tokens -> TokenRows]
    /\ used \subseteq Invites
    /\ enroll \in [Nodes -> Enrollments]
    /\ disk \in [Nodes -> Tokens \cup {None}]
    /\ agent \in [Nodes -> Agents]
    /\ late \subseteq [node : Nodes, tok : Tokens]
    /\ silent \subseteq Nodes
    /\ events \in Nat

\* Whatever reply is lost and wherever the agent dies, the token in its env file
\* is not one the server has retired: the old token dies only once the new one
\* works (docs/api.md, POST /api/node/token/rotate).
CredentialKept ==
    \A n \in Nodes : disk[n] # None =>
        token[disk[n]].node = n /\ token[disk[n]].state \in {"valid", "withdrawn"}

\* An agent that has exited for good had a reason no rotation can remove: its
\* token was withdrawn or expired (no node of the instance is disabled, and an
\* agent without an env file is the operator's to enroll).
Dead(t) == token[t].state = "withdrawn" \/ token[t].age = "expired"
HaltHasReason ==
    \A n \in Nodes : agent[n].pc = "halted" /\ disk[n] # None => Dead(disk[n])

\* A token about to expire is replaced in time, in the env file of a node that
\* is in touch.
Renewed ==
    \A n \in Nodes, t \in Tokens :
        disk[n] = t /\ token[t].age = "due"
           ~> disk[n] # t \/ token[t].age = "expired" \/ agent[n].pc = "halted"

\* A token that a rotation issued and its agent never received does not stay
\* valid for ever.
OrphanRetired ==
    \A n \in Nodes, t \in Tokens :
        token[t].node = n /\ token[t].state = "valid"
           ~> disk[n] = t \/ token[t].state # "valid" \/ agent[n].pc = "halted"

\* Rotation completes: a token about to expire is replaced in time, and one that
\* its agent never received does not outlive the next heartbeat.
RenewalCompletes == Renewed /\ OrphanRetired
=============================================================================
