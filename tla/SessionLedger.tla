---------------------------- MODULE SessionLedger ----------------------------
(***************************************************************************)
(* What the sessions of the control plane promise to the rest of the       *)
(* system, apart from how they are set up and torn down: a session is      *)
(* opened for a device that has none, may become active once, ends once,   *)
(* and is never reused.                                                    *)
(***************************************************************************)
CONSTANTS
    Sids,       \* identities of sessions
    Devices,
    Nobody      \* the holder of a session that was never opened

VARIABLES
    status,     \* status[s]: "NONE" until the session is opened
    holder      \* holder[s]: the device it was opened for

vars == <<status, holder>>

LiveStates == {"PENDING", "ACTIVE"}
EndStates == {"CLOSED", "FAILED"}

Init ==
    /\ status = [s \in Sids |-> "NONE"]
    /\ holder = [s \in Sids |-> Nobody]

Open(s, d) ==
    /\ status[s] = "NONE"
    /\ \A t \in Sids : status[t] \in LiveStates => holder[t] # d
    /\ status' = [status EXCEPT ![s] = "PENDING"]
    /\ holder' = [holder EXCEPT ![s] = d]

Activate(s) ==
    /\ status[s] = "PENDING"
    /\ status' = [status EXCEPT ![s] = "ACTIVE"]
    /\ UNCHANGED holder

\* Sessions end one at a time or, behind a gate, together.
End(S, e) ==
    /\ \A s \in S : status[s] # "NONE"
    /\ status' = [s \in Sids |-> IF s \in S THEN e ELSE status[s]]
    /\ UNCHANGED holder

Next ==
    \/ \E s \in Sids, d \in Devices : Open(s, d)
    \/ \E s \in Sids : Activate(s)
    \/ \E S \in SUBSET Sids, e \in EndStates : End(S, e)

Spec == Init /\ [][Next]_vars
=============================================================================
