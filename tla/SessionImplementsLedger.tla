----------------------- MODULE SessionImplementsLedger -----------------------
(***************************************************************************)
(* The sessions table of SessionLifecycle, seen as a SessionLedger.        *)
(***************************************************************************)
EXTENDS SessionLifecycle

Ledger == INSTANCE SessionLedger WITH
    Nobody <- None,
    status <- [s \in Sids |-> session[s].status],
    holder <- [s \in Sids |-> session[s].dev]

\* Every behaviour of the control server, its queue and its agents is a
\* behaviour of the ledger: no interleaving opens a second session for a
\* device, activates an ended session or reuses a row.
ImplementsLedger == Ledger!Spec
=============================================================================
