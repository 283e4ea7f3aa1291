----------------------------- MODULE Happenings -----------------------------
(***************************************************************************)
(* What may go wrong, or be done by people, in the smaller machines of the *)
(* project: an instance names the kinds that happen and bounds how many do.*)
(* Several machines may be checked in one run: a behaviour is of one.      *)
(***************************************************************************)
EXTENDS Integers, FiniteSets, Sequences

CONSTANTS
    Events,     \* the kinds of event that may happen
    MaxEvents,  \* bound of the model: how many of them happen in all
    None        \* no row, nobody, nothing

VARIABLES
    events,     \* how many have happened
    part        \* the machine that runs

Happens(kind) ==
    /\ kind \in Events
    /\ events < MaxEvents
    /\ events' = events + 1

\* Nothing of the kind.
Quiet == UNCHANGED events

Runs(machine) == part = machine
=============================================================================
