----------------------------- MODULE OrderLedger -----------------------------
(***************************************************************************)
(* What billing promises of an order, apart from who settles it and how:   *)
(* it is placed once, by somebody for a plan; it may be given up, and paid *)
(* all the same; once paid it can only be given back.  What it buys is one *)
(* subscription, of that plan for that customer, bought with money that    *)
(* came in; its promo code is used up by that and by nothing else.         *)
(***************************************************************************)
CONSTANTS
    OrderIds, Users, Plans,
    Nothing     \* the terms of an order that was never placed

VARIABLES
    status,     \* status[o]: "NONE" until the order is placed
    terms,      \* terms[o]: who placed it, and for which plan
    bought,     \* what orders were turned into: <<order, terms>>
    used        \* orders whose promo code is used up

vars == <<status, terms, bought, used>>

Unpaid == {"PENDING", "FAILED", "CANCELLED"}

Init ==
    /\ status = [o \in OrderIds |-> "NONE"]
    /\ terms = [o \in OrderIds |-> Nothing]
    /\ bought = {}
    /\ used = {}

Place(o, u, p) ==
    /\ status[o] = "NONE"
    /\ status' = [status EXCEPT ![o] = "PENDING"]
    /\ terms' = [terms EXCEPT ![o] = <<u, p>>]
    /\ UNCHANGED <<bought, used>>

\* Orders are given up one at a time or, by the daily sweep, together.
GiveUp(S, why) ==
    /\ \A o \in S : status[o] \in Unpaid
    /\ status' = [o \in OrderIds |-> IF o \in S THEN why ELSE status[o]]
    /\ UNCHANGED <<terms, bought, used>>

\* The money counts even if the order had been given up.
Pay(o) ==
    /\ status[o] \in Unpaid
    /\ status' = [status EXCEPT ![o] = "PAID"]
    /\ UNCHANGED <<terms, bought, used>>

GiveBack(o) ==
    /\ status[o] = "PAID"
    /\ status' = [status EXCEPT ![o] = "REFUNDED"]
    /\ UNCHANGED <<terms, bought, used>>

\* Once, and on the terms on which it was placed.  A refund may overtake it.
Fulfil(o) ==
    /\ status[o] \in {"PAID", "REFUNDED"}
    /\ \A b \in bought : b[1] # o
    /\ bought' = bought \union {<<o, terms[o]>>}
    /\ UNCHANGED <<status, terms, used>>

UseCode(o) ==
    /\ \E b \in bought : b[1] = o
    /\ used' = used \union {o}
    /\ UNCHANGED <<status, terms, bought>>

Next ==
    \/ \E o \in OrderIds, u \in Users, p \in Plans : Place(o, u, p)
    \/ \E S \in SUBSET OrderIds, why \in {"FAILED", "CANCELLED"} : GiveUp(S, why)
    \/ \E o \in OrderIds : Pay(o) \/ GiveBack(o) \/ Fulfil(o) \/ UseCode(o)

Spec == Init /\ [][Next]_vars
=============================================================================
