--------------------------- MODULE TrafficWindow ---------------------------
(***************************************************************************)
(* What an account is entitled to: the rows that grants leave behind, the  *)
(* plan in force, and the window of days in which its traffic is counted.  *)
(* The monitor's EXPIRED marks are left out: everything here goes by the   *)
(* end of the term.                                                        *)
(***************************************************************************)
EXTENDS Happenings, FiniteSetsExt

CONSTANTS
    Offers,     \* the codes of the paid plans
    Tier,       \* Tier[p]: its rank; Free is 0
    Terms,      \* Terms[p]: days it is sold for
    Cap,        \* Cap[p]: units of traffic in a window, for Free too
    NoPlan,     \* the code of no subscription
    Window,     \* days of a traffic window
    Slack,      \* days a renewal may come late and still continue the term
    Horizon,    \* bound of the model: the last day
    MaxGrants,  \* bound of the model: rows of the account
    MaxUnits    \* bound of the model: units of traffic

ASSUME OfferAssumption ==
    /\ Tier \in [Offers -> Int] /\ Terms \in [Offers -> Nat] /\ Window \in Nat \ {0} /\ Slack \in Nat
    \* no plan comes without traffic
    /\ Cap \in [Offers \union {NoPlan} -> Nat \ {0}] /\ NoPlan \notin Offers /\ None \notin Nat

VARIABLES
    age,        \* days since the account was created
    grants,     \* its subscriptions, the oldest first
    units       \* the day of every unit that a node has attributed to it

windowVars == <<age, grants, units>>

WindowInit == age = 0 /\ grants = <<>> /\ units = <<>>

Running(i) == grants[i].active /\ grants[i].until > age

\* resolveEntitlement: the highest tier, and of those the one that ends last.
InForce ==
    LET live == {i \in DOMAIN grants : Running(i)}
        top == {i \in live : \A j \in live : grants[j].tier <= grants[i].tier}
    IN IF live = {} THEN None
       ELSE CHOOSE i \in top : \A j \in top : grants[j].until <= grants[i].until

PlanOf(i) == IF i = None THEN NoPlan ELSE grants[i].plan

-----------------------------------------------------------------------------
SamePlan(i) == {j \in 1..i : grants[j].plan = grants[i].plan}

\* Fault: every row begins a window of its own.
OwnDay(i) == grants[i].created
\* chainStart: back through the rows of the plan, as long as each was still valid (or had
\* just ended) when the next was made, whatever its status says now.
ChainStart(i) ==
    LET Before(k) == Max({j \in SamePlan(i) : j < k})
        Joined(j) == \A k \in SamePlan(i) : k > j =>
                        grants[Before(k)].until + Slack >= grants[k].created
    IN grants[Min({j \in SamePlan(i) : Joined(j)})].created

\* A Free account counts from the day it was made.
Anchor(i) == IF i = None THEN 0 ELSE ChainStart(i)

\* Fault: the window is the term.
Unrolled(anchor) == anchor
\* quotaPeriod: whole windows since the anchor.
PeriodStart(anchor) == anchor + Window * ((age - anchor) \div Window)

\* quotaStatus: what was used from the start of the present window.
UsedInPeriod ==
    LET start == PeriodStart(Anchor(InForce))
    IN Cardinality({n \in DOMAIN units : units[n] >= start})
SpentAll == UsedInPeriod >= Cap[PlanOf(InForce)]

-----------------------------------------------------------------------------
\* Fault: a grant takes over whatever is running.
AllRunning(p, mode) == {i \in DOMAIN grants : Running(i)}
\* grantPlan: extending takes over the same or a lower tier, replacing all of them.
Taken(p, mode) == {i \in DOMAIN grants : Running(i) /\ (mode = "replace" \/ grants[i].tier <= Tier[p])}

\* The new term begins where the last of those ends, or now.
Begins(p, mode, start) ==
    IF mode = "replace" \/ Taken(p, mode) = {} THEN start = age
    ELSE \E i \in Taken(p, mode) :
            start = grants[i].until /\ \A j \in Taken(p, mode) : grants[j].until <= start

Term(p, start) ==
    [plan |-> p, tier |-> Tier[p], created |-> age, until |-> start + Terms[p], active |-> TRUE]

TakenOver(p, mode) ==
    [i \in DOMAIN grants |-> IF i \in Taken(p, mode) THEN [grants[i] EXCEPT !.active = FALSE] ELSE grants[i]]

Gives(p, mode, start) ==
    /\ Len(grants) < MaxGrants
    /\ Begins(p, mode, start)
    /\ grants' = Append(TakenOver(p, mode), Term(p, start))
    /\ UNCHANGED <<age, units>>

\* An order is paid, or an administrator adds days.
Extends(p) ==
    \E start \in {age} \union {grants[i].until : i \in DOMAIN grants} : Gives(p, "extend", start) /\ Quiet

\* An administrator puts the account on a plan, from now.
Replaces(p) == Gives(p, "replace", age) /\ Happens("plan")

\* An administrator turns the subscription off.
TurnsOff ==
    /\ \E i \in DOMAIN grants : grants[i].active
    /\ Happens("disable")
    /\ grants' = [i \in DOMAIN grants |-> [grants[i] EXCEPT !.active = FALSE]]
    /\ UNCHANGED <<age, units>>

\* A tunnel is let in while there is traffic left, and cut when there is not.
Spends ==
    /\ ~SpentAll /\ Len(units) < MaxUnits
    /\ units' = Append(units, age)
    /\ UNCHANGED <<age, grants>> /\ Quiet

ADayLater ==
    /\ age < Horizon
    /\ age' = age + 1
    /\ UNCHANGED <<grants, units>> /\ Quiet

WindowNext == Spends \/ ADayLater \/ TurnsOff \/ \E p \in Offers : Extends(p) \/ Replaces(p)

-----------------------------------------------------------------------------
\* Paying early is no fresh allowance: a renewal of the plan in force, however many and
\* whenever they come, leaves the window as it is.
RenewalKeepsWindow ==
    [][(Len(grants') > Len(grants) /\ PlanOf(InForce) = PlanOf(InForce)') =>
            PeriodStart(Anchor(InForce))' = PeriodStart(Anchor(InForce))]_windowVars

\* No day that is paid for is left with a lower plan because another was bought: neither a
\* cheaper plan on top of a dear one nor the other way round.
PaidDaysKept ==
    [][(\E p \in Offers : Extends(p)) =>
        \A i \in DOMAIN grants : grants[i].active => \E j \in DOMAIN grants' :
            /\ grants'[j].active
            /\ grants'[j].tier >= grants[i].tier /\ grants'[j].until >= grants[i].until]_windowVars

\* Who has run out has used traffic in the last Window days: nobody is barred for longer,
\* whatever plan begins, ends or is taken away in between.
NeverBarredLonger == SpentAll => \E n \in DOMAIN units : units[n] > age - Window

\* The traffic of a plan: renewals hand out no fresh window and no day below the plan that
\* was paid for, and nobody is barred by traffic of an older window.
WindowsHold == RenewalKeepsWindow /\ PaidDaysKept /\ []NeverBarredLonger
=============================================================================
