---------------------------- MODULE SharedBudget ----------------------------
(***************************************************************************)
(* The speed of a plan where the kernel does not hold it: a token bucket   *)
(* that all streams of a subscriber share, in the browser gateway and in   *)
(* the relays before sing-box, and the sweeper that forgets idle ones.     *)
(***************************************************************************)
EXTENDS Happenings, FiniteSetsExt

CONSTANTS
    Streams,
    Buckets,    \* bound of the model: how many are made
    Rates,      \* tokens a tick that the plan's speed may be
    MaxClock,
    IdleAfter,  \* ticks after which a bucket is forgotten
    SparesBusy  \* the sweeper looks whether a stream still uses the bucket

\* The plans have a fastest one, and None is neither a bucket nor what a bucket holds.
ASSUME BudgetAssumption ==
    /\ SparesBusy \in BOOLEAN /\ IdleAfter \in Nat
    /\ Rates \subseteq Nat /\ \E top \in Rates : \A r \in Rates : r <= top
    /\ None \notin Buckets /\ None \notin [tokens : Nat, rate : Rates, at : Nat]

VARIABLES
    clock,
    rate,       \* of the plan, as the listener or the answer to the last check has it
    held,       \* held[b]: tokens, rate, when refilled; None: not made yet
    mapped,     \* the bucket that the next stream gets, or None
    usedAt,     \* lastUsedAt
    through,    \* through[s]: the bucket that a stream pays, or None
    spent       \* tokens paid in all

budgetVars == <<clock, rate, held, mapped, usedAt, through, spent>>

\* A burst is what comes in during a tick.
Capacity(r) == r
Fresh(r) == [tokens |-> Capacity(r), rate |-> r, at |-> clock]

BudgetInit ==
    /\ clock = 0 /\ rate \in Rates /\ usedAt = 0 /\ spent = 0
    /\ held = [b \in Buckets |-> None]
    /\ mapped = None
    /\ through = [s \in Streams |-> None]

Lesser(a, b) == IF a < b THEN a ELSE b

\* refill.
Refilled(k) ==
    [tokens |-> Lesser(Capacity(k.rate), k.tokens + (clock - k.at) * k.rate), rate |-> k.rate, at |-> clock]

Charged(k) == [Refilled(k) EXCEPT !.tokens = @ - 1]

\* Fault: a change of the plan fills the bucket.
FilledUp(k, r) == [k EXCEPT !.rate = r, !.tokens = Capacity(r)]
\* setRate keeps what the bucket holds, as far as it fits.
Resized(k, r) == [tokens |-> Lesser(k.tokens, Capacity(r)), rate |-> r, at |-> k.at]

\* Fault: a bucket for each stream.
OneEach(b) == held[b] = None
\* shaperFor: the subscriber's bucket, or a new one where there is none.
Serves(b) == IF mapped # None THEN b = mapped ELSE held[b] = None

Opens(s, b) ==
    /\ through[s] = None /\ Serves(b)
    /\ held' = [held EXCEPT ![b] = IF @ = None THEN Fresh(rate)
                                   ELSE IF @.rate # rate THEN Resized(@, rate) ELSE @]
    /\ mapped' = b /\ usedAt' = clock
    /\ through' = [through EXCEPT ![s] = b]
    /\ UNCHANGED <<clock, rate, spent>> /\ Quiet

\* take, for a token's worth of a chunk; an empty bucket leaves the source unread.
Takes(s) ==
    /\ through[s] # None
    /\ Refilled(held[through[s]]).tokens > 0
    /\ held' = [held EXCEPT ![through[s]] = Charged(@)]
    /\ spent' = spent + 1
    /\ UNCHANGED <<clock, rate, mapped, usedAt, through>> /\ Quiet

StreamEnds(s) ==
    /\ through[s] # None
    /\ through' = [through EXCEPT ![s] = None]
    /\ usedAt' = clock
    /\ UNCHANGED <<clock, rate, held, mapped, spent>> /\ Quiet

\* The relay's sweep looks at the clock alone; the gateway's also at the device's tunnels.
Swept ==
    /\ mapped # None /\ usedAt + IdleAfter < clock
    /\ SparesBusy => \A s \in Streams : through[s] # mapped
    /\ mapped' = None
    /\ UNCHANGED <<clock, rate, held, usedAt, through, spent>> /\ Quiet

PlanChanges ==
    /\ Happens("plan")
    /\ rate' \in Rates \ {rate}
    /\ UNCHANGED <<clock, held, mapped, usedAt, through, spent>>

BudgetTick ==
    /\ clock < MaxClock
    /\ clock' = clock + 1
    /\ UNCHANGED <<rate, held, mapped, usedAt, through, spent>> /\ Quiet

BudgetNext ==
    \/ \E s \in Streams : Takes(s) \/ StreamEnds(s) \/ \E b \in Buckets : Opens(s, b)
    \/ Swept \/ PlanChanges \/ BudgetTick

-----------------------------------------------------------------------------
\* However many streams a subscriber opens and closes, and however the plan changes on the
\* way, all of them together get what one stream at the highest of its speeds would.
BudgetHolds == spent <= Max(Rates) * (clock + 1)
=============================================================================
