----------------------------- MODULE NodeProofs -----------------------------
(***************************************************************************)
(* What holds on and around a node for every value of the constants: the   *)
(* shared budget of a subscriber, the kernel's shaping, the accounting of  *)
(* traffic, the gateway policy, the deployment jobs and the watch on the   *)
(* provider's meter.  The six share a state only in MCNode, whose steps    *)
(* are steps of one of them; each has a lemma that says so, an inductive   *)
(* invariant, a lemma for every step, and its theorem.                     *)
(***************************************************************************)
EXTENDS MCNode, NumberLemmas, FiniteSetTheorems, TLAPS

\* A step of the whole is a step of the shared budget, or leaves it alone.
LEMMA BudgetSteps == ASSUME [MCNext]_nodeVars PROVE [BudgetNext]_budgetVars
<1>1. CASE MCNext BY <1>1 DEF MCNext, Only
<1>2. CASE UNCHANGED nodeVars BY <1>2 DEF nodeVars, partVars
<1>3. QED BY <1>1, <1>2

\* The speed of the fastest plan, in tokens a tick.
Top == Max(Rates)

\* There is such a speed, and no plan's is above it.
LEMMA TopRate == Top \in Nat /\ \A r \in Rates : r \in Nat /\ r <= Top
BY BudgetAssumption DEF BudgetAssumption, Top, Max

\* One tick more is one addend more.
LEMMA OneMore == ASSUME NEW n \in Int, NEW m \in Nat PROVE (n + 1) * m = n * m + m /\ n * m \in Int
OBVIOUS

\* What a bucket gains in some ticks is at most what one of the fastest plan would gain.
LEMMA Faster == ASSUME NEW n \in Nat, NEW r \in Rates PROVE n * r \in Nat /\ n * r <= n * Top
<1>1. r \in Nat /\ Top \in Nat /\ r <= Top BY TopRate
<1>2. PICK d \in Nat : Top = r + d
  <2>1. Top - r \in Nat BY <1>1
  <2>2. Top = r + (Top - r) BY <1>1
  <2>3. QED BY <2>1, <2>2
<1>3. n * d \in Nat /\ n * r \in Nat BY <1>1
<1>4. n * Top = n * r + n * d BY <1>1, <1>2
<1>5. QED BY <1>3, <1>4, <1>1

\* What a bucket in memory holds.
BucketStates == [tokens : Nat, rate : Rates, at : Nat]

\* The variables of the budget have their types.
BudgetTypeOK ==
    /\ clock \in Nat /\ rate \in Rates /\ usedAt \in Nat /\ spent \in Nat
    /\ held \in [Buckets -> BucketStates \union {None}]
    /\ mapped \in Buckets \union {None}
    /\ through \in [Streams -> Buckets \union {None}]

\* The bucket that the next stream gets was refilled in the past, and no stream pays another: a
\* bucket is forgotten only when nobody uses it.
OneBucket ==
    /\ mapped # None => held[mapped] # None /\ held[mapped].at <= clock
    /\ \A s \in Streams : through[s] \in {mapped, None}

\* What was paid and what could be paid now, the gain since the last refill included, stays
\* within the plan's fastest speed from the beginning on; with no bucket made there is room for a
\* fresh one.
Affordable ==
    /\ usedAt <= clock
    /\ (\A s \in Streams : through[s] = None) => spent <= Top * (usedAt + 1)
    /\ mapped # None =>
         spent + held[mapped].tokens + (clock - held[mapped].at) * Top <= Top * (clock + 1)
    /\ mapped = None => spent + Top <= Top * (clock + 1)

\* The inductive invariant of the shared budget.
BudgetInv == BudgetTypeOK /\ OneBucket /\ Affordable

\* A refill (TokenBucket.refill) gives a bucket what its speed has earned since the last one,
\* never more than the fastest plan would, and cuts it at the burst.
LEMMA RefillTyped ==
  ASSUME BudgetTypeOK, NEW k \in BucketStates, k.at <= clock
  PROVE  /\ Refilled(k) \in BucketStates /\ Refilled(k).at = clock
         /\ Refilled(k).tokens <= k.tokens + (clock - k.at) * Top
         /\ (clock - k.at) * Top \in Nat
<1>1. clock \in Nat /\ k.tokens \in Nat /\ k.at \in Nat /\ k.rate \in Rates
  BY DEF BudgetTypeOK, BucketStates
<1>2. clock - k.at \in Nat BY <1>1
<1>3. (clock - k.at) * k.rate \in Nat /\ (clock - k.at) * k.rate <= (clock - k.at) * Top
  BY <1>1, <1>2, Faster
<1>4. k.rate \in Nat /\ (clock - k.at) * Top \in Nat BY <1>1, <1>2, TopRate
<1>5. DEFINE gain == (clock - k.at) * k.rate
             more == Lesser(k.rate, k.tokens + gain)
<1>6. more \in Nat /\ more <= k.tokens + gain
  <2> HIDE DEF gain
  <2>1. gain \in Nat BY <1>3 DEF gain
  <2>2. QED BY <2>1, <1>1, <1>4 DEF Lesser
<1>7. Refilled(k) = [tokens |-> more, rate |-> k.rate, at |-> clock]
  BY DEF Refilled, Capacity
<1>8. more <= k.tokens + (clock - k.at) * Top
  <2> HIDE DEF more
  <2>1. gain <= (clock - k.at) * Top /\ gain \in Nat BY <1>3
  <2> HIDE DEF gain
  <2>2. QED BY <2>1, <1>1, <1>4, <1>6
<1>9. QED
  <2> HIDE DEF more
  <2>1. QED BY <1>1, <1>4, <1>6, <1>7, <1>8 DEF BucketStates

\* Nothing was paid and no bucket was made.
LEMMA BudgetInitial == BudgetInit => BudgetInv
<1> SUFFICES ASSUME BudgetInit PROVE BudgetInv OBVIOUS
<1>1. Top \in Nat BY TopRate
<1>2. BudgetTypeOK BY DEF BudgetInit, BudgetTypeOK
<1>3. OneBucket BY DEF BudgetInit, OneBucket
<1>4. Affordable BY <1>1 DEF BudgetInit, Affordable
<1>5. QED BY <1>2, <1>3, <1>4 DEF BudgetInv

\* Every step of the budget keeps the invariant, where the sweeper spares a bucket that a stream
\* uses.
LEMMA BudgetStep ==
  ASSUME SparesBusy, BudgetInv, [BudgetNext]_budgetVars
  PROVE  BudgetInv'
<1> USE DEF BudgetInv
<1>t. Top \in Nat /\ None \notin Buckets /\ None \notin BucketStates /\ IdleAfter \in Nat
  BY TopRate, BudgetAssumption DEF BudgetAssumption, BucketStates
<1>1. ASSUME NEW s \in Streams, NEW own \in Buckets, Opens(s, own)
      PROVE  BudgetInv'
  <2>1. through[s] = None /\ Serves(own) /\ mapped' = own /\ usedAt' = clock
        /\ through' = [through EXCEPT ![s] = own] /\ UNCHANGED <<clock, rate, spent>>
    BY <1>1 DEF Opens
  <2>2. CASE mapped = None
    <3>1. held[own] = None BY <2>1, <2>2 DEF Serves
    <3>2. held' = [held EXCEPT ![own] = Fresh(rate)] BY <1>1, <3>1 DEF Opens
    <3>3. Fresh(rate) \in BucketStates /\ Fresh(rate).at = clock /\ Fresh(rate).tokens = rate
          /\ rate \in Nat /\ rate <= Top
      BY TopRate DEF BudgetTypeOK, Fresh, Capacity, BucketStates
    <3>4. BudgetTypeOK' BY <2>1, <3>2, <3>3 DEF BudgetTypeOK
    <3>5. held'[own] = Fresh(rate) BY <3>2 DEF BudgetTypeOK
    <3>6. OneBucket'
      <4>1. ASSUME NEW q \in Streams PROVE through'[q] \in {mapped', None}
        BY <2>1, <2>2 DEF OneBucket, BudgetTypeOK
      <4>2. QED BY <4>1, <2>1, <3>3, <3>5, <1>t DEF BudgetTypeOK, OneBucket
    <3>7. Affordable'
      <4>1. through'[s] # None BY <2>1, <1>t DEF BudgetTypeOK
      <4>2. (clock - clock) * Top = 0 BY <1>t DEF BudgetTypeOK
      <4>3. spent + Top <= Top * (clock + 1) BY <2>2 DEF Affordable
      <4>4. spent + rate + (clock - clock) * Top <= Top * (clock + 1)
        <5>1. Top * (clock + 1) \in Nat BY <1>t DEF BudgetTypeOK
        <5>2. QED BY <4>2, <4>3, <3>3, <1>t, <5>1 DEF BudgetTypeOK
      <4>5. clock \in Nat BY DEF BudgetTypeOK
      <4>6. QED BY <4>1, <4>4, <4>5, <2>1, <3>3, <3>5, <1>t DEF Affordable
    <3>8. QED BY <3>4, <3>6, <3>7
  <2>3. CASE mapped # None
    <3>1. own = mapped /\ held[own] \in BucketStates /\ held[own].at <= clock
      BY <2>1, <2>3, <1>t DEF Serves, OneBucket, BudgetTypeOK
    <3>2. held' = [held EXCEPT ![own] = IF @.rate # rate THEN Resized(@, rate) ELSE @]
      BY <1>1, <3>1, <1>t DEF Opens
    <3>3. held' \in [Buckets -> BucketStates \union {None}]
          /\ held'[own] \in BucketStates /\ held'[own].at = held[own].at /\ held'[own].tokens <= held[own].tokens
      <4>1. rate \in Nat /\ rate \in Rates BY TopRate DEF BudgetTypeOK
      <4>2. Resized(held[own], rate) \in BucketStates /\ Resized(held[own], rate).at = held[own].at
            /\ Resized(held[own], rate).tokens <= held[own].tokens
        <5>1. Resized(held[own], rate) = [tokens |-> Lesser(held[own].tokens, rate), rate |-> rate, at |-> held[own].at]
          BY DEF Resized, Capacity
        <5>2. QED BY <3>1, <4>1, <5>1 DEF Lesser, BucketStates
      <4>3. held[own].tokens \in Nat BY <3>1 DEF BucketStates
      <4>4. QED BY <3>1, <3>2, <4>2, <4>3 DEF BudgetTypeOK
    <3>4. BudgetTypeOK' BY <2>1, <3>3 DEF BudgetTypeOK
    <3>5. OneBucket'
      <4>1. ASSUME NEW q \in Streams PROVE through'[q] \in {mapped', None}
        BY <2>1, <3>1 DEF OneBucket, BudgetTypeOK
      <4>2. QED BY <4>1, <2>1, <3>1, <3>3, <1>t
                DEF BudgetTypeOK, OneBucket
    <3>6. Affordable'
      <4>1. through'[s] # None BY <2>1, <1>t DEF BudgetTypeOK
      <4>2. spent + held[own].tokens + (clock - held[own].at) * Top <= Top * (clock + 1)
        BY <2>3, <3>1 DEF Affordable
      <4>3. (clock - held[own].at) * Top \in Int /\ Top * (clock + 1) \in Nat /\ spent \in Nat /\ clock \in Nat
            /\ held[own].tokens \in Nat /\ held'[own].tokens \in Nat
        BY <1>t, <3>1, <3>3 DEF BudgetTypeOK, BucketStates
      <4>4. spent + held'[own].tokens + (clock - held[own].at) * Top <= Top * (clock + 1)
        BY <4>2, <4>3, <3>3
      <4>5. QED BY <4>1, <4>3, <4>4, <2>1, <3>3, <1>t DEF Affordable
    <3>7. QED BY <3>4, <3>5, <3>6
  <2>4. QED BY <2>2, <2>3
<1>2. ASSUME NEW s \in Streams, Takes(s) PROVE BudgetInv'
  <2> DEFINE own == through[s]
             k == held[own]
  <2>1. own = mapped /\ own \in Buckets /\ k \in BucketStates /\ k.at <= clock
    BY <1>2, <1>t DEF Takes, OneBucket, BudgetTypeOK
  <2>2. held' = [held EXCEPT ![own] = Charged(@)]
        /\ spent' = spent + 1 /\ Refilled(k).tokens > 0
        /\ UNCHANGED <<clock, rate, mapped, usedAt, through>>
    BY <1>2 DEF Takes
  <2> DEFINE paid == Charged(k)
  <2>3. Refilled(k) \in BucketStates /\ Refilled(k).at = clock
        /\ Refilled(k).tokens <= k.tokens + (clock - k.at) * Top /\ (clock - k.at) * Top \in Nat
    BY <2>1, RefillTyped
  <2>4. paid \in BucketStates /\ paid.at = clock /\ paid.tokens = Refilled(k).tokens - 1
        /\ Refilled(k).tokens \in Nat
    BY <2>2, <2>3 DEF Charged, BucketStates
  <2>5. held' \in [Buckets -> BucketStates \union {None}] /\ held'[own] = paid
    <3> HIDE DEF k
    <3>1. held' = [held EXCEPT ![own] = paid] BY <2>2 DEF k
    <3> HIDE DEF paid, own
    <3>2. QED BY <3>1, <2>1, <2>4 DEF BudgetTypeOK
  <2> HIDE DEF paid, k, own
  <2>6. BudgetTypeOK' BY <2>2, <2>5 DEF BudgetTypeOK
  <2>7. OneBucket' BY <2>1, <2>2, <2>4, <2>5, <1>t DEF OneBucket, BudgetTypeOK
  <2>8. Affordable'
    <3>1. spent + k.tokens + (clock - k.at) * Top <= Top * (clock + 1)
      BY <2>1, <1>t DEF Affordable, k
    <3>2. (clock - clock) * Top = 0 /\ Top * (clock + 1) \in Nat /\ spent \in Nat /\ clock \in Nat /\ k.tokens \in Nat
      BY <1>t, <2>1 DEF BudgetTypeOK, BucketStates
    <3>3. (spent + 1) + paid.tokens + (clock - clock) * Top <= Top * (clock + 1)
      BY <3>1, <3>2, <2>3, <2>4
    <3>4. through'[s] # None BY <2>1, <2>2, <1>t DEF own
    <3>5. mapped' # None /\ mapped' = own BY <2>1, <2>2, <1>t
    <3>6. QED BY <3>3, <3>4, <3>5, <2>2, <2>4, <2>5 DEF Affordable
  <2>9. QED BY <2>6, <2>7, <2>8
<1>3. ASSUME NEW s \in Streams, StreamEnds(s) PROVE BudgetInv'
  <2>1. through' = [through EXCEPT ![s] = None] /\ usedAt' = clock /\ through[s] # None
        /\ UNCHANGED <<clock, rate, held, mapped, spent>>
    BY <1>3 DEF StreamEnds
  <2>2. BudgetTypeOK' BY <2>1 DEF BudgetTypeOK
  <2>3. OneBucket' BY <2>1 DEF OneBucket, BudgetTypeOK
  <2>4. Affordable'
    <3>1. mapped # None /\ held[mapped] \in BucketStates /\ held[mapped].at <= clock
      BY <2>1, <1>t DEF OneBucket, BudgetTypeOK
    <3>2. spent + held[mapped].tokens + (clock - held[mapped].at) * Top <= Top * (clock + 1)
      BY <3>1 DEF Affordable
    <3>3. held[mapped].tokens \in Nat /\ (clock - held[mapped].at) * Top \in Nat
          /\ spent \in Nat /\ clock \in Nat /\ Top * (clock + 1) \in Nat
      BY <3>1, <1>t, RefillTyped DEF BudgetTypeOK, BucketStates
    <3>4. spent <= Top * (clock + 1) BY <3>2, <3>3
    <3>5. QED BY <2>1, <3>1, <3>2, <3>3, <3>4 DEF Affordable
  <2>5. QED BY <2>2, <2>3, <2>4
<1>4. ASSUME Swept PROVE BudgetInv'
  <2>1. mapped # None /\ usedAt + IdleAfter < clock /\ mapped' = None
        /\ (\A s \in Streams : through[s] # mapped)
        /\ UNCHANGED <<clock, rate, held, usedAt, through, spent>>
    BY <1>4 DEF Swept
  <2>2. \A s \in Streams : through[s] = None BY <2>1 DEF OneBucket
  <2>3. BudgetTypeOK' BY <2>1 DEF BudgetTypeOK
  <2>4. OneBucket' BY <2>1, <2>2 DEF OneBucket
  <2>5. spent + Top <= Top * (clock + 1)
    <3>1. spent <= Top * (usedAt + 1) BY <2>2 DEF Affordable
    <3>2. usedAt \in Nat /\ clock \in Nat /\ spent \in Nat BY DEF BudgetTypeOK
    <3>3. PICK d \in Nat : clock = (usedAt + 1) + d
      <4>1. clock - (usedAt + 1) \in Nat BY <2>1, <3>2, <1>t
      <4>2. clock = (usedAt + 1) + (clock - (usedAt + 1)) BY <3>2
      <4>3. QED BY <4>1, <4>2
    <3>4. Top * d \in Nat /\ Top * (usedAt + 1) \in Nat BY <1>t, <3>2
    <3>5. Top * (clock + 1) = Top * (usedAt + 1) + Top * d + Top BY <1>t, <3>2, <3>3
    <3>6. QED BY <3>1, <3>2, <3>4, <3>5, <1>t
  <2>6. Affordable' BY <2>1, <2>2, <2>5 DEF Affordable
  <2>7. QED BY <2>3, <2>4, <2>6
<1>5. ASSUME PlanChanges PROVE BudgetInv'
  <2>1. rate' \in Rates /\ UNCHANGED <<clock, held, mapped, usedAt, through, spent>>
    BY <1>5 DEF PlanChanges
  <2>2. QED BY <2>1 DEF BudgetTypeOK, OneBucket, Affordable
<1>6. ASSUME BudgetTick PROVE BudgetInv'
  <2>1. clock' = clock + 1 /\ UNCHANGED <<rate, held, mapped, usedAt, through, spent>>
    BY <1>6 DEF BudgetTick
  <2>2. clock \in Nat /\ spent \in Nat /\ usedAt \in Nat BY DEF BudgetTypeOK
  <2>3. Top * (clock + 1 + 1) = Top * (clock + 1) + Top /\ Top * (clock + 1) \in Nat BY <1>t, <2>2
  <2>4. BudgetTypeOK' BY <2>1 DEF BudgetTypeOK
  <2>5. OneBucket'
    <3>1. mapped # None => held[mapped] \in BucketStates BY <1>t DEF BudgetTypeOK, OneBucket
    <3>2. QED BY <2>1, <2>2, <3>1 DEF OneBucket, BudgetTypeOK, BucketStates
  <2>6. Affordable'
    <3>1. ASSUME mapped # None
          PROVE  spent + held[mapped].tokens + ((clock + 1) - held[mapped].at) * Top <= Top * (clock + 1 + 1)
      <4>1. held[mapped] \in BucketStates /\ held[mapped].at <= clock
        BY <3>1, <1>t DEF BudgetTypeOK, OneBucket
      <4>2. held[mapped].tokens \in Nat /\ held[mapped].at \in Nat BY <4>1 DEF BucketStates
      <4>3. ((clock + 1) - held[mapped].at) * Top = (clock - held[mapped].at) * Top + Top
            /\ (clock - held[mapped].at) * Top \in Int
        <5> DEFINE age == clock - held[mapped].at
        <5>1. age \in Int /\ (clock + 1) - held[mapped].at = age + 1 BY <4>2, <2>2
        <5>2. (age + 1) * Top = age * Top + Top /\ age * Top \in Int BY <5>1, <1>t, OneMore
        <5>3. QED BY <5>1, <5>2
      <4>4. spent + held[mapped].tokens + (clock - held[mapped].at) * Top <= Top * (clock + 1)
        BY <3>1 DEF Affordable
      <4>5. QED BY <2>2, <2>3, <4>2, <4>3, <4>4, <1>t
    <3>2. mapped = None => spent + Top <= Top * (clock + 1 + 1)
      BY <2>2, <2>3, <1>t DEF Affordable
    <3>3. usedAt <= clock + 1 BY <2>2 DEF Affordable
    <3>4. usedAt' = usedAt /\ mapped' = mapped /\ held' = held /\ through' = through /\ spent' = spent
      BY <2>1
    <3> DEFINE Within(h, m, c, n) == n + h[m].tokens + (c - h[m].at) * Top <= Top * (c + 1)
               Spare(c, n) == n + Top <= Top * (c + 1)
    <3>5. /\ mapped' # None => Within(held', mapped', clock', spent')
          /\ mapped' = None => Spare(clock', spent')
          /\ usedAt' <= clock'
      <4>1. mapped # None => Within(held, mapped, clock + 1, spent)
        <5>1. SUFFICES ASSUME mapped # None PROVE Within(held, mapped, clock + 1, spent) OBVIOUS
        <5>2. QED BY <5>1, <3>1
      <4>2. mapped = None => Spare(clock + 1, spent) BY <3>2
      <4> HIDE DEF Within, Spare
      <4>3. QED BY <2>1, <3>3, <3>4, <4>1, <4>2
    <3>6. (\A s \in Streams : through'[s] = None) => spent' <= Top * (usedAt' + 1)
      BY <3>4 DEF Affordable
    <3>7. QED BY <3>5, <3>6 DEF Affordable
  <2>7. QED BY <2>4, <2>5, <2>6
<1>7. CASE UNCHANGED budgetVars
  BY <1>7 DEF budgetVars, BudgetTypeOK, OneBucket, Affordable
<1>8. QED BY <1>1, <1>2, <1>3, <1>4, <1>5, <1>6, <1>7 DEF BudgetNext

\* Shared speed: where the sweeper looks for streams (the browser gateway; the relays look at the
\* clock alone and are left to the runs), all streams of a subscriber together never pay more
\* than the fastest plan allows from the beginning on, whatever opens, ends, is swept or changes
\* plan.
THEOREM BudgetKept == SparesBusy => (MCSpec => []BudgetHolds)
<1>0. SUFFICES ASSUME SparesBusy PROVE MCSpec => []BudgetHolds OBVIOUS
<1>1. BudgetInv => BudgetHolds
  <2> SUFFICES ASSUME BudgetInv PROVE spent <= Top * (clock + 1) BY DEF BudgetHolds, Top
  <2> USE DEF BudgetInv
  <2>1. Top \in Nat /\ clock \in Nat /\ spent \in Nat /\ Top * (clock + 1) \in Nat
        BY TopRate DEF BudgetTypeOK
  <2>2. CASE mapped = None BY <2>1, <2>2 DEF Affordable
  <2>3. CASE mapped # None
    <3>1. held[mapped] \in BucketStates /\ held[mapped].at <= clock
      BY <2>3 DEF BudgetTypeOK, OneBucket
    <3>2. held[mapped].tokens \in Nat /\ (clock - held[mapped].at) * Top \in Nat
      BY <3>1, RefillTyped DEF BucketStates
    <3>3. QED BY <2>1, <2>3, <3>2 DEF Affordable
  <2>4. QED BY <2>2, <2>3
<1>2. MCInit => BudgetInv BY BudgetInitial DEF MCInit
<1>3. BudgetInv /\ [MCNext]_nodeVars => BudgetInv' BY <1>0, BudgetSteps, BudgetStep
<1>4. QED BY <1>1, <1>2, <1>3, PTL DEF MCSpec

\* A step of the whole is a step of the kernel's shaping, or leaves it alone.
LEMMA ShapingSteps == ASSUME [MCNext]_nodeVars PROVE [ShapingNext]_shapingVars
<1>1. CASE MCNext BY <1>1 DEF MCNext, Only
<1>2. CASE UNCHANGED nodeVars BY <1>2 DEF nodeVars, partVars
<1>3. QED BY <1>1, <1>2

\* The variables of the shaping have their types; what a slot of the kernel holds is told by the
\* actions alone.
ShapingTypeOK ==
    /\ root \in BOOLEAN /\ rootReady \in BOOLEAN
    /\ DOMAIN shape = Slots /\ shape = [i \in Slots |-> shape[i]]
    /\ peerAt \in [Holders -> Slots \union {None}]
    /\ plan \in [Holders -> Caps \union {None, "missed"}]

\* An address has one tenant, and the agent does not believe in a root that is not there.
OneTenant == \A g, h \in Holders : peerAt[g] # None /\ peerAt[g] = peerAt[h] => g = h
\* The agent believes in a root qdisc only while there is one.
RootKnown == rootReady => root

\* The inductive invariant of the shaping: the property itself, and what makes a class of one
\* address the class of one peer.
ShapingInv == ShapingTypeOK /\ OneTenant /\ RootKnown /\ OwnSpeed

\* Every step of the shaping keeps the invariant, while nobody makes the interface anew behind
\* the agent's back.
LEMMA ShapingStep ==
  ASSUME "interface_anew" \notin Events, ShapingInv, [ShapingNext]_shapingVars
  PROVE  ShapingInv'
<1> USE DEF ShapingInv
<1>1. ASSUME NEW h \in Holders, NEW i \in Slots, NEW cap \in Caps \union {None}, AddsPeer(h, i, cap)
      PROVE  ShapingInv'
  <2>1. peerAt[h] = None /\ (\A g \in Holders : peerAt[g] # i) /\ peerAt' = [peerAt EXCEPT ![h] = i]
    BY <1>1 DEF AddsPeer
  <2>2. peerAt'[h] = i /\ (\A g \in Holders : g # h => peerAt'[g] = peerAt[g] /\ peerAt'[g] # i)
        /\ peerAt' \in [Holders -> Slots \union {None}]
    BY <2>1 DEF ShapingTypeOK
  <2>3. OneTenant' BY <2>2 DEF OneTenant
  <2>4. SUFFICES /\ root' \in BOOLEAN /\ rootReady' \in BOOLEAN /\ RootKnown'
                 /\ \E p \in Caps \union {None, "missed"} : \E s :
                       /\ plan' = [plan EXCEPT ![h] = p] /\ shape' = [shape EXCEPT ![i] = s]
                       /\ p # "missed" => s = (IF p = None THEN Bare ELSE Shaped(p))
    <3>0. PICK p \in Caps \union {None, "missed"} : \E s :
             /\ plan' = [plan EXCEPT ![h] = p] /\ shape' = [shape EXCEPT ![i] = s]
             /\ p # "missed" => s = (IF p = None THEN Bare ELSE Shaped(p))
      BY <2>4
    <3>1. PICK s :
             /\ plan' = [plan EXCEPT ![h] = p] /\ shape' = [shape EXCEPT ![i] = s]
             /\ p # "missed" => s = (IF p = None THEN Bare ELSE Shaped(p))
      BY <3>0
    <3>2. plan'[h] = p /\ shape'[i] = s /\ (\A g \in Holders : g # h => plan'[g] = plan[g])
          /\ (\A k \in Slots : k # i => shape'[k] = shape[k])
      BY <3>1 DEF ShapingTypeOK
    <3>3. ShapingTypeOK'
      <4>1. DOMAIN shape' = Slots /\ shape' = [k \in Slots |-> shape'[k]] BY <3>1 DEF ShapingTypeOK
      <4>2. plan' \in [Holders -> Caps \union {None, "missed"}] BY <3>1 DEF ShapingTypeOK
      <4>3. QED BY <2>2, <2>4, <4>1, <4>2 DEF ShapingTypeOK
    <3>4. ASSUME NEW g \in Holders, peerAt'[g] # None, plan'[g] # "missed"
          PROVE  shape'[peerAt'[g]] = IF plan'[g] = None THEN Bare ELSE Shaped(plan'[g])
      <4>1. CASE g = h BY <4>1, <2>2, <3>1, <3>2, <3>4
      <4>2. CASE g # h BY <4>2, <2>2, <3>2, <3>4 DEF OwnSpeed, ShapingTypeOK
      <4>3. QED BY <4>1, <4>2
    <3>5. OwnSpeed' BY <3>4 DEF OwnSpeed
    <3>6. QED BY <2>3, <2>4, <3>3, <3>5
  <2>5. CASE cap = None
    <3>1. plan' = [plan EXCEPT ![h] = None] /\ shape' = [shape EXCEPT ![i] = Bare]
          /\ UNCHANGED <<root, rootReady>>
      BY <1>1, <2>5 DEF AddsPeer, Unshaped, Cleared
    <3>2. QED BY <3>1 DEF ShapingTypeOK, RootKnown
  <2>6. CASE cap # None /\ ~Happens("tc_fails")
    <3>1. /\ root' = (root \/ ~rootReady) /\ rootReady' = TRUE
          /\ plan' = [plan EXCEPT ![h] = cap]
          /\ shape' = [shape EXCEPT ![i] = IF root' THEN Replaced(@, cap) ELSE @]
      BY <1>1, <2>6 DEF AddsPeer
    <3>2. root' = TRUE BY <3>1 DEF RootKnown, ShapingTypeOK
    <3>3. shape' = [shape EXCEPT ![i] = Shaped(cap)] BY <3>1, <3>2 DEF Replaced
    <3>4. QED BY <2>6, <3>1, <3>2, <3>3 DEF RootKnown
  <2>7. CASE cap # None /\ Happens("tc_fails")
    <3>1. CASE plan' = [plan EXCEPT ![h] = "missed"] /\ UNCHANGED <<root, rootReady>>
               /\ \E s : shape' = [shape EXCEPT ![i] = s]
      BY <3>1 DEF ShapingTypeOK, RootKnown
    <3>2. CASE /\ root' = (root \/ ~rootReady) /\ rootReady' = TRUE
               /\ plan' = [plan EXCEPT ![h] = cap]
               /\ shape' = [shape EXCEPT ![i] = IF root' THEN Replaced(@, cap) ELSE @]
      <4>2. root' = TRUE BY <3>2 DEF RootKnown, ShapingTypeOK
      <4>3. shape' = [shape EXCEPT ![i] = Shaped(cap)] BY <3>2, <4>2 DEF Replaced
      <4>4. QED BY <2>7, <3>2, <4>2, <4>3 DEF RootKnown
    <3>3. QED BY <1>1, <2>7, <3>1, <3>2 DEF AddsPeer
  <2>8. QED BY <2>5, <2>6, <2>7
<1>2. ASSUME NEW h \in Holders, NEW named \in BOOLEAN, RemovesPeer(h, named)
      PROVE  ShapingInv'
  <2>1. /\ peerAt[h] # None /\ peerAt' = [peerAt EXCEPT ![h] = None]
        /\ shape' = (IF named THEN [shape EXCEPT ![peerAt[h]] = Cleared(@)] ELSE shape)
        /\ UNCHANGED <<root, rootReady, plan>>
    BY <1>2 DEF RemovesPeer
  <2>2. ShapingTypeOK' BY <2>1 DEF ShapingTypeOK
  <2>3. \A g \in Holders : peerAt'[g] # None =>
          peerAt'[g] = peerAt[g] /\ peerAt[g] \in Slots /\ shape'[peerAt[g]] = shape[peerAt[g]]
    BY <2>1 DEF ShapingTypeOK, OneTenant
  <2>4. OneTenant' BY <2>3 DEF OneTenant
  <2>5. OwnSpeed' BY <2>1, <2>3 DEF OwnSpeed
  <2>6. RootKnown' BY <2>1 DEF RootKnown
  <2>7. QED BY <2>2, <2>4, <2>5, <2>6
<1>3. ASSUME ShaperRestarts PROVE ShapingInv'
  BY <1>3 DEF ShaperRestarts, ShapingTypeOK, OneTenant, RootKnown, OwnSpeed
<1>4. ASSUME InterfaceAnew PROVE ShapingInv'
  <2>1. rootReady' = FALSE /\ root' = FALSE /\ shape' = [i \in Slots |-> Bare]
        /\ peerAt' = [h \in Holders |-> None] /\ plan' = plan
    BY <1>4 DEF InterfaceAnew, Happens
  <2>2. QED BY <2>1 DEF ShapingTypeOK, OneTenant, RootKnown, OwnSpeed
<1>5. CASE UNCHANGED shapingVars
  BY <1>5 DEF shapingVars, ShapingTypeOK, OneTenant, RootKnown, OwnSpeed
<1>6. QED BY <1>1, <1>2, <1>3, <1>4, <1>5 DEF ShapingNext

\* Plan speed: a peer the agent has put on the interface has the class of its own plan and of no
\* former tenant of its address (applyPeerShaping of shaper.ts), as long as the interface is not
\* made anew behind the agent's back, which the agent cannot see.
THEOREM SpeedKept == "interface_anew" \notin Events => (MCSpec => []OwnSpeed)
<1>1. SUFFICES ASSUME "interface_anew" \notin Events PROVE MCSpec => []OwnSpeed OBVIOUS
<1>2. MCInit => ShapingInv
  BY DEF MCInit, ShapingInit, ShapingInv, ShapingTypeOK, OneTenant, RootKnown, OwnSpeed
<1>3. ShapingInv /\ [MCNext]_nodeVars => ShapingInv' BY <1>1, ShapingSteps, ShapingStep
<1>4. ShapingInv => OwnSpeed BY DEF ShapingInv
<1>5. QED BY <1>2, <1>3, <1>4, PTL DEF MCSpec

-----------------------------------------------------------------------------
\* A step of the whole is a step of the accounting, or leaves it alone.
LEMMA UsageSteps == ASSUME [MCNext]_nodeVars PROVE [UsageNext]_usageVars
<1>1. CASE MCNext BY <1>1 DEF MCNext, Only
<1>2. CASE UNCHANGED nodeVars BY <1>2 DEF nodeVars, partVars
<1>3. QED BY <1>1, <1>2

\* Bytes, one number a device.
Amounts == [Meters -> Nat]
\* A report on its way: what was drained of the memory of the agent, what the kernel's counters
\* said, and which entries the server still has to apply.
Reports == [drained : Amounts, peers : Amounts, todo : SUBSET Meters, begun : BOOLEAN]

\* The variables of the accounting have their types.
UsageTypeOK ==
    /\ plane \in [Meters -> {"vless", "peer", "proxy"}]
    /\ counter \in Amounts /\ seen \in Amounts /\ delta \in Amounts /\ bucket \in Amounts /\ moved \in Amounts
    /\ row \in [Meters -> [live : BOOLEAN, bytes : Nat]]
    /\ report \in Reports \union {None}
    /\ posts \subseteq [of : Meters, value : Nat, read : Nat]

\* What the report on its way will add to a device's bucket, or put back.
OnItsWay(d) == IF report # None /\ (~report.begun \/ d \in report.todo) THEN report.drained[d] ELSE 0
\* The row of a device may be told that its counter is x.
MayHear(d, x) == bucket[d] - row[d].bytes + Larger(row[d].bytes, x) <= moved[d]

\* A device whose traffic is told in increments: what is charged, waiting in memory, under way
\* and not yet sampled adds up to no more than what moved.
Increments(d) ==
    /\ seen[d] <= counter[d]
    /\ bucket[d] + delta[d] + OnItsWay(d) + (counter[d] - seen[d]) <= moved[d]
\* A device whose traffic is told as a counter: whichever of the values under way the row hears
\* next, the bucket stays within what moved.
Cumulative(d) ==
    /\ MayHear(d, counter[d])
    /\ report # None /\ d \in report.todo => MayHear(d, report.peers[d])
    /\ \A p \in posts : p.of = d => MayHear(d, p.value) /\ p.read <= row[d].bytes
\* The books of a device balance the way its plane reports.
Books(d) == IF plane[d] = "vless" THEN Increments(d) /\ \A p \in posts : p.of # d ELSE Cumulative(d)

\* The inductive invariant of the accounting.
UsageInv == UsageTypeOK /\ \A d \in Meters : Books(d)

\* Before anything moved, all books balance.
LEMMA UsageInitial == UsageInit => UsageInv
<1> SUFFICES ASSUME UsageInit PROVE UsageInv OBVIOUS
<1>1. /\ plane \in [Meters -> {"vless", "peer", "proxy"}] /\ report = None /\ posts = {}
      /\ counter = [d \in Meters |-> 0] /\ seen = counter /\ delta = counter /\ bucket = counter /\ moved = counter
      /\ row = [d \in Meters |-> [live |-> TRUE, bytes |-> 0]]
  BY UsageAssumption DEF UsageInit, UsageAssumption
<1>2. UsageTypeOK BY <1>1 DEF UsageTypeOK, Amounts
<1>3. ASSUME NEW d \in Meters PROVE Books(d)
  BY <1>1, <1>3 DEF Books, Increments, Cumulative, MayHear, OnItsWay, Larger
<1>4. QED BY <1>2, <1>3 DEF UsageInv

\* What storing a counter's value does (Stores; capture_session_usage): the row takes the greater
\* value, the bucket the difference, and nobody else's row or bucket changes.
LEMMA StoredRow ==
  ASSUME UsageTypeOK, NEW d \in Meters, NEW x \in Nat, Stores(d, x)
  PROVE  /\ row' \in [Meters -> [live : BOOLEAN, bytes : Nat]] /\ bucket' \in Amounts
         /\ row'[d].bytes = Larger(row[d].bytes, x) /\ row'[d].bytes >= row[d].bytes /\ row'[d].live = row[d].live
         /\ bucket'[d] - row'[d].bytes = bucket[d] - row[d].bytes
         /\ \A e \in Meters : e # d => row'[e] = row[e] /\ bucket'[e] = bucket[e]
<1> DEFINE new == Larger(row[d].bytes, x)
<1>1. new \in Nat /\ new >= row[d].bytes /\ row[d].bytes \in Nat /\ bucket[d] \in Nat
      /\ row[d] \in [live : BOOLEAN, bytes : Nat]
  BY DEF Larger, UsageTypeOK, Amounts
<1>2. row' = [row EXCEPT ![d].bytes = new] /\ bucket' = [bucket EXCEPT ![d] = @ + new - row[d].bytes]
  BY DEF Stores, Greatest
<1> HIDE DEF new
<1>3. row'[d] = [row[d] EXCEPT !.bytes = new] /\ bucket'[d] = bucket[d] + new - row[d].bytes
      /\ \A e \in Meters : e # d => row'[e] = row[e] /\ bucket'[e] = bucket[e]
  BY <1>2 DEF UsageTypeOK, Amounts
<1>4. row'[d].bytes = new /\ row'[d].live = row[d].live /\ bucket'[d] \in Nat BY <1>1, <1>3
<1>5. row' \in [Meters -> [live : BOOLEAN, bytes : Nat]] /\ bucket' \in Amounts
  BY <1>1, <1>2 DEF UsageTypeOK, Amounts
<1>6. QED BY <1>1, <1>3, <1>4, <1>5 DEF new

\* The books of a device that a step does not concern still balance; the report may only have
\* lost its entry.
LEMMA SameBooks ==
  ASSUME UsageTypeOK, NEW e \in Meters, Books(e),
         plane' = plane, counter'[e] = counter[e], seen'[e] = seen[e], delta'[e] = delta[e],
         row'[e] = row[e], bucket'[e] = bucket[e], moved'[e] = moved[e],
         OnItsWay(e)' \in {0, OnItsWay(e)},
         report' # None /\ e \in report'.todo =>
             report # None /\ e \in report.todo /\ report'.peers[e] = report.peers[e],
         \A p \in posts' : p.of = e => p \in posts
  PROVE  Books(e)'
<1>1. OnItsWay(e) \in Nat BY DEF OnItsWay, UsageTypeOK, Reports, Amounts
<1>2. /\ counter[e] \in Nat /\ seen[e] \in Nat /\ delta[e] \in Nat /\ bucket[e] \in Nat /\ moved[e] \in Nat
  BY DEF UsageTypeOK, Amounts
<1>3. Increments(e) => Increments(e)' BY <1>1, <1>2 DEF Increments
<1>4. Cumulative(e) => Cumulative(e)' BY DEF Cumulative, MayHear
<1>5. QED BY <1>3, <1>4 DEF Books

\* Every step of the accounting keeps the books, as long as no report is repeated that was
\* counted and no counter of a former session is carried over.
LEMMA UsageStep ==
  ASSUME "report_repeated" \notin Events, "carried" \notin Events, UsageInv, [UsageNext]_usageVars
  PROVE  UsageInv'
<1> USE DEF UsageInv
<1>1. ASSUME Samples PROVE UsageInv'
  <2>1. PICK some \in SUBSET {d \in Meters : plane[d] = "vless"} :
          /\ delta' = [d \in Meters |-> IF d \in some THEN delta[d] + Increase(d) ELSE delta[d]]
          /\ seen' = [d \in Meters |-> IF d \in some THEN counter[d] ELSE seen[d]]
          /\ UNCHANGED <<plane, counter, report, posts, row, bucket, moved>>
    BY <1>1 DEF Samples
  <2>2. \A d \in some : Increase(d) \in Nat /\ Increase(d) = counter[d] - seen[d]
    BY DEF Increase, Books, Increments, UsageTypeOK, Amounts
  <2>3. UsageTypeOK'
    <3>1. delta' \in Amounts BY <2>1, <2>2 DEF UsageTypeOK, Amounts
    <3>2. seen' \in Amounts BY <2>1 DEF UsageTypeOK, Amounts
    <3>3. QED BY <2>1, <3>1, <3>2 DEF UsageTypeOK
  <2>4. ASSUME NEW d \in Meters PROVE Books(d)'
    <3>1. CASE d \in some
      <4>1. delta'[d] = delta[d] + (counter[d] - seen[d]) /\ seen'[d] = counter[d] /\ plane[d] = "vless"
        BY <2>1, <2>2, <3>1
      <4>2. OnItsWay(d)' = OnItsWay(d) BY <2>1 DEF OnItsWay
      <4>3. OnItsWay(d) \in Nat BY DEF OnItsWay, UsageTypeOK, Reports, Amounts
      <4>4. counter[d] \in Nat /\ seen[d] \in Nat /\ delta[d] \in Nat /\ bucket[d] \in Nat /\ moved[d] \in Nat
        BY DEF UsageTypeOK, Amounts
      <4>5. QED BY <2>1, <4>1, <4>2, <4>3, <4>4 DEF Books, Increments
    <3>2. CASE d \notin some
      <4>1. delta'[d] = delta[d] /\ seen'[d] = seen[d] BY <2>1, <3>2
      <4>2. OnItsWay(d)' = OnItsWay(d) /\ \A x : MayHear(d, x)' <=> MayHear(d, x)'
        BY <2>1 DEF OnItsWay
      <4>3. Books(d) OBVIOUS
      <4>4. QED BY <2>1, <4>1, <4>2, <4>3 DEF Books, Increments, Cumulative, MayHear
    <3>3. QED BY <3>1, <3>2
  <2>5. QED BY <2>3, <2>4
<1>2. ASSUME SendsReport PROVE UsageInv'
  <2>1. /\ report = None
        /\ report' = [drained |-> Drained, peers |-> Over("peer"), todo |-> {d \in Meters : row[d].live}, begun |-> FALSE]
        /\ delta' = [d \in Meters |-> delta[d] - Drained[d]]
        /\ UNCHANGED <<plane, counter, seen, posts, row, bucket, moved>>
    BY <1>2 DEF SendsReport
  <2>2. /\ \A d \in Meters : Drained[d] = (IF plane[d] = "vless" THEN delta[d] ELSE 0)
        /\ \A d \in Meters : Over("peer")[d] = (IF plane[d] = "peer" THEN counter[d] ELSE 0)
        /\ Drained \in Amounts /\ Over("peer") \in Amounts
    BY DEF Drained, Over, UsageTypeOK, Amounts
  <2>3. UsageTypeOK'
    <3>1. delta' \in Amounts BY <2>1, <2>2 DEF UsageTypeOK, Amounts
    <3>2. report' \in Reports BY <2>1, <2>2 DEF Reports
    <3>3. QED BY <2>1, <3>1, <3>2 DEF UsageTypeOK
  <2>4. ASSUME NEW d \in Meters PROVE Books(d)'
    <3>t. /\ counter[d] \in Nat /\ seen[d] \in Nat /\ delta[d] \in Nat /\ bucket[d] \in Nat /\ moved[d] \in Nat
          /\ row[d].bytes \in Nat
      BY DEF UsageTypeOK, Amounts
    <3>1. CASE plane[d] = "vless"
      <4>1. OnItsWay(d) = 0 BY <2>1 DEF OnItsWay
      <4>2. delta'[d] = 0 /\ OnItsWay(d)' \in {0, delta[d]} BY <2>1, <2>2, <3>1, <3>t DEF OnItsWay
      <4>3. QED BY <2>1, <3>1, <3>t, <4>1, <4>2 DEF Books, Increments
    <3>2. CASE plane[d] # "vless"
      <4>1. Cumulative(d) BY <3>2 DEF Books
      <4>2. MayHear(d, 0) BY <3>t, <4>1 DEF Cumulative, MayHear, Larger
      <4>3. MayHear(d, Over("peer")[d]) BY <2>2, <4>1, <4>2 DEF Cumulative
      <4>4. QED BY <2>1, <3>2, <4>1, <4>3 DEF Books, Cumulative, MayHear
    <3>3. QED BY <3>1, <3>2
  <2>5. QED BY <2>3, <2>4
<1>3. ASSUME ReportLost PROVE UsageInv'
  <2>1. /\ report # None /\ ~report.begun /\ report' = None
        /\ delta' = [d \in Meters |-> delta[d] + report.drained[d]]
        /\ UNCHANGED <<plane, counter, seen, posts, row, bucket, moved>>
    BY <1>3 DEF ReportLost, RestoreAll, Restored
  <2>2. report \in Reports BY <2>1 DEF UsageTypeOK
  <2>3. UsageTypeOK'
    <3>1. delta' \in Amounts BY <2>1, <2>2 DEF UsageTypeOK, Amounts, Reports
    <3>2. QED BY <2>1, <3>1 DEF UsageTypeOK
  <2>4. ASSUME NEW d \in Meters PROVE Books(d)'
    <3>t. /\ counter[d] \in Nat /\ seen[d] \in Nat /\ delta[d] \in Nat /\ bucket[d] \in Nat /\ moved[d] \in Nat
          /\ report.drained[d] \in Nat
      BY <2>2 DEF UsageTypeOK, Amounts, Reports
    <3>1. OnItsWay(d) = report.drained[d] /\ OnItsWay(d)' = 0 /\ delta'[d] = delta[d] + report.drained[d]
      BY <2>1 DEF OnItsWay
    <3>2. QED BY <2>1, <3>t, <3>1 DEF Books, Increments, Cumulative, MayHear
  <2>5. QED BY <2>3, <2>4
<1>4. ASSUME ReportEnds PROVE UsageInv'
  <2>1. report # None /\ report.todo = {} /\ report' = None /\ UNCHANGED <<plane, counter, seen, delta, posts, row, bucket, moved>>
    BY <1>4 DEF ReportEnds, Happens
  <2>2. UsageTypeOK' BY <2>1 DEF UsageTypeOK
  <2>3. ASSUME NEW d \in Meters PROVE Books(d)'
    <3>t. /\ counter[d] \in Nat /\ seen[d] \in Nat /\ delta[d] \in Nat /\ bucket[d] \in Nat /\ moved[d] \in Nat
      BY DEF UsageTypeOK, Amounts
    <3>1. OnItsWay(d) \in Nat /\ OnItsWay(d)' = 0 BY <2>1 DEF OnItsWay, UsageTypeOK, Reports, Amounts
    <3>2. QED BY <2>1, <3>t, <3>1 DEF Books, Increments, Cumulative, MayHear
  <2>4. QED BY <2>2, <2>3
<1>5. ASSUME ProxyRestarts PROVE UsageInv'
  <2>1. /\ counter' = [d \in Meters |-> IF plane[d] = "proxy" THEN 0 ELSE counter[d]]
        /\ seen' = [d \in Meters |-> IF plane[d] = "proxy" THEN 0 ELSE seen[d]]
        /\ UNCHANGED <<plane, delta, report, posts, row, bucket, moved>>
    BY <1>5 DEF ProxyRestarts
  <2>2. UsageTypeOK'
    <3>1. counter' \in Amounts /\ seen' \in Amounts BY <2>1 DEF UsageTypeOK, Amounts
    <3>2. QED BY <2>1, <3>1 DEF UsageTypeOK
  <2>3. ASSUME NEW d \in Meters PROVE Books(d)'
    <3>t. counter[d] \in Nat /\ bucket[d] \in Nat /\ moved[d] \in Nat /\ row[d].bytes \in Nat
      BY DEF UsageTypeOK, Amounts
    <3>1. CASE plane[d] = "proxy"
      <4>1. Cumulative(d) /\ counter'[d] = 0 BY <2>1, <3>1 DEF Books
      <4>2. MayHear(d, 0) BY <3>t, <4>1 DEF Cumulative, MayHear, Larger
      <4>3. QED BY <2>1, <3>1, <4>1, <4>2 DEF Books, Cumulative, MayHear
    <3>2. CASE plane[d] # "proxy"
      <4>1. counter'[d] = counter[d] /\ seen'[d] = seen[d] BY <2>1, <3>2
      <4>2. OnItsWay(d)' = OnItsWay(d) BY <2>1 DEF OnItsWay
      <4>3. QED BY <2>1, <4>1, <4>2 DEF Books, Increments, Cumulative, MayHear
    <3>3. QED BY <3>1, <3>2
  <2>4. QED BY <2>2, <2>3
<1>6. ASSUME NEW d \in Meters, Moves(d) PROVE UsageInv'
  <2>1. /\ moved' = [moved EXCEPT ![d] = @ + 1] /\ counter' = [counter EXCEPT ![d] = @ + 1]
        /\ UNCHANGED <<plane, seen, delta, report, posts, row, bucket>>
    BY <1>6 DEF Moves
  <2>2. UsageTypeOK'
    <3>1. moved' \in Amounts /\ counter' \in Amounts BY <2>1 DEF UsageTypeOK, Amounts
    <3>2. QED BY <2>1, <3>1 DEF UsageTypeOK
  <2>t. /\ counter[d] \in Nat /\ seen[d] \in Nat /\ delta[d] \in Nat /\ bucket[d] \in Nat /\ moved[d] \in Nat
        /\ row[d].bytes \in Nat /\ counter'[d] = counter[d] + 1 /\ moved'[d] = moved[d] + 1
        /\ OnItsWay(d) \in Nat /\ OnItsWay(d)' = OnItsWay(d)
    BY <2>1 DEF UsageTypeOK, Amounts, OnItsWay, Reports
  <2>3. Increments(d) => Increments(d)' BY <2>1, <2>t DEF Increments
  <2>4. ASSUME NEW y \in Nat, MayHear(d, y) PROVE MayHear(d, y)' /\ MayHear(d, y + 1)'
    BY <2>1, <2>t, <2>4 DEF MayHear, Larger
  <2>5. /\ \A p \in posts : p.value \in Nat /\ p.read \in Nat
        /\ report # None => report.peers[d] \in Nat
    BY DEF UsageTypeOK, Reports, Amounts
  <2>6. Cumulative(d) => Cumulative(d)'
    BY <2>1, <2>t, <2>4, <2>5 DEF Cumulative
  <2>7. Books(d)' BY <2>1, <2>3, <2>6 DEF Books
  <2>8. ASSUME NEW e \in Meters, e # d PROVE Books(e)'
    <3>1. counter'[e] = counter[e] /\ moved'[e] = moved[e] /\ OnItsWay(e)' = OnItsWay(e)
      BY <2>1, <2>8 DEF OnItsWay, UsageTypeOK, Amounts
    <3>2. QED BY <2>1, <3>1, SameBooks
  <2>9. QED BY <2>2, <2>7, <2>8
<1>7. ASSUME NEW d \in Meters, AppliesEntry(d) PROVE UsageInv'
  <2> DEFINE x == IF plane[d] = "vless" THEN row[d].bytes + report.drained[d] ELSE Larger(row[d].bytes, report.peers[d])
  <2>1. /\ report # None /\ d \in report.todo /\ Stores(d, x)
        /\ report' = [drained |-> report.drained, peers |-> report.peers, todo |-> report.todo \ {d}, begun |-> TRUE]
        /\ UNCHANGED <<plane, counter, seen, delta, posts, moved>>
    BY <1>7 DEF AppliesEntry
  <2>2. report \in Reports BY <2>1 DEF UsageTypeOK
  <2>3. report' \in Reports /\ report' # None /\ report'.todo = report.todo \ {d} /\ report'.begun
        /\ report'.drained = report.drained /\ report'.peers = report.peers
    <3>1. report.drained \in Amounts /\ report.peers \in Amounts /\ report.todo \in SUBSET Meters
      BY <2>2 DEF Reports
    <3>2. report' \in Reports BY <2>1, <3>1 DEF Reports
    <3>3. None \notin Reports BY UsageAssumption DEF Reports, Amounts, UsageAssumption
    <3>4. QED BY <2>1, <3>2, <3>3
  <2>t. /\ counter[d] \in Nat /\ seen[d] \in Nat /\ delta[d] \in Nat /\ bucket[d] \in Nat /\ moved[d] \in Nat
        /\ row[d].bytes \in Nat /\ report.drained[d] \in Nat /\ report.peers[d] \in Nat
    BY <2>2 DEF UsageTypeOK, Amounts, Reports
  <2>x. x \in Nat BY <2>t DEF Larger
  <2>4. /\ row' \in [Meters -> [live : BOOLEAN, bytes : Nat]] /\ bucket' \in Amounts
        /\ row'[d].bytes = Larger(row[d].bytes, x) /\ row'[d].bytes >= row[d].bytes
        /\ bucket'[d] - row'[d].bytes = bucket[d] - row[d].bytes
        /\ \A e \in Meters : e # d => row'[e] = row[e] /\ bucket'[e] = bucket[e]
    BY <2>1, <2>x, StoredRow
  <2>5. UsageTypeOK' BY <2>1, <2>3, <2>4 DEF UsageTypeOK
  <2>u. row'[d].bytes \in Nat /\ bucket'[d] \in Nat BY <2>4 DEF Amounts
  <2>6. ASSUME plane[d] = "vless" PROVE Books(d)'
    <3>1. bucket'[d] = bucket[d] + report.drained[d] BY <2>4, <2>6, <2>t, <2>u DEF Larger
    <3>2. OnItsWay(d) = report.drained[d] /\ OnItsWay(d)' = 0 BY <2>1, <2>3 DEF OnItsWay
    <3>3. Increments(d) => Increments(d)' BY <2>1, <2>t, <3>1, <3>2 DEF Increments
    <3>4. QED BY <2>1, <2>6, <3>3 DEF Books
  <2>7. ASSUME plane[d] # "vless" PROVE Books(d)'
    <3>1. Cumulative(d) BY <2>7 DEF Books
    <3>2. MayHear(d, report.peers[d]) BY <2>1, <3>1 DEF Cumulative
    <3>3. row'[d].bytes = Larger(row[d].bytes, report.peers[d]) BY <2>4, <2>7, <2>t DEF Larger
    <3>4. ASSUME NEW y \in Nat, MayHear(d, y) PROVE MayHear(d, y)'
      BY <2>1, <2>4, <2>t, <2>u, <3>2, <3>3, <3>4 DEF MayHear, Larger
    <3>5. \A p \in posts : p.value \in Nat /\ p.read \in Nat BY DEF UsageTypeOK
    <3>6. Cumulative(d)' BY <2>1, <2>3, <2>4, <2>t, <2>u, <3>1, <3>4, <3>5 DEF Cumulative
    <3>7. QED BY <2>1, <2>7, <3>6 DEF Books
  <2>8. ASSUME NEW e \in Meters, e # d PROVE Books(e)'
    <3>1. OnItsWay(e)' \in {0, OnItsWay(e)} BY <2>1, <2>3, <2>8 DEF OnItsWay
    <3>2. QED BY <2>1, <2>3, <2>4, <2>8, <3>1, SameBooks
  <2>9. QED BY <2>5, <2>6, <2>7, <2>8
<1>8. ASSUME NEW d \in Meters, Flushes(d) PROVE UsageInv'
  <2> DEFINE post == [of |-> d, value |-> counter[d], read |-> row[d].bytes]
  <2>1. /\ plane[d] = "proxy" /\ seen' = [seen EXCEPT ![d] = counter[d]] /\ posts' = posts \union {post}
        /\ UNCHANGED <<plane, counter, delta, report, row, bucket, moved>>
    BY <1>8 DEF Flushes
  <2>t. counter[d] \in Nat /\ row[d].bytes \in Nat BY DEF UsageTypeOK, Amounts
  <2>2. UsageTypeOK'
    <3>1. seen' \in Amounts /\ post \in [of : Meters, value : Nat, read : Nat]
      BY <2>1, <2>t DEF UsageTypeOK, Amounts
    <3>2. QED BY <2>1, <3>1 DEF UsageTypeOK
  <2>3. Cumulative(d)' BY <2>1, <2>t DEF Books, Cumulative, MayHear
  <2>4. Books(d)' BY <2>1, <2>3 DEF Books
  <2>5. ASSUME NEW e \in Meters, e # d PROVE Books(e)'
    <3>1. seen'[e] = seen[e] /\ OnItsWay(e)' = OnItsWay(e) BY <2>1, <2>5 DEF OnItsWay, UsageTypeOK, Amounts
    <3>2. \A p \in posts' : p.of = e => p \in posts BY <2>1, <2>5
    <3>3. QED BY <2>1, <3>1, <3>2, SameBooks
  <2>6. QED BY <2>2, <2>4, <2>5
<1>9. ASSUME NEW d \in Meters, Ending(d), UNCHANGED <<plane, delta, report, posts, bucket, moved>> PROVE UsageInv'
  <2>1. /\ row' = [row EXCEPT ![d].live = FALSE]
        /\ counter' = [counter EXCEPT ![d] = IF plane[d] = "vless" THEN 0 ELSE counter[d]]
        /\ seen' = [seen EXCEPT ![d] = IF plane[d] = "vless" THEN 0 ELSE seen[d]]
    BY <1>9 DEF Ending
  <2>t. /\ counter[d] \in Nat /\ seen[d] \in Nat /\ delta[d] \in Nat /\ bucket[d] \in Nat /\ moved[d] \in Nat
        /\ row[d].bytes \in Nat /\ OnItsWay(d) \in Nat /\ OnItsWay(d)' = OnItsWay(d)
    BY <1>9 DEF UsageTypeOK, Amounts, OnItsWay, Reports
  <2>2. UsageTypeOK'
    <3>1. counter' \in Amounts BY <2>1 DEF UsageTypeOK, Amounts
    <3>2. seen' \in Amounts BY <2>1 DEF UsageTypeOK, Amounts
    <3>3. row' \in [Meters -> [live : BOOLEAN, bytes : Nat]] BY <2>1 DEF UsageTypeOK
    <3>4. QED BY <1>9, <3>1, <3>2, <3>3 DEF UsageTypeOK
  <2>3. row'[d].bytes = row[d].bytes BY <2>1 DEF UsageTypeOK
  <2>4. ASSUME plane[d] = "vless" PROVE Books(d)'
    <3>1. counter'[d] = 0 /\ seen'[d] = 0 BY <2>1, <2>4 DEF UsageTypeOK, Amounts
    <3>2. Increments(d) => Increments(d)' BY <1>9, <2>t, <3>1 DEF Increments
    <3>3. QED BY <1>9, <2>4, <3>2 DEF Books
  <2>5. ASSUME plane[d] # "vless" PROVE Books(d)'
    <3>1. counter'[d] = counter[d] BY <2>1, <2>5 DEF UsageTypeOK, Amounts
    <3>2. Cumulative(d) => Cumulative(d)' BY <1>9, <2>3, <3>1 DEF Cumulative, MayHear
    <3>3. QED BY <1>9, <2>5, <3>2 DEF Books
  <2>6. ASSUME NEW e \in Meters, e # d PROVE Books(e)'
    <3>1. counter'[e] = counter[e] /\ seen'[e] = seen[e] /\ row'[e] = row[e] /\ OnItsWay(e)' = OnItsWay(e)
      BY <1>9, <2>1, <2>6 DEF OnItsWay, UsageTypeOK, Amounts
    <3>2. QED BY <1>9, <3>1, SameBooks
  <2>7. QED BY <2>2, <2>4, <2>5, <2>6
<1>10. ASSUME UNCHANGED <<plane, counter, seen, delta, report, posts, row, bucket, moved>> PROVE UsageInv'
  <2>1. UsageTypeOK' BY <1>10 DEF UsageTypeOK
  <2>2. ASSUME NEW e \in Meters PROVE Books(e)'
    <3>1. OnItsWay(e)' = OnItsWay(e) BY <1>10 DEF OnItsWay
    <3>2. QED BY <1>10, <3>1, SameBooks
  <2>3. QED BY <2>1, <2>2
<1>11. ASSUME NEW d \in Meters, Connects(d) PROVE UsageInv'
  <2>1. /\ counter[d] = 0 /\ row' = [row EXCEPT ![d] = [live |-> TRUE, bytes |-> 0]]
        /\ (report # None => d \notin report.todo) /\ \A p \in posts : p.of # d
        /\ UNCHANGED <<plane, counter, seen, delta, report, posts, bucket, moved>>
    <3>1. ~(counter[d] > 0) BY <1>11 DEF Connects, Happens
    <3>2. QED BY <1>11, <3>1 DEF Connects, UsageTypeOK, Amounts
  <2>2. UsageTypeOK'
    <3>1. row' \in [Meters -> [live : BOOLEAN, bytes : Nat]] BY <2>1 DEF UsageTypeOK
    <3>2. QED BY <2>1, <3>1 DEF UsageTypeOK
  <2>t. /\ bucket[d] \in Nat /\ moved[d] \in Nat /\ row[d].bytes \in Nat /\ row'[d].bytes = 0
        /\ OnItsWay(d)' = OnItsWay(d)
    BY <2>1 DEF UsageTypeOK, Amounts, OnItsWay
  <2>3. Increments(d) => Increments(d)' BY <2>1, <2>t DEF Increments
  <2>4. Cumulative(d) => Cumulative(d)' BY <2>1, <2>t DEF Cumulative, MayHear, Larger
  <2>5. Books(d)' BY <2>1, <2>3, <2>4 DEF Books
  <2>6. ASSUME NEW e \in Meters, e # d PROVE Books(e)'
    <3>1. row'[e] = row[e] /\ OnItsWay(e)' = OnItsWay(e) BY <2>1, <2>6 DEF OnItsWay, UsageTypeOK
    <3>2. QED BY <2>1, <3>1, SameBooks
  <2>7. QED BY <2>2, <2>5, <2>6
<1>12. ASSUME NEW d \in Meters, PeerGoes(d) PROVE UsageInv'
  <2>1. /\ plane[d] = "peer" /\ counter' = [counter EXCEPT ![d] = 0]
        /\ UNCHANGED <<plane, seen, delta, report, posts, row, bucket, moved>>
    BY <1>12 DEF PeerGoes
  <2>2. UsageTypeOK'
    <3>1. counter' \in Amounts BY <2>1 DEF UsageTypeOK, Amounts
    <3>2. QED BY <2>1, <3>1 DEF UsageTypeOK
  <2>t. counter[d] \in Nat /\ bucket[d] \in Nat /\ moved[d] \in Nat /\ row[d].bytes \in Nat /\ counter'[d] = 0
    BY <2>1 DEF UsageTypeOK, Amounts
  <2>3. MayHear(d, 0) BY <2>1, <2>t DEF Books, Cumulative, MayHear, Larger
  <2>4. Books(d)' BY <2>1, <2>t, <2>3 DEF Books, Cumulative, MayHear
  <2>5. ASSUME NEW e \in Meters, e # d PROVE Books(e)'
    <3>1. counter'[e] = counter[e] /\ OnItsWay(e)' = OnItsWay(e) BY <2>1, <2>5 DEF OnItsWay, UsageTypeOK, Amounts
    <3>2. QED BY <2>1, <3>1, SameBooks
  <2>6. QED BY <2>2, <2>4, <2>5
<1>13. ASSUME NEW p \in posts, Posted(p) PROVE UsageInv'
  <2> DEFINE d == p.of  x == Larger(p.read, p.value)
  <2>t. d \in Meters /\ p.read \in Nat /\ p.value \in Nat /\ x \in Nat BY DEF UsageTypeOK, Larger
  <2>1. Stores(d, x) /\ posts' = posts \ {p} /\ UNCHANGED <<plane, counter, seen, delta, report, moved>>
    BY <1>13 DEF Posted
  <2>2. plane[d] # "vless" /\ Cumulative(d) BY <2>t DEF Books
  <2>3. MayHear(d, p.value) /\ p.read <= row[d].bytes BY <2>2 DEF Cumulative
  <2>4. /\ row' \in [Meters -> [live : BOOLEAN, bytes : Nat]] /\ bucket' \in Amounts
        /\ row'[d].bytes = Larger(row[d].bytes, x) /\ row'[d].bytes >= row[d].bytes
        /\ bucket'[d] - row'[d].bytes = bucket[d] - row[d].bytes
        /\ \A e \in Meters : e # d => row'[e] = row[e] /\ bucket'[e] = bucket[e]
    BY <2>1, <2>t, StoredRow
  <2>5. UsageTypeOK' BY <2>1, <2>4 DEF UsageTypeOK
  <2>u. /\ row'[d].bytes \in Nat /\ bucket'[d] \in Nat /\ row[d].bytes \in Nat /\ bucket[d] \in Nat
        /\ moved[d] \in Nat /\ counter[d] \in Nat
    BY <2>4, <2>t DEF UsageTypeOK, Amounts
  <2>6. row'[d].bytes = Larger(row[d].bytes, p.value) BY <2>3, <2>4, <2>t, <2>u DEF Larger
  <2>7. ASSUME NEW y \in Nat, MayHear(d, y) PROVE MayHear(d, y)'
    BY <2>1, <2>3, <2>4, <2>t, <2>u, <2>6, <2>7 DEF MayHear, Larger
  <2>8. \A q \in posts : q.value \in Nat /\ q.read \in Nat BY DEF UsageTypeOK
  <2>9. report # None => report.peers[d] \in Nat BY <2>t DEF UsageTypeOK, Reports, Amounts
  <2>10. Cumulative(d)' BY <2>1, <2>2, <2>4, <2>u, <2>7, <2>8, <2>9 DEF Cumulative
  <2>11. Books(d)' BY <2>1, <2>2, <2>10 DEF Books
  <2>12. ASSUME NEW e \in Meters, e # d PROVE Books(e)'
    <3>1. OnItsWay(e)' = OnItsWay(e) BY <2>1 DEF OnItsWay
    <3>2. QED BY <2>1, <2>4, <2>12, <3>1, SameBooks
  <2>13. QED BY <2>5, <2>t, <2>11, <2>12
<1>14. Sweeps \/ NewPeriod => UsageInv' BY <1>10 DEF Sweeps, NewPeriod
<1>15. ASSUME NEW d \in Meters, Disconnects(d) \/ Cuts(d) PROVE UsageInv'
  BY <1>9, <1>10, <1>15 DEF Disconnects, Cuts
<1>16. UNCHANGED usageVars => UsageInv' BY <1>10 DEF usageVars
<1>17. QED
  BY <1>1, <1>2, <1>3, <1>4, <1>5, <1>6, <1>7, <1>8, <1>11, <1>12, <1>13, <1>14, <1>15, <1>16 DEF UsageNext

\* A session's row that lives before and after a step has not lost a byte.
LEMMA RowsOnlyGrow ==
  ASSUME UsageInv, [UsageNext]_usageVars, NEW d \in Meters, row[d].live, row'[d].live
  PROVE  row'[d].bytes >= row[d].bytes
<1>1. UsageTypeOK /\ row[d].bytes \in Nat BY DEF UsageInv, UsageTypeOK
<1>2. row' = row => row'[d].bytes >= row[d].bytes BY <1>1
<1>3. ASSUME NEW e \in Meters, NEW x \in Nat, Stores(e, x) PROVE row'[d].bytes >= row[d].bytes
  BY <1>1, <1>3, StoredRow
<1>4. ASSUME NEW e \in Meters, Ending(e) PROVE row'[d].bytes >= row[d].bytes
  BY <1>1, <1>4 DEF Ending, UsageTypeOK
<1>5. ASSUME NEW e \in Meters, Connects(e) PROVE row'[d].bytes >= row[d].bytes
  BY <1>1, <1>5 DEF Connects, UsageTypeOK
<1>6. ASSUME NEW e \in Meters, AppliesEntry(e) PROVE row'[d].bytes >= row[d].bytes
  <2>1. row[e].bytes \in Nat /\ report.drained[e] \in Nat /\ report.peers[e] \in Nat
    BY <1>1, <1>6 DEF AppliesEntry, UsageTypeOK, Reports, Amounts
  <2>2. QED BY <1>3, <1>6, <2>1 DEF AppliesEntry, Larger
<1>7. ASSUME NEW p \in posts, Posted(p) PROVE row'[d].bytes >= row[d].bytes
  <2>1. p.of \in Meters /\ p.read \in Nat /\ p.value \in Nat BY <1>1 DEF UsageTypeOK
  <2>2. QED BY <1>3, <1>7, <2>1 DEF Posted, Larger
<1>8. QED
  BY <1>2, <1>4, <1>5, <1>6, <1>7
     DEF UsageNext, usageVars, Samples, SendsReport, ReportLost, ReportEnds, ProxyRestarts, Sweeps, NewPeriod,
         Moves, Flushes, Disconnects, Cuts, PeerGoes

\* Accounting: nothing that went through is charged twice, and nothing charged is taken back,
\* as long as no report is repeated that the server has already counted and no counter of a
\* former session is carried into a new one.
THEOREM UsageKept ==
  "report_repeated" \notin Events /\ "carried" \notin Events => (MCSpec => UsageHolds)
<1>0. SUFFICES ASSUME "report_repeated" \notin Events, "carried" \notin Events
               PROVE  MCSpec => UsageHolds
  OBVIOUS
<1>1. UsageInv => ChargedOnce
  <2> SUFFICES ASSUME UsageInv, NEW d \in Meters PROVE bucket[d] <= moved[d] BY DEF ChargedOnce
  <2>1. /\ counter[d] \in Nat /\ seen[d] \in Nat /\ delta[d] \in Nat /\ bucket[d] \in Nat /\ moved[d] \in Nat
        /\ row[d].bytes \in Nat /\ OnItsWay(d) \in Nat /\ Books(d)
    BY DEF UsageInv, UsageTypeOK, Amounts, OnItsWay, Reports
  <2>2. Increments(d) => bucket[d] <= moved[d] BY <2>1 DEF Increments
  <2>3. Cumulative(d) => bucket[d] <= moved[d] BY <2>1 DEF Cumulative, MayHear, Larger
  <2>4. QED BY <2>1, <2>2, <2>3 DEF Books
<1>2. MCInit => UsageInv BY UsageInitial DEF MCInit
<1>3. UsageInv /\ [MCNext]_nodeVars => UsageInv' BY <1>0, UsageSteps, UsageStep
<1>4. UsageInv /\ [MCNext]_nodeVars
      => [\A d \in Meters : row[d].live /\ row'[d].live => row'[d].bytes >= row[d].bytes]_usageVars
  BY UsageSteps, RowsOnlyGrow
<1>5. QED BY <1>1, <1>2, <1>3, <1>4, PTL DEF MCSpec, UsageHolds, NeverBackwards

-----------------------------------------------------------------------------
\* A step of the whole is a step of the gateway policy, or leaves it alone.
LEMMA PolicySteps == ASSUME [MCNext]_nodeVars PROVE [PolicyNext]_policyVars
<1>1. CASE MCNext BY <1>1 DEF MCNext, Only
<1>2. CASE UNCHANGED nodeVars BY <1>2 DEF nodeVars, partVars
<1>3. QED BY <1>1, <1>2

\* The variables of the policy have their types.
PolicyTypeOK ==
    /\ allowed \subseteq Peers /\ closedDown \in BOOLEAN /\ rule \in {None, "accepted", "refused"}
    /\ config \in Documents
    /\ onDisk \in [version : Documents, cutoff : [users : SUBSET Peers, closed : BOOLEAN]]
    /\ agent # None => agent \in Agents
    /\ linked \in [Peers -> BOOLEAN]

\* The agent is in the middle of writing its files.
Applying == agent # None /\ agent.pc \in {"written", "versioned"}

\* Except while it writes them, the three files and the memory of the agent are of one document.
FilesAgree ==
    /\ ~Applying => onDisk = [version |-> config, cutoff |-> CutoffOf(config)]
    /\ agent # None /\ ~Applying => agent.applied = config /\ agent.cutoff = CutoffOf(config)
    /\ agent # None /\ agent.pc = "fetched" => agent.doc \in Documents
    /\ agent # None /\ agent.pc = "written" => agent.doc = config
    /\ agent # None /\ agent.pc = "versioned" =>
         agent.doc = config /\ agent.applied = config /\ onDisk.version = config

\* The inductive invariant of the policy.
PolicyInv == PolicyTypeOK /\ FilesAgree

\* A fresh agent has applied what its files say.
LEMMA PolicyInitial == PolicyInit => PolicyInv
<1> SUFFICES ASSUME PolicyInit PROVE PolicyInv OBVIOUS
<1>1. Document \in Documents BY DEF PolicyInit, Document, Documents
<1>2. CutoffOf(Document) \in [users : SUBSET Peers, closed : BOOLEAN] BY <1>1 DEF CutoffOf, Documents
<1>3. agent \in Agents /\ agent.pc = "idle" /\ agent.applied = config /\ agent.cutoff = CutoffOf(config)
  BY <1>1, <1>2 DEF PolicyInit, Started, Agents
<1>4. QED BY <1>1, <1>2, <1>3 DEF PolicyInit, PolicyInv, PolicyTypeOK, FilesAgree, Applying

\* Every step of the policy keeps the files of one document, as long as the agent does not die
\* between two of them.
LEMMA PolicyStep ==
  ASSUME "crash_between_files" \notin Events, PolicyInv, [PolicyNext]_policyVars
  PROVE  PolicyInv'
<1> USE DEF PolicyInv
<1>n. None \notin Agents BY PolicyAssumption DEF PolicyAssumption
<1>d. Document \in Documents BY DEF Document, Documents, PolicyTypeOK
<1>c. \A doc \in Documents : CutoffOf(doc) \in [users : SUBSET Peers, closed : BOOLEAN]
  BY DEF CutoffOf, Documents
<1>1. ASSUME UNCHANGED <<config, onDisk, agent, linked>>, allowed' \subseteq Peers, closedDown' \in BOOLEAN,
             rule' \in {None, "accepted", "refused"}
      PROVE  PolicyInv'
  BY <1>1 DEF PolicyTypeOK, FilesAgree, Applying
<1>2. ASSUME NEW d \in Peers, Admits(d) PROVE PolicyInv'
  BY <1>1, <1>2 DEF Admits, PolicyTypeOK
<1>3. ASSUME SwitchesMaintenance \/ EditsRule \/ Requeues PROVE PolicyInv'
  BY <1>1, <1>3 DEF SwitchesMaintenance, EditsRule, Requeues, PolicyTypeOK
<1>4. ASSUME Beats PROVE PolicyInv'
  <2>1. agent \in Agents /\ agent.pc = "idle" /\ UNCHANGED <<allowed, closedDown, rule, config, onDisk, linked>>
    BY <1>4 DEF Beats, PolicyTypeOK
  <2>2. agent' = agent \/ agent' = [agent EXCEPT !.pc = "polled", !.told = Document, !.commanded = command = "PENDING"]
    BY <1>4 DEF Beats
  <2>3. agent' \in Agents /\ agent'.pc \in {"idle", "polled"} /\ agent'.applied = agent.applied
        /\ agent'.cutoff = agent.cutoff
    BY <2>1, <2>2, <1>d, ZenonT(30) DEF Agents
  <2>4. QED BY <1>4, <2>1, <2>3 DEF Beats, PolicyTypeOK, FilesAgree, Applying
<1>5. ASSUME Fetches PROVE PolicyInv'
  <2>1. /\ agent # None /\ agent \in Agents /\ agent.pc = "polled"
        /\ UNCHANGED <<allowed, closedDown, rule, config, onDisk, linked>>
    BY <1>5 DEF Fetches, PolicyTypeOK
  <2> DEFINE Fetched ==
        /\ agent' \in Agents /\ agent'.applied = agent.applied /\ agent'.cutoff = agent.cutoff
        /\ \/ agent'.pc \in {"idle", "acking"}
           \/ agent'.pc = "fetched" /\ agent'.doc = Document
  <2>2. Fetched
    <3>1. After \in {"idle", "acking"} /\ Heard \in Documents \union {None} /\ agent.told \in Documents \union {None}
      BY <2>1 DEF After, Heard, Agents
    <3>2. \/ agent' = [agent EXCEPT !.pc = "fetched", !.doc = Document, !.desired = Heard]
          \/ agent' = [agent EXCEPT !.pc = After, !.desired = Heard]
          \/ agent' = [agent EXCEPT !.pc = "idle", !.desired = agent.told]
      BY <1>5 DEF Fetches
    <3>3. ASSUME agent' = [agent EXCEPT !.pc = "fetched", !.doc = Document, !.desired = Heard] PROVE Fetched
      BY <2>1, <3>1, <3>3, <1>d DEF Agents
    <3>4. ASSUME NEW pc \in {"idle", "acking"}, NEW x \in Documents \union {None},
                 agent' = [agent EXCEPT !.pc = pc, !.desired = x]
          PROVE  Fetched
      BY <2>1, <3>4 DEF Agents
    <3> HIDE DEF Fetched
    <3>5. CASE agent' = [agent EXCEPT !.pc = After, !.desired = Heard] BY <3>1, <3>4, <3>5
    <3>6. CASE agent' = [agent EXCEPT !.pc = "idle", !.desired = agent.told] BY <3>1, <3>4, <3>6
    <3>7. QED BY <3>2, <3>3, <3>5, <3>6
  <2>3. QED BY <2>1, <2>2, <1>d DEF PolicyTypeOK, FilesAgree, Applying
<1>6. ASSUME Writes PROVE PolicyInv'
  <2>1. /\ agent # None /\ agent \in Agents /\ agent.pc = "fetched" /\ agent.doc \in Documents
        /\ UNCHANGED <<allowed, closedDown, rule, onDisk, linked>>
    BY <1>6 DEF Writes, PolicyTypeOK, FilesAgree
  <2>2. \/ agent.doc = agent.applied /\ agent' = [agent EXCEPT !.pc = "versioned"] /\ config' = config
        \/ agent' = [agent EXCEPT !.pc = After] /\ config' = config
        \/ agent' = [agent EXCEPT !.pc = "written"] /\ config' = agent.doc
    BY <1>6 DEF Writes
  <2>3. After \in {"idle", "acking"} BY DEF After
  <2>4. /\ agent' \in Agents /\ agent'.applied = agent.applied /\ agent'.cutoff = agent.cutoff
        /\ agent'.doc = agent.doc
        /\ \/ agent.doc = agent.applied /\ agent'.pc = "versioned" /\ config' = config
           \/ agent'.pc \in {"idle", "acking"} /\ config' = config
           \/ agent'.pc = "written" /\ config' = agent.doc
    BY <2>1, <2>2, <2>3 DEF Agents
  <2>5. PolicyTypeOK' /\ agent' # None BY <2>1, <2>4, <1>n DEF PolicyTypeOK
  <2>6. /\ agent.applied = config /\ agent.cutoff = CutoffOf(config)
        /\ onDisk = [version |-> config, cutoff |-> CutoffOf(config)]
    BY <2>1 DEF FilesAgree, Applying
  <2>7. CASE config' = config BY <2>1, <2>4, <2>5, <2>6, <2>7 DEF FilesAgree, Applying
  <2>8. CASE agent'.pc = "written" /\ config' = agent.doc BY <2>1, <2>4, <2>5, <2>8 DEF FilesAgree, Applying
  <2>9. FilesAgree' BY <2>4, <2>7, <2>8
  <2>10. QED BY <2>5, <2>9
<1>7. ASSUME RecordsVersion PROVE PolicyInv'
  <2>1. /\ agent # None /\ agent \in Agents /\ agent.pc = "written" /\ agent.doc = config
        /\ agent' = [agent EXCEPT !.pc = "versioned", !.applied = agent.doc]
        /\ onDisk' = [onDisk EXCEPT !.version = agent.doc]
        /\ UNCHANGED <<allowed, closedDown, rule, config, linked>>
    BY <1>7 DEF RecordsVersion, PolicyTypeOK, FilesAgree
  <2>2. agent' \in Agents /\ agent'.pc = "versioned" /\ agent'.applied = config /\ agent'.doc = config
    BY <2>1 DEF Agents, PolicyTypeOK
  <2>3. onDisk' \in [version : Documents, cutoff : [users : SUBSET Peers, closed : BOOLEAN]] /\ onDisk'.version = config
    BY <2>1 DEF PolicyTypeOK
  <2>4. PolicyTypeOK' BY <2>1, <2>2, <2>3 DEF PolicyTypeOK
  <2>5. Applying' BY <2>2, <1>n DEF Applying
  <2>6. QED BY <2>1, <2>2, <2>3, <2>4, <2>5 DEF FilesAgree
<1>8. ASSUME SetsCutoff PROVE PolicyInv'
  <2>1. /\ agent # None /\ agent \in Agents /\ agent.pc = "versioned" /\ agent.doc = config /\ agent.applied = config
        /\ onDisk.version = config
        /\ agent' = [agent EXCEPT !.pc = After, !.cutoff = CutoffOf(agent.doc)]
        /\ onDisk' = [onDisk EXCEPT !.cutoff = CutoffOf(agent.doc)]
        /\ UNCHANGED <<allowed, closedDown, rule, config>>
    BY <1>8 DEF SetsCutoff, WithCutoff, PolicyTypeOK, FilesAgree
  <2>2. After \in {"idle", "acking"} BY DEF After
  <2>3. CutoffOf(config) \in [users : SUBSET Peers, closed : BOOLEAN] BY <1>c DEF PolicyTypeOK
  <2>4. /\ agent' \in Agents /\ agent'.pc \in {"idle", "acking"} /\ agent'.applied = config
        /\ agent'.cutoff = CutoffOf(config)
    BY <2>1, <2>2, <2>3 DEF Agents
  <2>5. onDisk' = [version |-> config, cutoff |-> CutoffOf(config)]
    BY <2>1 DEF PolicyTypeOK
  <2>6. linked' \in [Peers -> BOOLEAN] BY <1>8 DEF SetsCutoff, Enforced, PolicyTypeOK
  <2>7. QED BY <2>1, <2>3, <2>4, <2>5, <2>6 DEF PolicyTypeOK, FilesAgree, Applying
<1>9. ASSUME Acks PROVE PolicyInv'
  <2>1. /\ agent # None /\ agent \in Agents /\ agent.pc = "acking"
        /\ agent' = [agent EXCEPT !.pc = "polled", !.commanded = FALSE]
        /\ UNCHANGED <<allowed, closedDown, rule, config, onDisk, linked>>
    BY <1>9 DEF Acks, PolicyTypeOK
  <2>2. agent' \in Agents /\ agent'.pc = "polled" /\ agent'.applied = agent.applied /\ agent'.cutoff = agent.cutoff
    BY <2>1 DEF Agents
  <2>3. QED BY <2>1, <2>2 DEF PolicyTypeOK, FilesAgree, Applying
<1>10. ASSUME SamplesGateway PROVE PolicyInv'
  <2>1. linked' \in [Peers -> BOOLEAN] BY <1>10 DEF SamplesGateway, Enforced, PolicyTypeOK
  <2>2. QED BY <1>10, <2>1 DEF SamplesGateway, PolicyTypeOK, FilesAgree, Applying
<1>11. ASSUME AgentStops PROVE PolicyInv'
  <2>1. ~Applying /\ agent' = None /\ UNCHANGED <<allowed, closedDown, rule, config, onDisk, linked>>
    BY <1>11 DEF AgentStops, Happens, Applying
  <2>2. QED BY <2>1 DEF PolicyTypeOK, FilesAgree, Applying
<1>12. ASSUME AgentStarts PROVE PolicyInv'
  <2>1. /\ agent = None /\ agent' = Started(onDisk)
        /\ onDisk = [version |-> config, cutoff |-> CutoffOf(config)]
        /\ UNCHANGED <<allowed, closedDown, rule, config, onDisk, linked>>
    BY <1>12 DEF AgentStarts, FilesAgree, Applying
  <2>2. agent' \in Agents /\ agent'.pc = "idle" /\ agent'.applied = config /\ agent'.cutoff = CutoffOf(config)
    BY <2>1, <1>c DEF Started, Agents, PolicyTypeOK
  <2>3. QED BY <2>1, <2>2 DEF PolicyTypeOK, FilesAgree, Applying
<1>13. ASSUME NEW d \in Peers, Links(d) \/ Unlinks(d) PROVE PolicyInv'
  <2>1. linked' \in [Peers -> BOOLEAN] BY <1>13 DEF Links, Unlinks, PolicyTypeOK
  <2>2. QED BY <1>13, <2>1 DEF Links, Unlinks, PolicyTypeOK, FilesAgree, Applying
<1>14. CASE UNCHANGED policyVars BY <1>1, <1>14 DEF policyVars, PolicyTypeOK
<1>15. QED
  BY <1>2, <1>3, <1>4, <1>5, <1>6, <1>7, <1>8, <1>9, <1>10, <1>11, <1>12, <1>13, <1>14 DEF PolicyNext

\* The agent enforces the list of the configuration that runs, and cuts nobody else, as long
\* as it is not killed between the writes of the configuration and of the files beside it.
\* Gateway policy: the agent's cutoff list is the one of the document it believes to have
\* applied, and a sample cuts only subscribers that document leaves out
\* (SingboxManager.setCutoff, enforceCutoff), as long as the agent does not die between two of
\* its files.
THEOREM PolicyKept == "crash_between_files" \notin Events => (MCSpec => PolicyHolds)
<1>0. SUFFICES ASSUME "crash_between_files" \notin Events PROVE MCSpec => PolicyHolds OBVIOUS
<1>1. PolicyInv => CutoffFits BY DEF PolicyInv, FilesAgree, Applying, CutoffFits
<1>2. MCInit => PolicyInv BY PolicyInitial DEF MCInit
<1>3. PolicyInv /\ [MCNext]_nodeVars => PolicyInv' BY <1>0, PolicySteps, PolicyStep
<1>4. PolicyInv /\ [MCNext]_nodeVars
      => [\A d \in Peers : SamplesGateway /\ linked[d] /\ ~linked'[d] => d \notin config.users]_policyVars
  <2> SUFFICES ASSUME PolicyInv, NEW d \in Peers, SamplesGateway, linked[d], ~linked'[d]
               PROVE  d \notin config.users
    BY DEF PolicyInv
  <2>1. agent.cutoff = CutoffOf(config) /\ config \in Documents /\ d \in Barred(agent)
    BY DEF SamplesGateway, Enforced, PolicyInv, PolicyTypeOK, FilesAgree, Applying
  <2>2. QED BY <2>1 DEF Barred, CutoffOf, Documents
<1>5. QED BY <1>1, <1>2, <1>3, <1>4, PTL DEF MCSpec, PolicyHolds, CutsOnlyBarred

-----------------------------------------------------------------------------
\* A step of the whole is a step of the deployment queue, or leaves it alone.
LEMMA DeploySteps == ASSUME [MCNext]_nodeVars PROVE [DeployNext]_deployVars
<1>1. CASE MCNext BY <1>1 DEF MCNext, Only
<1>2. CASE UNCHANGED nodeVars BY <1>2 DEF nodeVars, partVars
<1>3. QED BY <1>1, <1>2

\* What the status of a deployment job may be.
JobStatuses == {"QUEUED", "RUNNING", "SUCCEEDED", "FAILED"}
\* What an administrator may ask for.
Deeds == {"DEPLOY_BETA", "PROMOTE", "ROLLBACK", "START", "STOP"}
\* The rows of the table of jobs.
JobRows == [deed : Deeds, saw : Int \union {None}, status : JobStatuses]
\* An administrator's request on its way through the route: what it asks, what beta answered and
\* how many jobs had ended when it did.
Requests == [deed : Deeds \union {None}, saw : Int \union {None}, ended : Nat, stage : {"idle", "pressed", "checked"}]

\* The variables of the deployment have their types.
DeployTypeOK ==
    /\ jobs \in Seq(JobRows)
    /\ click \in [Panels -> Requests] /\ \A p \in Panels : click[p].stage # "idle" => click[p].deed \in Deeds
    /\ worker \in [state : {"down", "idle", "runs", "switched", "ran"}, job : Nat, ok : BOOLEAN]
    /\ beta \in [on : BOOLEAN, runs : Int, before : Int]
    /\ prod \in [runs : Int, before : Int]
    /\ sound \subseteq Int

\* The queue has one job, and the worker runs what is marked as running.
OneJob ==
    /\ \A i, j \in Active : i = j
    /\ worker.state \in {"runs", "switched", "ran"} =>
         worker.job \in DOMAIN jobs /\ jobs[worker.job].status = "RUNNING"
    /\ worker.state = "idle" => \A j \in DOMAIN jobs : jobs[j].status # "RUNNING"

\* A promotion in the queue is one of what beta runs, and so is the request for one that may
\* still enter the queue: no job has ended since it probed beta, and none is active.
SawBeta ==
    /\ \A j \in Active : jobs[j].deed = "PROMOTE" => jobs[j].saw = beta.runs
    /\ \A p \in Panels : click[p].stage # "idle" =>
         /\ click[p].ended <= Ended
         /\ click[p].deed = "PROMOTE" /\ click[p].ended = Ended /\ Active = {} => click[p].saw = beta.runs

\* What production runs, and what it would roll back to, has answered on beta.
Vouched == prod.runs \in sound /\ prod.before \in sound

\* The inductive invariant of the deployment.
DeployInv == DeployTypeOK /\ OneJob /\ SawBeta /\ Vouched /\ PromotesWhatItSaw

\* Nothing is asked, and production runs what it vouches for.
LEMMA DeployInitial == DeployInit => DeployInv
<1> SUFFICES ASSUME DeployInit PROVE DeployInv OBVIOUS
<1>1. jobs = <<>> /\ Active = {} BY DEF DeployInit, Active
<1>2. DeployTypeOK
  <2>1. worker = [state |-> "down", job |-> 0, ok |-> FALSE] BY DEF DeployInit, Resting
  <2>2. click \in [Panels -> Requests] /\ \A p \in Panels : click[p].stage = "idle"
    BY DEF DeployInit, NoClick, Requests
  <2>3. jobs \in Seq(JobRows) BY <1>1
  <2>4. /\ beta \in [on : BOOLEAN, runs : Int, before : Int] /\ prod \in [runs : Int, before : Int]
        /\ sound \subseteq Int
    BY DEF DeployInit
  <2>5. QED BY <2>1, <2>2, <2>3, <2>4 DEF DeployTypeOK
<1>3. QED
  BY <1>1, <1>2 DEF DeployInit, DeployInv, OneJob, SawBeta, Vouched, PromotesWhatItSaw, NoClick, Resting

\* The jobs that have ended can be counted.
LEMMA EndedCounts == ASSUME jobs \in Seq(JobRows) PROVE Ended \in Nat
<1>1. DOMAIN jobs = 1 .. Len(jobs) /\ Len(jobs) \in Nat OBVIOUS
<1>2. IsFiniteSet(DOMAIN jobs) BY <1>1, FS_Interval
<1>3. IsFiniteSet(DOMAIN jobs \ Active) BY <1>2, FS_Difference
<1>4. QED BY <1>3, FS_CardinalityType DEF Ended

\* A job that has ended stays so, and the queue becomes empty only by the end of one.
LEMMA EndedGrows ==
  ASSUME jobs \in Seq(JobRows), jobs' \in Seq(JobRows), DOMAIN jobs \subseteq DOMAIN jobs',
         \A j \in DOMAIN jobs : j \notin Active => j \notin Active'
  PROVE  /\ Ended \in Nat /\ Ended' \in Nat /\ Ended <= Ended'
         /\ Active # {} /\ Active' = {} => Ended < Ended'
<1> DEFINE Over1 == DOMAIN jobs \ Active
           Over2 == DOMAIN jobs' \ Active'
<1>1. IsFiniteSet(DOMAIN jobs) /\ IsFiniteSet(DOMAIN jobs')
  <2>1. DOMAIN jobs = 1 .. Len(jobs) /\ Len(jobs) \in Nat /\ DOMAIN jobs' = 1 .. Len(jobs') /\ Len(jobs') \in Nat
    OBVIOUS
  <2>2. QED BY <2>1, FS_Interval
<1>2. IsFiniteSet(Over1) /\ IsFiniteSet(Over2) BY <1>1, FS_Difference
<1>3. Over1 \subseteq Over2 OBVIOUS
<1>4. Cardinality(Over1) \in Nat /\ Cardinality(Over2) \in Nat /\ Cardinality(Over1) <= Cardinality(Over2)
  <2> HIDE DEF Over1, Over2
  <2>1. Over1 \in SUBSET Over2 BY <1>3
  <2>2. QED BY <1>2, <2>1, FS_CardinalityType, FS_Subset
<1>5. ASSUME Active # {}, Active' = {} PROVE Over1 # Over2 BY <1>5 DEF Active
<1>6. Over1 # Over2 => Cardinality(Over1) < Cardinality(Over2)
  <2> HIDE DEF Over1, Over2
  <2>1. Over1 \in SUBSET Over2 BY <1>3
  <2>2. Cardinality(Over2) = Cardinality(Over1) => Over2 = Over1 BY <1>2, <2>1, FS_Subset
  <2>3. QED BY <1>4, <2>2
<1>7. Ended = Cardinality(Over1) /\ Ended' = Cardinality(Over2) BY DEF Ended
<1>8. QED BY <1>4, <1>5, <1>6, <1>7

-----------------------------------------------------------------------------
\* A step that leaves the statuses of the jobs and beta as they are.
LEMMA SameQueue ==
  ASSUME DeployInv, jobs' = jobs,
         \/ beta'.runs = beta.runs
         \/ Active # {} /\ \A j \in Active : jobs[j].deed # "PROMOTE",
         \A p \in Panels : \/ click'[p] = click[p] \/ click'[p].stage = "idle"
            \/ (click[p].stage # "idle" /\ click'[p] = [click[p] EXCEPT !.stage = "checked"])
  PROVE  SawBeta'
<1>1. Active' = Active /\ Ended' = Ended BY DEF Active, Ended
<1>2. \A p \in Panels : click[p] \in Requests BY DEF DeployInv, DeployTypeOK
<1>3. ASSUME NEW p \in Panels, click'[p].stage # "idle"
      PROVE  click[p].stage # "idle" /\ click'[p].ended = click[p].ended /\ click'[p].deed = click[p].deed
             /\ click'[p].saw = click[p].saw
  BY <1>2, <1>3 DEF Requests
<1>4. ASSUME Active = {} PROVE beta'.runs = beta.runs BY <1>4
<1>5. ASSUME NEW j \in Active', jobs'[j].deed = "PROMOTE" PROVE jobs'[j].saw = beta'.runs
  BY <1>1, <1>5 DEF DeployInv, SawBeta
<1>6. QED BY <1>1, <1>3, <1>4, <1>5 DEF DeployInv, SawBeta

\* What happens to the rows of jobs when one gets another status.
LEMMA Restated ==
  ASSUME DeployTypeOK, NEW f \in [DOMAIN jobs -> JobStatuses],
         jobs' = [j \in DOMAIN jobs |-> [jobs[j] EXCEPT !.status = f[j]]]
  PROVE  /\ jobs' \in Seq(JobRows) /\ DOMAIN jobs' = DOMAIN jobs
         /\ \A j \in DOMAIN jobs : jobs'[j].deed = jobs[j].deed /\ jobs'[j].saw = jobs[j].saw /\ jobs'[j].status = f[j]
         /\ Active' = {j \in DOMAIN jobs : f[j] \in {"QUEUED", "RUNNING"}}
<1>1. jobs \in [1 .. Len(jobs) -> JobRows] /\ DOMAIN jobs = 1 .. Len(jobs) /\ Len(jobs) \in Nat
  BY DEF DeployTypeOK
<1>2. \A j \in DOMAIN jobs : [jobs[j] EXCEPT !.status = f[j]] \in JobRows
  BY <1>1 DEF JobRows
<1>3. jobs' \in [1 .. Len(jobs) -> JobRows] BY <1>1, <1>2
<1>4. jobs' \in Seq(JobRows) BY <1>1, <1>3
<1>5. \A j \in DOMAIN jobs : jobs'[j].deed = jobs[j].deed /\ jobs'[j].saw = jobs[j].saw /\ jobs'[j].status = f[j]
  BY <1>1 DEF JobRows
<1>6. DOMAIN jobs' = DOMAIN jobs BY <1>1, <1>3
<1>7. QED BY <1>4, <1>5, <1>6 DEF Active

-----------------------------------------------------------------------------
\* A step that only ends jobs.
LEMMA FewerActive ==
  ASSUME DeployInv, jobs' \in Seq(JobRows), DOMAIN jobs' = DOMAIN jobs, UNCHANGED <<click, beta>>,
         Active' \subseteq Active,
         \A j \in DOMAIN jobs : jobs'[j].deed = jobs[j].deed /\ jobs'[j].saw = jobs[j].saw
  PROVE  SawBeta'
<1>1. jobs \in Seq(JobRows) /\ \A p \in Panels : click[p].ended \in Nat
  BY DEF DeployInv, DeployTypeOK, Requests
<1>2. Ended \in Nat /\ Ended' \in Nat /\ Ended <= Ended' /\ (Active # {} /\ Active' = {} => Ended < Ended')
  BY <1>1, EndedGrows
<1>3. \A j \in Active' : j \in Active /\ j \in DOMAIN jobs BY DEF Active
<1>4. \A j \in Active' : jobs'[j].deed = "PROMOTE" => jobs'[j].saw = beta'.runs
  BY <1>3 DEF DeployInv, SawBeta
<1>5. ASSUME NEW p \in Panels, click'[p].stage # "idle"
      PROVE  /\ click'[p].ended <= Ended'
             /\ click'[p].deed = "PROMOTE" /\ click'[p].ended = Ended' /\ Active' = {} => click'[p].saw = beta'.runs
  <2>1. click[p].ended <= Ended /\ click[p].ended \in Nat BY <1>1, <1>5 DEF DeployInv, SawBeta
  <2>2. click[p].ended = Ended' /\ Active' = {} => click[p].ended = Ended /\ Active = {} BY <1>2, <2>1
  <2>3. QED BY <1>2, <1>5, <2>1, <2>2 DEF DeployInv, SawBeta
<1>6. QED BY <1>4, <1>5 DEF SawBeta

\* A job gets the status k at j, the others keep theirs.
LEMMA RestatedAt ==
  ASSUME DeployTypeOK, NEW j \in DOMAIN jobs, NEW k \in JobStatuses, jobs' = [jobs EXCEPT ![j].status = k]
  PROVE  /\ jobs' \in Seq(JobRows) /\ DOMAIN jobs' = DOMAIN jobs
         /\ \A i \in DOMAIN jobs : jobs'[i].deed = jobs[i].deed /\ jobs'[i].saw = jobs[i].saw
                                     /\ jobs'[i].status = IF i = j THEN k ELSE jobs[i].status
         /\ Active' = {i \in DOMAIN jobs : (IF i = j THEN k ELSE jobs[i].status) \in {"QUEUED", "RUNNING"}}
<1> DEFINE f == [i \in DOMAIN jobs |-> IF i = j THEN k ELSE jobs[i].status]
<1>1. jobs \in [1 .. Len(jobs) -> JobRows] /\ DOMAIN jobs = 1 .. Len(jobs) /\ Len(jobs) \in Nat
  BY DEF DeployTypeOK
<1>2. f \in [DOMAIN jobs -> JobStatuses] BY <1>1 DEF JobRows
<1>3. jobs' = [i \in DOMAIN jobs |-> [jobs[i] EXCEPT !.status = f[i]]]
  <2>1. jobs' = [i \in DOMAIN jobs |-> IF i = j THEN [jobs[j] EXCEPT !.status = k] ELSE jobs[i]] OBVIOUS
  <2>2. \A i \in DOMAIN jobs : jobs[i] = [jobs[i] EXCEPT !.status = jobs[i].status] BY <1>1 DEF JobRows
  <2>3. QED BY <2>1, <2>2
<1>4. \A i \in DOMAIN jobs : f[i] = IF i = j THEN k ELSE jobs[i].status OBVIOUS
<1> HIDE DEF f
<1>5. QED BY <1>2, <1>3, <1>4, Restated

\* Every step of the deployment keeps the invariant, as long as no job comes and goes while a
\* request is on its way and the database answers.
LEMMA DeployStep ==
  ASSUME "overlap" \notin Events, "db_error" \notin Events, DeployInv, [DeployNext]_deployVars
  PROVE  DeployInv'
<1> USE DEF DeployInv
<1>t. /\ \A p \in Panels : click[p] \in Requests /\ click[p].ended \in Nat
      /\ jobs \in Seq(JobRows) /\ \A j \in DOMAIN jobs : jobs[j] \in JobRows
      /\ beta.runs \in Int
  BY DEF DeployTypeOK, Requests
<1>e. Ended \in Nat BY <1>t, EndedCounts
<1>1. ASSUME NEW p \in Panels, NEW d \in DeedsOf[p], Press(p, d) PROVE DeployInv'
  <2> DEFINE c == [deed |-> d, saw |-> IF d = "PROMOTE" THEN beta.runs ELSE None, ended |-> Ended, stage |-> "pressed"]
  <2>1. click' = [click EXCEPT ![p] = c] /\ UNCHANGED <<jobs, worker, beta, prod, sound>>
    BY <1>1 DEF Press, NoClick
  <2>2. d \in Deeds BY DeployAssumption DEF DeployAssumption, Deeds
  <2>3. DeployTypeOK'
    <3>1. c \in Requests /\ c.deed \in Deeds BY <2>2, <1>t, <1>e DEF Requests
    <3> HIDE DEF c
    <3>2. QED BY <2>1, <3>1 DEF DeployTypeOK
  <2>4. Active' = Active /\ Ended' = Ended BY <2>1 DEF Active, Ended
  <2>5. click'[p] = c /\ \A q \in Panels : q # p => click'[q] = click[q] BY <2>1 DEF DeployTypeOK
  <2>6. SawBeta' BY <1>e, <2>1, <2>4, <2>5 DEF SawBeta
  <2>7. QED BY <2>1, <2>3, <2>4, <2>6 DEF OneJob, Vouched, PromotesWhatItSaw, Deed
<1>2. ASSUME NEW p \in Panels, Enqueues(p) PROVE DeployInv'
  <2>1. /\ click[p].stage = "pressed" /\ UNCHANGED <<jobs, worker, beta, prod, sound>>
        /\ click' = [click EXCEPT ![p] = IF Active = {} THEN [click[p] EXCEPT !.stage = "checked"] ELSE NoClick]
    BY <1>2 DEF Enqueues
  <2>2. NoClick \in Requests /\ [click[p] EXCEPT !.stage = "checked"] \in Requests /\ NoClick.stage = "idle"
    BY <1>t DEF NoClick, Requests
  <2>3. DeployTypeOK'
    <3>1. click[p].deed \in Deeds /\ [click[p] EXCEPT !.stage = "checked"].deed = click[p].deed
      BY <1>t, <2>1 DEF DeployTypeOK, Requests
    <3>2. QED BY <2>1, <2>2, <3>1 DEF DeployTypeOK
  <2>4. \A q \in Panels : \/ click'[q] = click[q] \/ click'[q].stage = "idle"
                          \/ (click[q].stage # "idle" /\ click'[q] = [click[q] EXCEPT !.stage = "checked"])
    BY <2>1, <2>2 DEF DeployTypeOK
  <2>5. SawBeta' BY <2>1, <2>4, SameQueue
  <2>6. QED BY <2>1, <2>3, <2>5 DEF OneJob, Vouched, PromotesWhatItSaw, Deed, Active
<1>3. ASSUME NEW p \in Panels, Inserts(p) PROVE DeployInv'
  <2>1. /\ click[p].stage = "checked" /\ click[p].ended = Ended
        /\ click' = [click EXCEPT ![p] = NoClick] /\ UNCHANGED <<worker, beta, prod, sound>>
    BY <1>3 DEF Inserts, Prompt, Happens
  <2>2. NoClick \in Requests /\ NoClick.stage = "idle" BY DEF NoClick, Requests
  <2>3. click' \in [Panels -> Requests] /\ click'[p].stage = "idle" /\ \A q \in Panels : q # p => click'[q] = click[q]
    BY <2>1, <2>2 DEF DeployTypeOK
  <2>4. CASE jobs' = jobs
    <3>1. SawBeta' BY <2>1, <2>3, <2>4, SameQueue
    <3>2. QED BY <2>1, <2>3, <2>4, <3>1 DEF DeployTypeOK, OneJob, Vouched, PromotesWhatItSaw, Deed, Active
  <2>5. CASE jobs' # jobs
    <3> DEFINE row0 == [deed |-> click[p].deed, saw |-> click[p].saw, status |-> "QUEUED"]
               n == Len(jobs)
    <3>1. Active = {} /\ jobs' = Append(jobs, row0) BY <1>3, <2>5 DEF Inserts, Single
    <3>2. row0 \in JobRows BY <1>t, <2>1 DEF JobRows, JobStatuses, Requests, DeployTypeOK
    <3>3. /\ jobs' \in Seq(JobRows) /\ n \in Nat /\ DOMAIN jobs = 1 .. n /\ DOMAIN jobs' = 1 .. n + 1
          /\ \A i \in 1 .. n : jobs'[i] = jobs[i]
          /\ jobs'[n + 1] = row0
      BY <1>t, <3>1, <3>2
    <3>4. Active' = {n + 1} BY <3>1, <3>3 DEF Active
    <3>5. Ended <= Ended' /\ Ended' \in Nat
      <4>1. \A j \in DOMAIN jobs : j \notin Active => j \notin Active' BY <3>3, <3>4
      <4>2. QED BY <1>t, <3>3, <4>1, EndedGrows
    <3>6. click[p].deed = "PROMOTE" => click[p].saw = beta.runs BY <2>1, <3>1 DEF SawBeta
    <3>7. SawBeta' BY <1>t, <1>e, <2>1, <2>3, <3>3, <3>4, <3>5, <3>6 DEF SawBeta
    <3>8. DeployTypeOK' BY <2>1, <2>3, <3>3 DEF DeployTypeOK
    <3>9. worker.state \notin {"runs", "switched", "ran"} BY <3>1 DEF OneJob, Active
    <3>10. OneJob' /\ PromotesWhatItSaw'
      BY <2>1, <3>3, <3>4, <3>9 DEF OneJob, PromotesWhatItSaw
    <3>11. QED BY <2>1, <3>7, <3>8, <3>10 DEF Vouched
  <2>6. QED BY <2>4, <2>5
<1>4. ASSUME WorkerStarts PROVE DeployInv'
  <2> DEFINE f == [j \in DOMAIN jobs |-> IF jobs[j].status = "RUNNING" THEN "FAILED" ELSE jobs[j].status]
  <2>1. worker' = Resting /\ jobs' = OrphansFailed /\ UNCHANGED <<click, beta, prod, sound>>
    BY <1>4 DEF WorkerStarts
  <2>2. f \in [DOMAIN jobs -> JobStatuses] BY <1>t DEF JobRows, JobStatuses
  <2>3. jobs' = [j \in DOMAIN jobs |-> [jobs[j] EXCEPT !.status = f[j]]]
    <3>1. \A j \in DOMAIN jobs : jobs[j] = [jobs[j] EXCEPT !.status = jobs[j].status] BY <1>t DEF JobRows
    <3>2. QED BY <2>1, <3>1 DEF OrphansFailed
  <2>4. \A j \in DOMAIN jobs : f[j] = IF jobs[j].status = "RUNNING" THEN "FAILED" ELSE jobs[j].status OBVIOUS
  <2> HIDE DEF f
  <2>5. /\ jobs' \in Seq(JobRows) /\ DOMAIN jobs' = DOMAIN jobs
        /\ \A j \in DOMAIN jobs : jobs'[j].deed = jobs[j].deed /\ jobs'[j].saw = jobs[j].saw /\ jobs'[j].status = f[j]
        /\ Active' = {j \in DOMAIN jobs : f[j] \in {"QUEUED", "RUNNING"}}
    BY <2>2, <2>3, Restated
  <2>6. Active' \subseteq Active BY <2>4, <2>5 DEF Active
  <2>7. SawBeta' BY <1>t, <2>1, <2>5, <2>6, FewerActive
  <2>8. OneJob' BY <2>1, <2>4, <2>5, <2>6 DEF OneJob, Resting
  <2>9. DeployTypeOK' /\ PromotesWhatItSaw' BY <2>1, <2>5 DEF DeployTypeOK, PromotesWhatItSaw, Resting
  <2>10. QED BY <2>1, <2>7, <2>8, <2>9 DEF Vouched
<1>5. ASSUME TakesJob PROVE DeployInv'
  <2>1. PICK j \in DOMAIN jobs :
           /\ worker.state = "idle" /\ jobs[j].status = "QUEUED"
           /\ jobs' = [jobs EXCEPT ![j].status = "RUNNING"]
           /\ worker' = [worker EXCEPT !.state = "runs", !.job = j]
           /\ UNCHANGED <<click, beta, prod, sound>>
    BY <1>5 DEF TakesJob
  <2>2. /\ jobs' \in Seq(JobRows) /\ DOMAIN jobs' = DOMAIN jobs
        /\ \A i \in DOMAIN jobs : jobs'[i].deed = jobs[i].deed /\ jobs'[i].saw = jobs[i].saw
                                    /\ jobs'[i].status = IF i = j THEN "RUNNING" ELSE jobs[i].status
        /\ Active' = {i \in DOMAIN jobs : (IF i = j THEN "RUNNING" ELSE jobs[i].status) \in {"QUEUED", "RUNNING"}}
    BY <2>1, RestatedAt DEF JobStatuses
  <2>3. Active' = Active BY <2>1, <2>2 DEF Active
  <2>4. SawBeta' BY <1>t, <2>1, <2>2, <2>3, FewerActive
  <2>5. j \in Nat /\ worker'.state = "runs" /\ worker'.job = j
        /\ worker' \in [state : {"down", "idle", "runs", "switched", "ran"}, job : Nat, ok : BOOLEAN]
    <3>1. j \in Nat BY <1>t
    <3>2. QED BY <2>1, <3>1 DEF DeployTypeOK
  <2>6. OneJob' BY <2>2, <2>3, <2>5 DEF OneJob
  <2>7. DeployTypeOK' /\ PromotesWhatItSaw' BY <2>1, <2>2, <2>5 DEF DeployTypeOK, PromotesWhatItSaw
  <2>8. QED BY <2>1, <2>4, <2>6, <2>7 DEF Vouched
<1>6. ASSUME Switches PROVE DeployInv'
  <2>1. worker.state = "runs" /\ UNCHANGED <<jobs, click>> BY <1>6 DEF Switches
  <2>2. worker.job \in DOMAIN jobs /\ jobs[worker.job].status = "RUNNING" /\ worker.job \in Nat
        /\ worker.job \in Active /\ \A j \in Active : j = worker.job
    BY <1>t, <2>1 DEF OneJob, Active, DeployTypeOK
  <2>3. \/ worker' = [worker EXCEPT !.state = "switched", !.ok = FALSE]
        \/ worker' = [worker EXCEPT !.state = "ran", !.ok = FALSE]
    BY <1>6 DEF Switches, WorkerGoes
  <2>4. worker'.state \in {"switched", "ran"} /\ worker'.job = worker.job
        /\ worker' \in [state : {"down", "idle", "runs", "switched", "ran"}, job : Nat, ok : BOOLEAN]
    BY <2>3 DEF DeployTypeOK
  <2>5. OneJob' BY <2>1, <2>2, <2>4 DEF OneJob, Active
  <2>6. \/ /\ Deed # "PROMOTE" /\ prod' \in {prod, [runs |-> prod.before, before |-> prod.runs]}
           /\ sound \subseteq sound' /\ sound' \subseteq Int /\ beta' \in [on : BOOLEAN, runs : Int, before : Int]
        \/ /\ Deed = "PROMOTE" /\ beta' = beta /\ sound' = sound /\ beta.runs \in sound
           /\ prod' = [runs |-> beta.runs, before |-> prod.runs]
        \/ /\ Deed = "PROMOTE" /\ beta' = beta /\ sound' = sound /\ prod' = prod /\ worker'.state = "ran"
    <3>1. CASE Deed = "DEPLOY_BETA"
      <4>1. beta' = [on |-> TRUE, runs |-> worker.job, before |-> beta.runs] /\ prod' = prod
            /\ sound' \in {sound, sound \union {worker.job}}
        BY <1>6, <3>1 DEF Switches
      <4>2. sound \subseteq sound' /\ sound' \subseteq Int
        <5>1. worker.job \in Int /\ sound \subseteq Int BY <2>2 DEF DeployTypeOK
        <5>2. QED BY <4>1, <5>1
      <4>3. beta' \in [on : BOOLEAN, runs : Int, before : Int] BY <1>t, <2>2, <4>1
      <4>4. QED BY <3>1, <4>1, <4>2, <4>3
    <3>2. CASE Deed = "PROMOTE"
      BY <1>6, <3>2 DEF Switches, Reachable, WorkerGoes, DeployTypeOK
    <3>3. CASE Deed = "ROLLBACK"
      BY <1>6, <3>3 DEF Switches, DeployTypeOK
    <3>4. CASE Deed \in {"START", "STOP"}
      BY <1>6, <3>4 DEF Switches, DeployTypeOK
    <3>5. QED BY <1>6, <3>1, <3>2, <3>3, <3>4 DEF Switches
  <2>7. DeployTypeOK' /\ Vouched'
    <3>1. prod' \in [runs : Int, before : Int] /\ sound' \subseteq Int /\ beta' \in [on : BOOLEAN, runs : Int, before : Int]
      <4>1. prod.runs \in Int /\ prod.before \in Int /\ prod \in [runs : Int, before : Int] BY DEF DeployTypeOK
      <4>2. prod' \in [runs : Int, before : Int] BY <1>t, <2>6, <4>1
      <4>3. QED BY <2>6, <4>2 DEF DeployTypeOK
    <3>2. Vouched' BY <2>6 DEF Vouched, DeployTypeOK
    <3>3. QED BY <2>1, <2>4, <3>1, <3>2 DEF DeployTypeOK
  <2>8. SawBeta'
    <3>1. beta'.runs = beta.runs \/ (Active # {} /\ \A j \in Active : jobs[j].deed # "PROMOTE")
      BY <2>2, <2>6 DEF Deed
    <3>2. QED BY <2>1, <3>1, SameQueue
  <2>9. PromotesWhatItSaw'
    BY <2>1, <2>2, <2>4, <2>6 DEF PromotesWhatItSaw, Deed, SawBeta
  <2>10. QED BY <2>5, <2>7, <2>8, <2>9
<1>7. ASSUME Verifies PROVE DeployInv'
  <2>1. worker.state = "switched" /\ UNCHANGED <<jobs, click, sound>> BY <1>7 DEF Verifies
  <2>2. worker.job \in DOMAIN jobs /\ jobs[worker.job].status = "RUNNING" /\ worker.job \in Nat
        /\ worker.job \in Active /\ \A j \in Active : j = worker.job
    BY <1>t, <2>1 DEF OneJob, Active, DeployTypeOK
  <2>3. \/ worker' = [worker EXCEPT !.state = "ran", !.ok = TRUE]
        \/ worker' = [worker EXCEPT !.state = "ran", !.ok = FALSE]
        \/ worker' = [worker EXCEPT !.state = "ran", !.ok = beta.runs \in sound]
    BY <1>7 DEF Verifies, WorkerGoes
  <2>4. worker'.state = "ran" /\ worker'.job = worker.job
        /\ worker' \in [state : {"down", "idle", "runs", "switched", "ran"}, job : Nat, ok : BOOLEAN]
    <3>1. \E ok \in BOOLEAN : worker' = [worker EXCEPT !.state = "ran", !.ok = ok]
      <4>1. (beta.runs \in sound) \in BOOLEAN OBVIOUS
      <4>2. QED BY <2>3, <4>1, Zenon
    <3>2. QED BY <3>1 DEF DeployTypeOK
  <2>5. OneJob' BY <2>1, <2>2, <2>4 DEF OneJob, Active
  <2>6. \/ beta' = beta /\ prod' \in {prod, [prod EXCEPT !.runs = prod.before]}
        \/ Deed = "DEPLOY_BETA" /\ beta' = [beta EXCEPT !.runs = beta.before] /\ prod' = prod
    BY <1>7 DEF Verifies
  <2>7. DeployTypeOK' /\ Vouched' BY <2>1, <2>4, <2>6 DEF DeployTypeOK, Vouched
  <2>8. SawBeta'
    <3>1. beta'.runs = beta.runs \/ (Active # {} /\ \A j \in Active : jobs[j].deed # "PROMOTE")
      BY <2>2, <2>6 DEF Deed
    <3>2. QED BY <2>1, <3>1, SameQueue
  <2>9. PromotesWhatItSaw' BY <2>4 DEF PromotesWhatItSaw
  <2>10. QED BY <2>5, <2>7, <2>8, <2>9
<1>8. ASSUME Records PROVE DeployInv'
  <2> DEFINE k == IF worker.ok THEN "SUCCEEDED" ELSE "FAILED"
             j == worker.job
  <2>1. worker.state = "ran" /\ jobs' = [jobs EXCEPT ![j].status = k] /\ worker' = Resting
        /\ UNCHANGED <<click, beta, prod, sound>>
    BY <1>8 DEF Records, Happens
  <2>2. j \in DOMAIN jobs /\ jobs[j].status = "RUNNING" /\ j \in Active /\ \A i \in Active : i = j
    BY <1>t, <2>1 DEF OneJob, Active
  <2>3. k \in {"SUCCEEDED", "FAILED"} /\ k \in JobStatuses BY DEF JobStatuses
  <2> HIDE DEF k, j
  <2>4. /\ jobs' \in Seq(JobRows) /\ DOMAIN jobs' = DOMAIN jobs
        /\ \A i \in DOMAIN jobs : jobs'[i].deed = jobs[i].deed /\ jobs'[i].saw = jobs[i].saw
                                    /\ jobs'[i].status = IF i = j THEN k ELSE jobs[i].status
        /\ Active' = {i \in DOMAIN jobs : (IF i = j THEN k ELSE jobs[i].status) \in {"QUEUED", "RUNNING"}}
    BY <2>1, <2>2, <2>3, RestatedAt
  <2>5. Active' = {} BY <2>2, <2>3, <2>4 DEF Active
  <2>6. SawBeta' BY <1>t, <2>1, <2>4, <2>5, FewerActive
  <2>7. OneJob' BY <2>1, <2>2, <2>3, <2>4, <2>5 DEF OneJob, Resting, Active
  <2>8. DeployTypeOK' /\ PromotesWhatItSaw' BY <2>1, <2>4 DEF DeployTypeOK, PromotesWhatItSaw, Resting
  <2>9. QED BY <2>1, <2>6, <2>7, <2>8 DEF Vouched
<1>9. ASSUME WorkerDies PROVE DeployInv'
  <2>1. worker' = [state |-> "down", job |-> 0, ok |-> FALSE] /\ UNCHANGED <<jobs, click, beta, prod, sound>>
    BY <1>9 DEF WorkerDies, Resting
  <2>2. Active' = Active /\ Ended' = Ended BY <2>1 DEF Active, Ended
  <2>3. QED BY <2>1, <2>2 DEF DeployTypeOK, OneJob, SawBeta, Vouched, PromotesWhatItSaw
<1>10. CASE UNCHANGED deployVars
  <2>1. Active' = Active /\ Ended' = Ended BY <1>10 DEF Active, Ended, deployVars
  <2>2. QED
    BY <1>10, <2>1 DEF deployVars, DeployTypeOK, OneJob, SawBeta, Vouched, PromotesWhatItSaw, Deed
<1>11. QED
  BY <1>1, <1>2, <1>3, <1>4, <1>5, <1>6, <1>7, <1>8, <1>9, <1>10 DEF DeployNext

\* Production only ever runs a release that answered on beta, and the one that was seen there,
\* as long as no job comes and goes while a request is on its way and the database answers.
THEOREM DeploymentKept ==
  "overlap" \notin Events /\ "db_error" \notin Events => (MCSpec => []DeploymentHolds)
<1>0. SUFFICES ASSUME "overlap" \notin Events, "db_error" \notin Events
               PROVE  MCSpec => []DeploymentHolds
  OBVIOUS
<1>1. DeployInv => DeploymentHolds BY DEF DeployInv, DeploymentHolds, Vouched, BetaVouches
<1>2. MCInit => DeployInv BY DeployInitial DEF MCInit
<1>3. DeployInv /\ [MCNext]_nodeVars => DeployInv' BY <1>0, DeploySteps, DeployStep
<1>4. QED BY <1>1, <1>2, <1>3, PTL DEF MCSpec

-----------------------------------------------------------------------------
\* A step of the whole is a step of the meter's server, or leaves it alone.
LEMMA EgressSteps == ASSUME [MCNext]_nodeVars PROVE [EgressNext]_egressVars
<1>1. CASE MCNext BY <1>1 DEF MCNext, Only
<1>2. CASE UNCHANGED nodeVars BY <1>2 DEF nodeVars, partVars
<1>3. QED BY <1>1, <1>2

\* The rows of the table of billing cycles.
CycleRows == [bytes : Nat, alerted : SUBSET Thresholds]
\* A round of the watch on the provider's meter.
Polls == [stage : {"idle", "asked", "answered", "written"}, start : Starts \union {0},
          bytes : Nat, due : SUBSET Thresholds]

\* The variables of the egress watch have their types.
EgressTypeOK ==
    /\ today \in Days
    /\ traffic \in [Starts -> Nat]
    /\ cycle \in [Starts -> CycleRows \union {None}]
    /\ poll \in Polls
    /\ sent \in [Starts -> [Thresholds -> Nat]]

\* What the meter said, and with it a row's total, never exceeds what went out.
TotalsFit ==
    /\ \A s \in Starts : cycle[s] # None => cycle[s].bytes <= traffic[s]
    /\ poll.stage # "idle" => poll.start \in Starts /\ cycle[poll.start] # None
    /\ poll.stage = "answered" => poll.bytes <= traffic[poll.start]

\* What was told is recorded, once; what is to be told is recorded and was not told.
RecordedFirst ==
    /\ \A s \in Starts, t \in Thresholds :
         /\ sent[s][t] <= 1
         /\ sent[s][t] > 0 => cycle[s] # None /\ t \in cycle[s].alerted
    /\ poll.stage # "written" => poll.due = {}
    /\ poll.stage = "written" =>
         \A t \in poll.due : t \in cycle[poll.start].alerted /\ sent[poll.start][t] = 0

\* The inductive invariant of the egress watch.
EgressInv == EgressTypeOK /\ TotalsFit /\ RecordedFirst

\* Every day that comes has a cycle.
LEMMA CycleOfDay == ASSUME today \in Days PROVE CycleStart(today) \in Starts
BY DEF Starts

\* The greater of two numbers (Grown).
LEMMA GrownGrows ==
    ASSUME NEW x \in Nat, NEW y \in Nat, NEW z \in Nat, x <= z, y <= z
    PROVE  Grown(x, y) \in Nat /\ Grown(x, y) >= x /\ Grown(x, y) <= z
<1>1. \E m \in {x, y} : \A n \in {x, y} : m >= n OBVIOUS
<1>2. Grown(x, y) \in {x, y} /\ \A n \in {x, y} : Grown(x, y) >= n BY <1>1 DEF Grown, Max
<1>3. QED BY <1>2

\* Of what is to be told there is a lowest threshold.
LEMMA LowestDue ==
    ASSUME NEW due \in SUBSET Thresholds, due # {} PROVE Min(due) \in due
BY EgressAssumption DEF EgressAssumption, Min

\* Nothing was read and nothing was told.
LEMMA EgressInitial == EgressInit => EgressInv
<1> SUFFICES ASSUME EgressInit PROVE EgressInv OBVIOUS
<1>1. today \in Days BY EgressAssumption DEF EgressAssumption, EgressInit, Days
<1>2. NoPoll \in Polls BY DEF NoPoll, Polls
<1>3. EgressTypeOK BY <1>1, <1>2 DEF EgressInit, EgressTypeOK
<1>4. TotalsFit /\ RecordedFirst BY DEF EgressInit, TotalsFit, RecordedFirst, NoPoll
<1>5. QED BY <1>3, <1>4 DEF EgressInv

\* A row's total goes only up, and never beyond what went out.
RowsGrow ==
    \A s \in Starts : cycle[s] # None =>
        cycle'[s] # None /\ cycle'[s].bytes >= cycle[s].bytes /\ cycle'[s].bytes <= traffic'[s]

\* Every step of the egress watch keeps the invariant and lets the totals only grow.
LEMMA EgressStep == ASSUME EgressInv, [EgressNext]_egressVars PROVE EgressInv' /\ RowsGrow
<1> USE DEF EgressInv, EgressTypeOK
<1>0. \A s \in Starts : cycle[s] # None =>
         cycle[s] \in CycleRows /\ cycle[s].bytes \in Nat /\ cycle[s].alerted \subseteq Thresholds
  BY DEF CycleRows
<1>1. CASE DayPasses
  <2>1. today' \in Days /\ UNCHANGED <<traffic, cycle, poll, sent>>
    BY <1>1, EgressAssumption DEF DayPasses, Days, EgressAssumption
  <2>2. QED BY <1>0, <2>1 DEF TotalsFit, RecordedFirst, RowsGrow
<1>2. CASE TrafficFlows
  <2>1. CycleStart(today) \in Starts BY CycleOfDay
  <2>2. traffic' \in [Starts -> Nat] /\ \A s \in Starts : traffic'[s] >= traffic[s]
    BY <1>2, <2>1 DEF TrafficFlows
  <2>3. UNCHANGED <<today, cycle, poll, sent>> BY <1>2 DEF TrafficFlows
  <2>4. poll.bytes \in Nat BY DEF Polls
  <2>5. TotalsFit' BY <1>0, <2>2, <2>3, <2>4 DEF TotalsFit
  <2>6. RecordedFirst' BY <2>3 DEF RecordedFirst
  <2>7. RowsGrow BY <1>0, <2>2, <2>3 DEF RowsGrow, TotalsFit
  <2>8. QED BY <2>2, <2>3, <2>5, <2>6, <2>7
<1>3. CASE StartPoll
  <2> DEFINE s0 == CycleStart(today)
             blank == [bytes |-> 0, alerted |-> {}]
  <2>1. s0 \in Starts BY CycleOfDay
  <2>2. /\ cycle' = [cycle EXCEPT ![s0] = IF @ = None THEN blank ELSE @]
        /\ poll' = [NoPoll EXCEPT !.stage = "asked", !.start = s0]
        /\ poll = NoPoll /\ UNCHANGED <<today, traffic, sent>>
    BY <1>3 DEF StartPoll
  <2>3. poll' = [stage |-> "asked", start |-> s0, bytes |-> 0, due |-> {}] BY <2>2 DEF NoPoll
  <2>4. blank \in CycleRows /\ blank.bytes = 0 /\ blank # None
    BY EgressAssumption DEF CycleRows, EgressAssumption
  <2> HIDE DEF s0, blank
  <2>5. poll' \in Polls BY <2>1, <2>3 DEF Polls
  <2>6. \A s \in Starts : cycle'[s] = IF s = s0 /\ cycle[s] = None THEN blank ELSE cycle[s]
    BY <2>1, <2>2
  <2>7. cycle' \in [Starts -> CycleRows \union {None}] BY <2>1, <2>2, <2>4
  <2>8. TotalsFit' BY <2>1, <2>2, <2>3, <2>4, <2>6 DEF TotalsFit
  <2>9. \A s \in Starts : cycle[s] # None => cycle'[s] = cycle[s] BY <2>6
  <2>10. RecordedFirst'
    <3>1. \A s \in Starts, t \in Thresholds :
             sent[s][t] <= 1 /\ (sent[s][t] > 0 => cycle[s] # None /\ t \in cycle[s].alerted)
      BY DEF RecordedFirst
    <3>5. poll'.stage = "asked" /\ poll'.due = {} BY <2>3
    <3>2. sent' = sent /\ poll'.stage = "asked" /\ poll'.due = {} BY <2>2, <3>5
    <3>3. \A s \in Starts, t \in Thresholds :
             sent'[s][t] <= 1 /\ (sent'[s][t] > 0 => cycle'[s] # None /\ t \in cycle'[s].alerted)
      BY <3>1, <3>2, <2>9
    <3>4. QED BY <3>2, <3>3 DEF RecordedFirst
  <2>11. RowsGrow BY <1>0, <2>2, <2>9 DEF RowsGrow, TotalsFit
  <2>12. QED BY <2>2, <2>5, <2>7, <2>8, <2>10, <2>11
<1>4. CASE MeterAnswers
  <2>1. poll.stage = "asked" /\ poll.start \in Starts /\ UNCHANGED <<today, traffic, cycle, sent>>
    BY <1>4 DEF MeterAnswers, TotalsFit
  <2>2. poll' = NoPoll \/ \E n \in 0 .. traffic[poll.start] :
            poll' = [poll EXCEPT !.stage = "answered", !.bytes = n]
    <3>1. traffic[poll.start] \in Nat BY <2>1
    <3>2. traffic[poll.start] \in 0 .. traffic[poll.start] BY <3>1
    <3>3. \A n \in 0 .. traffic[poll.start] - 1 : n \in 0 .. traffic[poll.start] BY <3>1
    <3>4. QED BY <1>4, <3>2, <3>3 DEF MeterAnswers, Freed
  <2>3. CASE poll' = NoPoll
    <3>1. poll' \in Polls BY <2>3 DEF NoPoll, Polls
    <3>2. TotalsFit' /\ RecordedFirst' BY <2>1, <2>3 DEF NoPoll, TotalsFit, RecordedFirst
    <3>3. QED BY <1>0, <2>1, <3>1, <3>2 DEF RowsGrow, TotalsFit
  <2>4. ASSUME NEW n \in 0 .. traffic[poll.start],
               poll' = [poll EXCEPT !.stage = "answered", !.bytes = n]
        PROVE  EgressInv' /\ RowsGrow
    <3>1. n \in Nat /\ n <= traffic[poll.start] BY <2>1
    <3>2. /\ poll' \in Polls /\ poll'.stage = "answered" /\ poll'.bytes = n
          /\ poll'.start = poll.start /\ poll'.due = poll.due
      BY <2>4, <3>1 DEF Polls
    <3>3. TotalsFit' BY <2>1, <3>1, <3>2 DEF TotalsFit
    <3>4. RecordedFirst' BY <2>1, <3>2 DEF RecordedFirst
    <3>5. QED BY <1>0, <2>1, <3>2, <3>3, <3>4 DEF RowsGrow, TotalsFit
  <2>5. QED BY <2>2, <2>3, <2>4
<1>5. CASE WriteCycle
  <2> DEFINE s0 == poll.start
             r == cycle[s0]
             total == Grown(r.bytes, poll.bytes)
             due == Crossed(r, total)
             new == [bytes |-> total, alerted |-> r.alerted \union due]
  <2>1. /\ poll.stage = "answered"
        /\ cycle' = [cycle EXCEPT ![s0] = new]
        /\ poll' = [poll EXCEPT !.stage = "written", !.due = due]
        /\ UNCHANGED <<today, traffic, sent>>
    BY <1>5 DEF WriteCycle
  <2>2. /\ s0 \in Starts /\ r # None /\ r.bytes <= traffic[s0] /\ poll.bytes <= traffic[s0]
        /\ traffic[s0] \in Nat /\ poll.bytes \in Nat
    BY <2>1 DEF TotalsFit, Polls
  <2>3. r.bytes \in Nat /\ r.alerted \subseteq Thresholds BY <1>0, <2>2
  <2>4. total \in Nat /\ total >= r.bytes /\ total <= traffic[s0] BY <2>2, <2>3, GrownGrows
  <2>5. due \subseteq Thresholds /\ due \intersect r.alerted = {} BY DEF Crossed
  <2> HIDE DEF total, due
  <2>6. /\ new \in CycleRows /\ new.bytes = total /\ new.alerted = r.alerted \union due /\ new # None
    <3>1. r.alerted \union due \subseteq Thresholds BY <2>3, <2>5
    <3>2. new \in CycleRows BY <2>4, <3>1 DEF CycleRows
    <3>3. None \notin CycleRows BY EgressAssumption DEF CycleRows, EgressAssumption
    <3>4. QED BY <3>2, <3>3
  <2> HIDE DEF new
  <2>7. \A s \in Starts : cycle'[s] = IF s = s0 THEN new ELSE cycle[s] BY <2>1
  <2>8. cycle' \in [Starts -> CycleRows \union {None}] BY <2>1, <2>6
  <2>9. /\ poll' \in Polls /\ poll'.stage = "written" /\ poll'.start = s0 /\ poll'.due = due
    BY <2>1, <2>5 DEF Polls
  <2>10. TotalsFit' BY <2>1, <2>2, <2>4, <2>6, <2>7, <2>9 DEF TotalsFit
  <2>11. \A t \in due : sent[s0][t] = 0
    <3> SUFFICES ASSUME NEW t \in due PROVE sent[s0][t] = 0 OBVIOUS
    <3>1. t \in Thresholds /\ t \notin r.alerted BY <2>5
    <3>2. sent[s0][t] \in Nat /\ ~(sent[s0][t] > 0) BY <2>2, <3>1 DEF RecordedFirst
    <3>3. QED BY <3>2
  <2>12. RecordedFirst' BY <2>1, <2>2, <2>6, <2>7, <2>9, <2>11 DEF RecordedFirst
  <2>13. RowsGrow BY <1>0, <2>1, <2>2, <2>4, <2>6, <2>7 DEF RowsGrow, TotalsFit
  <2>14. QED BY <2>1, <2>8, <2>9, <2>10, <2>12, <2>13
<1>6. CASE Announce
  <2>1. poll.stage = "written" /\ UNCHANGED <<today, traffic, cycle>> BY <1>6 DEF Announce
  <2>2. RowsGrow BY <1>0, <2>1 DEF RowsGrow, TotalsFit
  <2>3. CASE poll.due = {}
    <3>1. poll' = NoPoll /\ sent' = sent BY <1>6, <2>3 DEF Announce, Freed
    <3>2. poll' \in Polls BY <3>1 DEF NoPoll, Polls
    <3>3. TotalsFit' /\ RecordedFirst' BY <2>1, <3>1 DEF NoPoll, TotalsFit, RecordedFirst
    <3>4. QED BY <2>1, <2>2, <3>1, <3>2, <3>3
  <2>4. CASE poll.due # {}
    <3> DEFINE t0 == Min(poll.due)
               s0 == poll.start
    <3>1. poll.due \in SUBSET Thresholds /\ s0 \in Starts BY <2>1 DEF Polls, TotalsFit
    <3>2. t0 \in poll.due BY <2>4, <3>1, LowestDue
    <3>3. /\ sent' = [sent EXCEPT ![s0][t0] = @ + 1]
          /\ poll' = [poll EXCEPT !.due = @ \ {t0}]
      BY <1>6, <2>4 DEF Announce
    <3> HIDE DEF t0
    <3>4. sent[s0][t0] = 0 /\ t0 \in cycle[s0].alerted /\ cycle[s0] # None /\ t0 \in Thresholds
      BY <2>1, <3>1, <3>2 DEF RecordedFirst, TotalsFit
    <3>5. sent' \in [Starts -> [Thresholds -> Nat]]
          /\ \A s \in Starts, t \in Thresholds : sent'[s][t] = IF s = s0 /\ t = t0 THEN 1 ELSE sent[s][t]
      BY <3>1, <3>3, <3>4
    <3>6. /\ poll' \in Polls /\ poll'.stage = "written" /\ poll'.start = s0 /\ poll'.due = poll.due \ {t0}
      BY <2>1, <3>1, <3>3 DEF Polls
    <3>7. TotalsFit' BY <2>1, <3>6 DEF TotalsFit
    <3>8. RecordedFirst'
      <4>1. \A s \in Starts, t \in Thresholds :
               sent'[s][t] <= 1 /\ (sent'[s][t] > 0 => cycle'[s] # None /\ t \in cycle'[s].alerted)
        BY <2>1, <3>4, <3>5 DEF RecordedFirst
      <4>2. \A t \in poll'.due : t \in poll.due /\ t # t0 /\ t \in Thresholds BY <3>1, <3>6
      <4>3. \A t \in poll.due : t \in cycle[s0].alerted /\ sent[s0][t] = 0
        BY <2>1 DEF RecordedFirst
      <4>4. \A t \in poll'.due : t \in cycle'[poll'.start].alerted /\ sent'[poll'.start][t] = 0
        BY <2>1, <3>1, <3>5, <3>6, <4>2, <4>3
      <4>5. QED BY <3>6, <4>1, <4>4 DEF RecordedFirst
    <3>9. QED BY <2>1, <2>2, <3>5, <3>6, <3>7, <3>8
  <2>5. QED BY <2>3, <2>4
<1>7. CASE MeterServerDies
  <2>1. poll' = NoPoll /\ UNCHANGED <<today, traffic, cycle, sent>> BY <1>7 DEF MeterServerDies
  <2>2. poll' \in Polls BY <2>1 DEF NoPoll, Polls
  <2>3. TotalsFit' /\ RecordedFirst' BY <2>1 DEF NoPoll, TotalsFit, RecordedFirst
  <2>4. QED BY <1>0, <2>1, <2>2, <2>3 DEF RowsGrow, TotalsFit
<1>8. CASE UNCHANGED egressVars
  BY <1>0, <1>8 DEF egressVars, TotalsFit, RecordedFirst, RowsGrow
<1>9. QED BY <1>1, <1>2, <1>3, <1>4, <1>5, <1>6, <1>7, <1>8 DEF EgressNext

-----------------------------------------------------------------------------
(* The calendar of the billing cycles.                                      *)

\* Every month has a day.
LEMMA MonthHasDays == ASSUME NEW m \in Nat PROVE LastDay(m) \in Nat /\ LastDay(m) >= 1
<1>1. Len(MonthDays) \in Nat \ {0} BY EgressAssumption DEF EgressAssumption
<1>2. (m % Len(MonthDays)) + 1 \in 1 .. Len(MonthDays)
  <2>1. m % Len(MonthDays) \in 0 .. Len(MonthDays) - 1 BY <1>1
  <2>2. QED BY <1>1, <2>1
<1>3. MonthDays[(m % Len(MonthDays)) + 1] \in Nat \ {0} BY <1>2, EgressAssumption DEF EgressAssumption
<1>4. QED BY <1>3 DEF LastDay

\* The first days of the months are the sums of the lengths of those before (MonthStart is
\* what its recursive definition says).
LEMMA Calendar ==
    /\ MonthStart \in [Nat -> Int]
    /\ MonthStart[0] = 0
    /\ \A m \in Nat : MonthStart[m + 1] = MonthStart[m] + LastDay(m)
<1> DEFINE Follows(f) == f = [m \in Nat |-> IF m = 0 THEN 0 ELSE f[m - 1] + LastDay(m - 1)]
           d == [m \in Nat |-> LastDay(m)]
<1>1. d \in [Nat -> Int]
  <2>1. \A m \in Nat : LastDay(m) \in Int BY MonthHasDays
  <2>2. QED BY <2>1
<1>2. \A m \in Nat : d[m] = LastDay(m) OBVIOUS
<1> HIDE DEF d
<1>3. PICK g \in [Nat -> Int] : g = [m \in Nat |-> IF m = 0 THEN 0 ELSE g[m - 1] + d[m - 1]]
  BY <1>1, Sums
<1>4. \A m \in Nat : (IF m = 0 THEN 0 ELSE g[m - 1] + d[m - 1]) = (IF m = 0 THEN 0 ELSE g[m - 1] + LastDay(m - 1))
  <2>1. \A m \in Nat : m # 0 => d[m - 1] = LastDay(m - 1) BY <1>2
  <2>2. QED BY <2>1
<1>5. Follows(g) BY <1>3, <1>4
<1>6. MonthStart = CHOOSE f : Follows(f) BY DEF MonthStart
<1>7. Follows(MonthStart)
  <2>1. \E f : Follows(f) BY <1>5
  <2> HIDE DEF Follows
  <2>2. QED BY <1>6, <2>1
<1>8. \A m \in Nat : MonthStart[m] = IF m = 0 THEN 0 ELSE MonthStart[m - 1] + LastDay(m - 1) BY <1>7
<1>9. \A m \in Nat : MonthStart[m] \in Int
  <2> DEFINE Bad == {m \in Nat : MonthStart[m] \notin Int}
  <2>1. SUFFICES ASSUME Bad # {} PROVE FALSE OBVIOUS
  <2>2. PICK m \in Bad : \A x \in Bad : m <= x
    <3>1. Bad \in SUBSET Nat OBVIOUS
    <3> HIDE DEF Bad
    <3>2. QED BY <2>1, <3>1, LeastOf
  <2>3. m \in Nat /\ MonthStart[m] \notin Int OBVIOUS
  <2>4. m # 0 /\ m - 1 \in Nat /\ ~(m <= m - 1) BY <1>8, <2>3
  <2>5. MonthStart[m - 1] \in Int BY <2>2, <2>4
  <2>6. QED BY <1>8, <2>3, <2>4, <2>5, MonthHasDays
<1>10. MonthStart \in [Nat -> Int]
  <2>1. MonthStart = [m \in Nat |-> IF m = 0 THEN 0 ELSE MonthStart[m - 1] + LastDay(m - 1)] BY <1>7
  <2>2. MonthStart = [m \in Nat |-> MonthStart[m]] BY <1>8, <2>1
  <2>3. QED BY <1>9, <2>2
<1>11. ASSUME NEW m \in Nat PROVE MonthStart[m + 1] = MonthStart[m] + LastDay(m)
  <2>1. m + 1 \in Nat /\ m + 1 # 0 /\ (m + 1) - 1 = m OBVIOUS
  <2>2. QED BY <1>8, <2>1
<1>12. QED BY <1>8, <1>10, <1>11

\* A month begins no sooner than the one before it is over; there are at least as many
\* days as months.
LEMMA MonthsFollow ==
    ASSUME NEW m \in Nat, NEW n \in Nat, m < n
    PROVE  MonthStart[m + 1] <= MonthStart[n] /\ MonthStart[n] >= n
<1>1. \A x \in Nat : /\ MonthStart[x] \in Int /\ MonthStart[x + 1] \in Int
                     /\ MonthStart[x + 1] >= MonthStart[x] + 1
  <2>1. \A x \in Nat : x + 1 \in Nat OBVIOUS
  <2>2. QED BY <2>1, Calendar, MonthHasDays
<1> DEFINE Bad == {x \in Nat : ~(x < MonthStart[x] + 1)}
<1>2. Bad = {}
  <2>1. SUFFICES ASSUME Bad # {} PROVE FALSE OBVIOUS
  <2>2. PICK x \in Bad : \A y \in Bad : x <= y
    <3>1. Bad \in SUBSET Nat OBVIOUS
    <3> HIDE DEF Bad
    <3>2. QED BY <2>1, <3>1, LeastOf
  <2>3. x \in Nat /\ ~(x < MonthStart[x] + 1) OBVIOUS
  <2>4. x # 0 BY <2>3, Calendar
  <2>5. x - 1 \in Nat /\ ~(x <= x - 1) /\ (x - 1) + 1 = x BY <2>3, <2>4
  <2>6. x - 1 < MonthStart[x - 1] + 1 BY <2>2, <2>5
  <2>7. QED BY <1>1, <2>3, <2>5, <2>6
<1>3. MonthStart[n] >= n
  <2>1. n < MonthStart[n] + 1 BY <1>2
  <2>2. QED BY <1>1, <2>1
<1> DEFINE Early == {x \in Nat : m < x /\ MonthStart[x] < MonthStart[m + 1]}
<1>4. Early = {}
  <2>1. SUFFICES ASSUME Early # {} PROVE FALSE OBVIOUS
  <2>2. PICK x \in Early : \A y \in Early : x <= y
    <3>1. Early \in SUBSET Nat OBVIOUS
    <3> HIDE DEF Early
    <3>2. QED BY <2>1, <3>1, LeastOf
  <2>3. x \in Nat /\ m < x /\ MonthStart[x] < MonthStart[m + 1] OBVIOUS
  <2>4. x # m + 1 BY <1>1, <2>3
  <2>5. x - 1 \in Nat /\ m < x - 1 /\ ~(x <= x - 1) /\ (x - 1) + 1 = x BY <2>3, <2>4
  <2>6. ~(MonthStart[x - 1] < MonthStart[m + 1]) BY <2>2, <2>5
  <2>7. m + 1 \in Nat OBVIOUS
  <2>8. QED BY <1>1, <2>3, <2>5, <2>6, <2>7
<1>5. ~(MonthStart[n] < MonthStart[m + 1]) BY <1>4
<1>6. m + 1 \in Nat OBVIOUS
<1>7. QED BY <1>1, <1>3, <1>5, <1>6

\* The month of a day is the one it falls in.
LEMMA MonthOfDay ==
    ASSUME NEW day \in 0 .. MaxDay, NEW m \in Nat, MonthStart[m] <= day, day < MonthStart[m + 1]
    PROVE  MonthOf(day) = m
<1> DEFINE In(x) == MonthStart[x] <= day /\ day < MonthStart[x + 1]
<1>1. \A x \in Nat : MonthStart[x] \in Int /\ MonthStart[x + 1] \in Int
  <2>1. \A x \in Nat : x + 1 \in Nat OBVIOUS
  <2>2. QED BY <2>1, Calendar
<1>2. m \in Months
  <2>1. CASE m = 0 BY <2>1, EgressAssumption DEF Months, EgressAssumption
  <2>2. CASE m # 0
    <3>1. MonthStart[m] >= m BY <2>2, MonthsFollow
    <3>2. MaxDay \in Nat BY EgressAssumption DEF EgressAssumption
    <3>3. QED BY <1>1, <3>1, <3>2 DEF Months
  <2>3. QED BY <2>1, <2>2
<1>3. ASSUME NEW x \in Nat, In(x) PROVE x = m
  <2>1. ~(x < m)
    <3>1. SUFFICES ASSUME x < m PROVE FALSE OBVIOUS
    <3>2. MonthStart[x + 1] <= MonthStart[m] BY <3>1, MonthsFollow
    <3>3. QED BY <1>1, <1>3, <3>2
  <2>2. ~(m < x)
    <3>1. SUFFICES ASSUME m < x PROVE FALSE OBVIOUS
    <3>2. MonthStart[m + 1] <= MonthStart[x] BY <3>1, MonthsFollow
    <3>3. QED BY <1>1, <1>3, <3>2
  <2>3. QED BY <2>1, <2>2
<1>4. In(m) OBVIOUS
<1>5. Months \subseteq Nat BY DEF Months
<1> HIDE DEF In
<1>6. (CHOOSE x \in Months : In(x)) = m BY <1>2, <1>3, <1>4, <1>5
<1>7. QED BY <1>6 DEF MonthOf, In

\* Every day falls in a month.
LEMMA DayHasMonth ==
    ASSUME NEW day \in 0 .. MaxDay
    PROVE  \E m \in Nat : MonthStart[m] <= day /\ day < MonthStart[m + 1] /\ MonthOf(day) = m
<1>1. \A x \in Nat : MonthStart[x] \in Int /\ MonthStart[x + 1] \in Int
  <2>1. \A x \in Nat : x + 1 \in Nat OBVIOUS
  <2>2. QED BY <2>1, Calendar
<1> DEFINE Later == {x \in Nat : day < MonthStart[x]}
<1>2. day + 1 \in Later
  <2>1. day + 1 \in Nat /\ 0 < day + 1 /\ 0 \in Nat OBVIOUS
  <2>2. MonthStart[day + 1] >= day + 1 BY <2>1, MonthsFollow
  <2>3. QED BY <1>1, <2>1, <2>2
<1>3. PICK n \in Later : \A y \in Later : n <= y
  <2>1. Later \in SUBSET Nat OBVIOUS
  <2> HIDE DEF Later
  <2>2. QED BY <1>2, <2>1, LeastOf
<1>4. n \in Nat /\ day < MonthStart[n] OBVIOUS
<1>5. n # 0 BY <1>4, Calendar
<1>6. n - 1 \in Nat /\ ~(n <= n - 1) /\ (n - 1) + 1 = n BY <1>4, <1>5
<1>7. ~(day < MonthStart[n - 1]) BY <1>3, <1>6
<1>8. MonthStart[n - 1] <= day BY <1>1, <1>6, <1>7
<1>9. MonthOf(day) = n - 1 BY <1>4, <1>6, <1>8, MonthOfDay
<1>10. QED BY <1>4, <1>6, <1>8, <1>9

\* An anniversary is in its month: a month too short for the day has it on its last.
LEMMA AnniversaryInMonth ==
    ASSUME NEW m \in Nat
    PROVE  /\ Anniversary(m) \in Int /\ MonthStart[m] \in Int /\ MonthStart[m + 1] \in Int
           /\ MonthStart[m] <= Anniversary(m) /\ Anniversary(m) < MonthStart[m + 1]
           /\ m = 0 => Anniversary(m) = AnchorDay - 1
<1>1. MonthStart[m] \in Int /\ MonthStart[m + 1] = MonthStart[m] + LastDay(m) /\ m + 1 \in Nat BY Calendar
<1>2. LastDay(m) \in Nat /\ LastDay(m) >= 1 BY MonthHasDays
<1>3. AnchorDay \in Nat /\ AnchorDay >= 1
  <2>1. MonthDays[1] \in Nat BY EgressAssumption DEF EgressAssumption
  <2>2. QED BY <2>1, EgressAssumption DEF EgressAssumption
<1>4. Clamped(m, AnchorDay) \in {AnchorDay, LastDay(m)} /\ Clamped(m, AnchorDay) <= AnchorDay
      /\ Clamped(m, AnchorDay) <= LastDay(m)
  <2> DEFINE S == {AnchorDay, LastDay(m)}
  <2>1. \E x \in S : \A y \in S : x <= y BY <1>2, <1>3
  <2>2. Min(S) \in S /\ \A y \in S : Min(S) <= y
    <3> HIDE DEF S
    <3>1. QED BY <2>1 DEF Min
  <2>3. QED BY <2>2 DEF Clamped
<1>5. Anniversary(m) = MonthStart[m] + Clamped(m, AnchorDay) - 1 BY DEF Anniversary, Date
<1>6. m = 0 => Anniversary(m) = AnchorDay - 1
  <2>1. SUFFICES ASSUME m = 0 PROVE Anniversary(m) = AnchorDay - 1 OBVIOUS
  <2>2. Len(MonthDays) \in Nat \ {0} BY EgressAssumption DEF EgressAssumption
  <2>3. 0 % Len(MonthDays) = 0 BY <2>2
  <2>4. LastDay(m) = MonthDays[1] BY <2>1, <2>3 DEF LastDay
  <2>5. AnchorDay <= LastDay(m) BY <2>4, <1>2, EgressAssumption DEF EgressAssumption
  <2>6. Clamped(m, AnchorDay) = AnchorDay BY <1>2, <1>3, <1>4, <2>5
  <2>7. QED BY <1>5, <1>3, <2>1, <2>6, Calendar
<1>7. QED BY <1>1, <1>2, <1>3, <1>4, <1>5, <1>6

\* The days from one anniversary to the next are the cycle that begins with it.
LEMMA AnniversaryCycle ==
    ASSUME NEW day \in 0 .. MaxDay, NEW m \in Nat, Anniversary(m) <= day, day < Anniversary(m + 1)
    PROVE  CycleStart(day) = Anniversary(m) /\ CycleEnd(Anniversary(m)) = Anniversary(m + 1)
<1>1. /\ Anniversary(m) \in Int /\ MonthStart[m] \in Int /\ MonthStart[m + 1] \in Int
      /\ MonthStart[m] <= Anniversary(m) /\ Anniversary(m) < MonthStart[m + 1]
  BY AnniversaryInMonth
<1>2. /\ Anniversary(m + 1) \in Int /\ MonthStart[m + 2] \in Int /\ (m + 1) + 1 = m + 2
      /\ MonthStart[m + 1] <= Anniversary(m + 1) /\ Anniversary(m + 1) < MonthStart[m + 2]
  <2>1. m + 1 \in Nat /\ (m + 1) + 1 = m + 2 OBVIOUS
  <2>2. QED BY <2>1, AnniversaryInMonth
<1>3. CycleStart(day) = Anniversary(m)
  <2>1. CASE day < MonthStart[m + 1]
    <3>1. MonthStart[m] <= day BY <1>1
    <3>2. MonthOf(day) = m BY <2>1, <3>1, MonthOfDay
    <3>3. QED BY <3>2 DEF CycleStart
  <2>2. CASE ~(day < MonthStart[m + 1])
    <3>1. MonthStart[m + 1] <= day /\ day < MonthStart[(m + 1) + 1] /\ m + 1 \in Nat BY <1>1, <1>2, <2>2
    <3>2. MonthOf(day) = m + 1 BY <3>1, MonthOfDay
    <3>3. ~(Anniversary(m + 1) <= day) /\ (m + 1) - 1 = m BY <1>2
    <3>4. QED BY <3>2, <3>3 DEF CycleStart
  <2>3. QED BY <2>1, <2>2
<1>4. Anniversary(m) \in 0 .. MaxDay
  <2>1. MonthStart[m] >= 0
    <3>1. CASE m = 0 BY <3>1, Calendar
    <3>2. CASE m # 0
      <4>1. MonthStart[m] >= m BY <3>2, MonthsFollow
      <4>2. QED BY <1>1, <4>1
    <3>3. QED BY <3>1, <3>2
  <2>2. QED BY <1>1, <2>1, EgressAssumption DEF EgressAssumption
<1>5. MonthOf(Anniversary(m)) = m BY <1>1, <1>4, MonthOfDay
<1>6. QED BY <1>3, <1>5 DEF CycleEnd

\* Every day since the beginning is in the cycle that is computed for it, and in no other.
LEMMA DayFits ==
    ASSUME NEW day \in Days
    PROVE  LET s == CycleStart(day)
           IN  s <= day /\ day < CycleEnd(s) /\ \A d \in s .. Min({CycleEnd(s) - 1, MaxDay}) : CycleStart(d) = s
<1>1. day \in 0 .. MaxDay /\ AnchorDay - 1 <= day
  <2>1. MonthDays[1] \in Nat BY EgressAssumption DEF EgressAssumption
  <2>2. QED BY <2>1, EgressAssumption DEF EgressAssumption, Days
<1>2. PICK m \in Nat : MonthStart[m] <= day /\ day < MonthStart[m + 1] /\ MonthOf(day) = m BY <1>1, DayHasMonth
<1>3. \E k \in Nat : Anniversary(k) <= day /\ day < Anniversary(k + 1)
  <2>1. CASE Anniversary(m) <= day
    <3>1. m + 1 \in Nat OBVIOUS
    <3>2. MonthStart[m + 1] \in Int /\ Anniversary(m + 1) \in Int /\ MonthStart[m + 1] <= Anniversary(m + 1)
      BY <3>1, AnniversaryInMonth
    <3>3. day < Anniversary(m + 1) BY <1>1, <1>2, <3>2
    <3>4. QED BY <2>1, <3>3
  <2>2. CASE ~(Anniversary(m) <= day)
    <3>1. m # 0 BY <1>1, <2>2, AnniversaryInMonth
    <3>2. m - 1 \in Nat /\ (m - 1) + 1 = m BY <3>1
    <3>3. /\ Anniversary(m - 1) \in Int /\ MonthStart[m] \in Int /\ Anniversary(m - 1) < MonthStart[m]
          /\ Anniversary(m) \in Int
      BY <3>2, AnniversaryInMonth
    <3>4. Anniversary(m - 1) <= day /\ day < Anniversary(m) BY <1>1, <1>2, <2>2, <3>3
    <3>5. QED BY <3>2, <3>4
  <2>3. QED BY <2>1, <2>2
<1>4. PICK k \in Nat : Anniversary(k) <= day /\ day < Anniversary(k + 1) BY <1>3
<1>5. /\ Anniversary(k) \in Int /\ Anniversary(k + 1) \in Int /\ Anniversary(k) >= 0
  <2>1. k + 1 \in Nat OBVIOUS
  <2>2. MonthStart[k] >= 0
    <3>1. CASE k = 0 BY <3>1, Calendar
    <3>2. CASE k # 0
      <4>1. MonthStart[k] >= k BY <3>2, MonthsFollow
      <4>2. QED BY <4>1, Calendar
    <3>3. QED BY <3>1, <3>2
  <2>3. QED BY <2>1, <2>2, AnniversaryInMonth
<1>6. CycleStart(day) = Anniversary(k) /\ CycleEnd(Anniversary(k)) = Anniversary(k + 1)
  BY <1>1, <1>4, AnniversaryCycle
<1> DEFINE last == Min({Anniversary(k + 1) - 1, MaxDay})
<1>7. last \in Int /\ last <= Anniversary(k + 1) - 1 /\ last <= MaxDay
  <2> DEFINE S == {Anniversary(k + 1) - 1, MaxDay}
  <2>1. MaxDay \in Int BY EgressAssumption DEF EgressAssumption
  <2>2. \E x \in S : \A y \in S : x <= y BY <1>5, <2>1
  <2>3. Min(S) \in S /\ \A y \in S : Min(S) <= y
    <3> HIDE DEF S
    <3>1. QED BY <2>2 DEF Min
  <2>4. QED BY <1>5, <2>1, <2>3
<1>8. ASSUME NEW d \in Anniversary(k) .. last PROVE CycleStart(d) = Anniversary(k)
  <2> HIDE DEF last
  <2>1. d \in 0 .. MaxDay /\ Anniversary(k) <= d /\ d < Anniversary(k + 1)
    BY <1>5, <1>7, EgressAssumption DEF EgressAssumption
  <2>2. QED BY <2>1, AnniversaryCycle
<1>9. QED BY <1>4, <1>6, <1>8

\* Every day is in the billing cycle computed for it and all days of a cycle agree on it, in
\* any calendar and for any day of subscription, in months that do not have that day, too;
\* whatever the meter answers and however often the server restarts, a threshold is told at
\* most once a cycle, and a cycle's total grows and stays within what went out (cycleStart,
\* cycleEnd, clampDay; runEgressBudgetTick writes before it tells).
THEOREM EgressKept == MCSpec => EgressHolds
<1>1. MCInit => EgressInv BY EgressInitial DEF MCInit
<1>2. EgressInv /\ [MCNext]_nodeVars => EgressInv' BY EgressSteps, EgressStep
<1>3. EgressInv => AnnouncedOnce BY DEF EgressInv, RecordedFirst, AnnouncedOnce
<1>4. EgressInv => WindowsFit BY DayFits DEF EgressInv, EgressTypeOK, WindowsFit
<1>5. EgressInv /\ [MCNext]_nodeVars =>
        [\A s \in Starts : cycle[s] # None => cycle'[s] # None /\ cycle'[s].bytes >= cycle[s].bytes
            /\ cycle'[s].bytes <= traffic'[s]]_egressVars
  BY EgressSteps, EgressStep DEF RowsGrow
<1>6. QED BY <1>1, <1>2, <1>3, <1>4, <1>5, PTL DEF MCSpec, EgressHolds, TotalGrows
=============================================================================
