---------------------------- MODULE OrdersProofs ----------------------------
(***************************************************************************)
(* Orders and payments, for every number of customers, orders and requests *)
(* served at once: what is paid for is granted, once and in full.          *)
(*                                                                         *)
(* The invariant has two halves: MoneyInv follows an order from its        *)
(* checkout to the subscription it buys, DeskInv follows an account's rows *)
(* and its device allowance.  A step seldom touches both.                  *)
(***************************************************************************)
EXTENDS Orders, NumberLemmas, FiniteSetTheorems

\* What a provider's hook may say of a payment.
Verdicts == {"SUCCESS", "FAILED", "EXPIRED", "CANCELED", "REFUNDED"}
\* The hooks on their way.
Hooks == [order : OrderIds, status : Verdicts]
\* How a grant treats the terms the account has.
Modes == {"extend", "replace"}
\* Where a grant comes from.
Sources == {"order", "trial", "manual"}

\* A row of the subscriptions table, and what a request or the monitor is about.
SubRows == [user : Users, plan : Plans, tier : {1, 2}, source : Sources,
            status : {"ACTIVE", "EXPIRED", "DISABLED"}, expiresAt : Nat,
            order : OrderIds \union {None}, mode : Modes, days : Nat]
\* A request that is about to write an order.
InsertJobs == [at : {"insert"}, user : Users, plan : Plans, promo : BOOLEAN]
\* One that asks the provider about an order it found.
LookupJobs == [at : {"lookup"}, order : OrderIds, then : {Idle} \union InsertJobs]
\* One that makes a checkout link, or is about to save it.
LinkJobs == [at : {"checkout", "link"}, order : OrderIds]
\* One that is about to read the order it was told is paid.
ReadJobs == [at : {"read"}, order : OrderIds, revive : BOOLEAN, hook : Hooks \union {None}]
\* One that is about to claim an order, or has claimed it and grants.
ClaimJobs == [at : {"claim", "grant"}, order : OrderIds, hook : Hooks \union {None},
              from : SUBSET {"PENDING", "FAILED", "CANCELLED"}, user : Users, plan : Plans, days : Nat,
              mode : {"extend"}, source : Sources, promo : BOOLEAN]
\* A grant without an order.
GiftJobs == [at : {"grant"}, order : {None}, hook : {None}, user : Users, plan : Plans, days : Nat,
             mode : Modes, source : Sources, promo : {FALSE}]
\* A grant that has read the terms and is about to write its own.
WriteJobs == [at : {"write"}, order : OrderIds \union {None}, hook : Hooks \union {None}, user : Users,
              plan : Plans, days : Nat, mode : Modes, source : Sources, promo : BOOLEAN,
              rows : SUBSET Nat, start : Nat]
\* One that is about to record the promo code of an order.
RedeemJobs == [at : {"redeem"}, order : OrderIds, hook : Hooks \union {None}]
\* The monitor between its two passes.
RoundJobs == [at : {"expire", "downgrade"}, users : SUBSET Users]
\* The monitor about to write the allowance it computed.
LowerJobs == [at : {"lower"}, user : Users, devices : {1, 2, 3}, users : SUBSET Users]
\* What a request or the monitor may be doing.
Jobs == {Idle} \union InsertJobs \union LookupJobs \union LinkJobs \union ReadJobs \union ClaimJobs
          \union GiftJobs \union WriteJobs \union RedeemJobs \union RoundJobs \union LowerJobs

\* The variables have their types.
Typed ==
    /\ TypeOK /\ now \in 0 .. MaxTime /\ offer \in [on : BOOLEAN, days : Nat]
    /\ subs \in Seq(SubRows) /\ \A i \in DOMAIN subs : subs[i].tier = Tier(subs[i].plan)
    /\ req \in [Workers -> Jobs]

\* What a request carries, by the call it makes next.
LEMMA JobOf ==
    ASSUME Typed, NEW r \in Workers
    PROVE  /\ req[r] \in Jobs
           /\ req[r].at = "insert" => req[r] \in InsertJobs
           /\ req[r].at = "lookup" => req[r] \in LookupJobs
           /\ req[r].at \in {"checkout", "link"} => req[r] \in LinkJobs
           /\ req[r].at = "read" => req[r] \in ReadJobs
           /\ req[r].at = "claim" => req[r] \in ClaimJobs
           /\ req[r].at = "grant" => req[r] \in ClaimJobs \union GiftJobs
           /\ req[r].at = "write" => req[r] \in WriteJobs
           /\ req[r].at = "redeem" => req[r] \in RedeemJobs
           /\ req[r].at \in {"expire", "downgrade"} => req[r] \in RoundJobs
           /\ req[r].at = "lower" => req[r] \in LowerJobs
<1>1. req[r] \in Jobs BY DEF Typed
<1>2. CASE req[r] = Idle BY <1>1, <1>2 DEF Idle
<1>3. CASE req[r] \in InsertJobs \union LookupJobs \union LinkJobs \union ReadJobs
  BY <1>1, <1>3 DEF InsertJobs, LookupJobs, LinkJobs, ReadJobs
<1>4. CASE req[r] \in ClaimJobs \union GiftJobs \union WriteJobs
  BY <1>1, <1>4 DEF ClaimJobs, GiftJobs, WriteJobs
<1>5. CASE req[r] \in RedeemJobs \union RoundJobs \union LowerJobs
  BY <1>1, <1>5 DEF RedeemJobs, RoundJobs, LowerJobs
<1>6. QED BY <1>1, <1>2, <1>3, <1>4, <1>5 DEF Jobs

-----------------------------------------------------------------------------
\* An order that was paid, refunded since or not.
Taken(o) == order[o] # None /\ order[o].status \in {"PAID", "REFUNDED"}
\* Request r is sending the customer of o to pay; it is about to write what o paid for.
Making(r, o) == req[r].at \in {"checkout", "link"} /\ req[r].order = o
\* A worker is granting this order.
Granting(r, o) == req[r].at \in {"grant", "write"} /\ req[r].order = o

\* Only who was sent to a payment page can have paid, or an administrator says so.
Payable(o) == order[o] # None /\ (order[o].link \/ "admin" \in Events)

\* Only an order can be paid, and only after its link was saved.
PaymentFits(o) == /\ payment[o] # "NONE" => order[o] # None
                  /\ payment[o] = "SUCCESS" => order[o].link
\* A hook is about an order, and tells of success only when it had a link.
HookFits(h) == order[h.order] # None /\ (h.status = "SUCCESS" => order[h.order].link)
\* An order whose money was taken is payable, one that was granted was taken, and one that is
\* PAID is granted or somebody is granting it.
OrderFits(o) ==
    /\ Taken(o) => Payable(o)
    /\ Granted(o) => Taken(o)
    /\ Paid(o) => Granted(o) \/ \E r \in Requests : Granting(r, o)
\* What a worker has read of its order still holds when it acts on it.
JobFits(r) ==
    LET j == req[r] IN
    /\ j.at = "lookup" => order[j.order] # None
    /\ j.at \in {"checkout", "link"} => order[j.order] # None /\ ~order[j.order].link
    /\ j.at \in {"read", "claim"} => Payable(j.order)
    /\ j.at \in {"grant", "write"} /\ j.order # None => Taken(j.order) /\ ~Granted(j.order)
    /\ j.at \in {"grant", "write"} /\ j.promo => j.order # None
    /\ j.at = "redeem" => Granted(j.order)
\* No two workers make the link of one order, nor grant one.
OrdersApart(q, r) == \A o \in OrderIds : ~(Making(q, o) /\ Making(r, o)) /\ ~(Granting(q, o) /\ Granting(r, o))

\* The part of the invariant about orders and money.
MoneyInv ==
    /\ \A o \in OrderIds : PaymentFits(o) /\ OrderFits(o)
    /\ \A h \in hooks : HookFits(h)
    /\ \A r \in Workers : JobFits(r)
    /\ \A q, r \in Workers : q # r => OrdersApart(q, r)
    /\ \A i, k \in DOMAIN subs : subs[i].order = subs[k].order /\ subs[i].order # None => i = k
    /\ \A o \in redeemed : Granted(o)

\* An allowance covers every running plan, not only the best of them; a request that is
\* about to write has read what still holds, because it is alone on the account.
Covered(u) == \A i \in RunningOf(u) : Devices[subs[i].plan] <= allowance[u]
\* What a worker has read of an account's terms still covers them when it writes.
ReadingFits(r) ==
    LET j == req[r] IN
    /\ j.at = "write" /\ j.mode = "extend" =>
         \A k \in RunningOf(j.user) : subs[k].tier <= Tier(j.plan) => subs[k].expiresAt <= j.start
    /\ j.at = "lower" => \A i \in RunningOf(j.user) : Devices[subs[i].plan] <= j.devices
\* No two workers write the terms of one account.
UsersApart(q, r) ==
    ~(req[q].at \in {"write", "lower"} /\ req[r].at \in {"write", "lower"} /\ req[q].user = req[r].user)

\* The part of the invariant about terms and allowances.
DeskInv ==
    /\ \A u \in Users : Covered(u)
    /\ \A r \in Workers : ReadingFits(r)
    /\ \A q, r \in Workers : q # r => UsersApart(q, r)

\* The inductive invariant of billing.
OrdersInv == Typed /\ MoneyInv /\ DeskInv

\* Nothing is ordered yet.
LEMMA OrdersInitial == Init => OrdersInv
<1> SUFFICES ASSUME Init PROVE OrdersInv OBVIOUS
<1>1. subs = << >> /\ DOMAIN subs = {} BY DEF Init
<1>2. \A r \in Workers : req[r] = Idle /\ req[r].at = "idle" BY DEF Init, Idle
<1>3. req \in [Workers -> Jobs] BY DEF Init, Jobs
<1>4. subs \in Seq(SubRows) BY <1>1
<1>5. 1 \in {Devices[p] : p \in DOMAIN Devices} /\ Devices["free"] = 1
  <2>1. "free" \in DOMAIN Devices /\ Devices["free"] = 1 BY DEF Devices
  <2>2. QED BY <2>1
<1>6. allowance \in [Users -> {Devices[p] : p \in DOMAIN Devices}] BY <1>5 DEF Init
<1>7. now \in 0 .. MaxTime /\ offer \in [on : BOOLEAN, days : Nat] BY OrdersAssumption DEF Init, OrdersAssumption
<1>8. TypeOK BY <1>1, <1>6 DEF Init, TypeOK
<1>9. Typed BY <1>1, <1>3, <1>4, <1>7, <1>8 DEF Typed
<1>10. MoneyInv
  <2>1. \A o \in OrderIds : order[o] = None /\ payment[o] = "NONE" BY DEF Init
  <2>2. \A o \in OrderIds : ~Granted(o) BY <1>1 DEF Granted
  <2>3. \A o \in OrderIds : PaymentFits(o) /\ OrderFits(o)
    BY <2>1, <2>2 DEF PaymentFits, OrderFits, Taken, Paid
  <2>4. \A r \in Workers : JobFits(r) BY <1>2 DEF JobFits
  <2>5. \A q, r \in Workers : OrdersApart(q, r) BY <1>2 DEF OrdersApart, Making, Granting
  <2>6. hooks = {} /\ redeemed = {} BY DEF Init
  <2>7. QED BY <1>1, <2>3, <2>4, <2>5, <2>6 DEF MoneyInv
<1>11. DeskInv
  <2>1. \A u \in Users : RunningOf(u) = {} BY <1>1 DEF RunningOf
  <2>2. QED BY <1>2, <2>1 DEF DeskInv, Covered, ReadingFits, UsersApart
<1>12. QED BY <1>9, <1>10, <1>11 DEF OrdersInv

-----------------------------------------------------------------------------
\* Every subscription is a row of its table.
LEMMA RowOf ==
    ASSUME Typed
    PROVE  /\ Len(subs) \in Nat /\ DOMAIN subs = 1 .. Len(subs)
           /\ \A i \in DOMAIN subs : subs[i] \in SubRows /\ subs[i].tier = Tier(subs[i].plan)
<1>1. subs \in Seq(SubRows) BY DEF Typed
<1>2. Len(subs) \in Nat /\ DOMAIN subs = 1 .. Len(subs) BY <1>1
<1>3. \A i \in DOMAIN subs : subs[i] \in SubRows BY <1>1, <1>2
<1>4. QED BY <1>2, <1>3 DEF Typed

\* Rows may end, time may pass, and requests may go on: what was read still holds.
LEMMA DeskStill ==
    ASSUME Typed, DeskInv, DOMAIN subs' = DOMAIN subs,
           \A i \in DOMAIN subs :
               /\ subs'[i].user = subs[i].user /\ subs'[i].plan = subs[i].plan /\ subs'[i].tier = subs[i].tier
               /\ subs'[i].expiresAt = subs[i].expiresAt
               /\ subs'[i].status = "ACTIVE" => subs[i].status = "ACTIVE",
           allowance' = allowance, now' \in Nat, now' >= now,
           \A r \in Workers : req'[r] = req[r] \/ req'[r].at \notin {"write", "lower"}
    PROVE  DeskInv'
<1>1. now \in Nat BY OrdersAssumption DEF Typed, OrdersAssumption
<1>2. \A i \in DOMAIN subs : subs[i].expiresAt \in Nat BY RowOf DEF SubRows
<1>3. ASSUME NEW u PROVE (RunningOf(u))' \subseteq RunningOf(u)
  <2>1. SUFFICES ASSUME NEW i \in DOMAIN subs, subs'[i].user = u, Running(i)' PROVE i \in RunningOf(u)
    BY DEF RunningOf
  <2>2. subs[i].status = "ACTIVE" /\ subs[i].user = u BY <2>1 DEF Running
  <2>3. subs[i].expiresAt > now' BY <2>1 DEF Running
  <2>4. subs[i].expiresAt > now BY <1>1, <1>2, <2>3
  <2>5. QED BY <2>2, <2>4 DEF RunningOf, Running
<1>4. ASSUME NEW u, NEW i \in (RunningOf(u))'
      PROVE  i \in RunningOf(u) /\ subs'[i].plan = subs[i].plan /\ subs'[i].tier = subs[i].tier
             /\ subs'[i].expiresAt = subs[i].expiresAt
  BY <1>3 DEF RunningOf
<1>5. \A u \in Users : Covered(u)' BY <1>4 DEF DeskInv, Covered
<1>6. ASSUME NEW r \in Workers PROVE ReadingFits(r)'
  <2>1. CASE req'[r].at \notin {"write", "lower"} BY <2>1 DEF ReadingFits
  <2>2. CASE req'[r] = req[r] BY <1>4, <2>2 DEF DeskInv, ReadingFits
  <2>3. QED BY <2>1, <2>2
<1>7. \A q, r \in Workers : q # r => UsersApart(q, r)' BY DEF DeskInv, UsersApart
<1>8. QED BY <1>5, <1>6, <1>7 DEF DeskInv

\* The same where neither the rows nor the clock move.
LEMMA DeskQuiet ==
    ASSUME Typed, DeskInv, subs' = subs, allowance' = allowance, now' = now,
           \A r \in Workers : req'[r] = req[r] \/ req'[r].at \notin {"write", "lower"}
    PROVE  DeskInv'
<1>1. now \in Nat BY OrdersAssumption DEF Typed, OrdersAssumption
<1>2. now' \in Nat /\ now' >= now BY <1>1
<1>3. QED BY <1>2, DeskStill

-----------------------------------------------------------------------------
\* How a step of worker w, or of none of them, may change order o: what is paid stays paid, becomes so only
\* with a grant to follow, and a payment page appears only where w was making it.
OrderSteps(o, w) ==
    /\ order[o] # None => order'[o] # None /\ (order[o].link => order'[o].link)
    /\ order'[o] # None /\ order'[o].link /\ order[o] # None => order[o].link \/ (w \in Workers /\ Making(w, o))
    /\ order'[o] # None /\ order[o] = None => ~order'[o].link
    /\ Taken(o) => Taken(o)'
    /\ Taken(o)' => Taken(o) \/ Payable(o)'
    /\ Paid(o)' => Paid(o) \/ \E r \in Requests : Granting(r, o)'
\* What a worker's step may do to one order: begin to make the link of an order that was not
\* there, begin to grant what was not taken, and not forget a grant.
WorkerSteps(w, o) ==
    /\ Making(w, o)' => Making(w, o) \/ order[o] = None
    /\ Granting(w, o)' => Granting(w, o) \/ ~Taken(o)
    /\ Granting(w, o) => Granting(w, o)'

\* A step of one worker that begins and ends like that keeps the part about money.
LEMMA MoneyStep ==
    ASSUME Typed, MoneyInv, Typed', NEW w,
           \A q \in Workers \ {w} : req'[q] = req[q],
           w \in Workers => JobFits(w)' /\ \A o \in OrderIds : WorkerSteps(w, o),
           \A o \in OrderIds : OrderSteps(o, w),
           DOMAIN subs' = DOMAIN subs, \A i \in DOMAIN subs : subs'[i].order = subs[i].order,
           \A o \in redeemed' : o \in redeemed \/ Granted(o),
           \A o \in OrderIds : payment'[o] = payment[o] \/ PaymentFits(o)',
           \A h \in hooks' : h \in hooks \/ HookFits(h)'
    PROVE  MoneyInv'
<1>1. \A o : Granted(o)' <=> Granted(o) BY DEF Granted
<1>2. ASSUME NEW o \in OrderIds PROVE PaymentFits(o)'
  BY DEF MoneyInv, PaymentFits, OrderSteps
<1>3. \A o \in OrderIds : Payable(o) => Payable(o)' BY DEF OrderSteps, Payable
<1>4. ASSUME NEW o \in OrderIds PROVE OrderFits(o)'
  <2>1. Taken(o)' => Payable(o)' BY <1>3 DEF OrderSteps, MoneyInv, OrderFits
  <2>2. Granted(o)' => Taken(o)' BY <1>1 DEF OrderSteps, MoneyInv, OrderFits
  <2>3. Paid(o)' => Granted(o)' \/ \E r \in Requests : Granting(r, o)'
    <3>1. ASSUME NEW r \in Requests, Granting(r, o) PROVE Granting(r, o)'
      <4>1. CASE r = w BY <3>1, <4>1 DEF WorkerSteps, Workers
      <4>2. CASE r # w BY <3>1, <4>2 DEF Granting, Workers
      <4>3. QED BY <4>1, <4>2
    <3>2. QED BY <1>1, <3>1 DEF OrderSteps, MoneyInv, OrderFits
  <2>4. QED BY <2>1, <2>2, <2>3 DEF OrderFits
<1>5. ASSUME NEW h \in hooks' PROVE HookFits(h)'
  <2>1. CASE h \in hooks
    <3>1. h.order \in OrderIds BY <2>1 DEF Typed, TypeOK
    <3>2. HookFits(h) BY <2>1 DEF MoneyInv
    <3>3. QED BY <3>1, <3>2 DEF HookFits, OrderSteps
  <2>2. QED BY <2>1
<1>6. ASSUME NEW r \in Workers, r # w PROVE JobFits(r)'
  <2>1. req'[r] = req[r] /\ JobFits(r) BY <1>6 DEF MoneyInv
  <2>2. req[r].at = "lookup" => req[r].order \in OrderIds BY JobOf DEF LookupJobs
  <2>3. req[r].at \in {"checkout", "link"} => req[r].order \in OrderIds BY JobOf DEF LinkJobs
  <2>4. req[r].at \in {"read", "claim"} => req[r].order \in OrderIds BY JobOf DEF ReadJobs, ClaimJobs
  <2>5. req[r].at \in {"grant", "write"} => req[r].order \in OrderIds \union {None}
    BY JobOf DEF ClaimJobs, GiftJobs, WriteJobs
  <2>6. ASSUME NEW o \in OrderIds, Making(r, o), order[o] # None /\ ~order[o].link
        PROVE  order'[o] # None /\ ~order'[o].link
    BY <1>6, <2>6 DEF OrderSteps, MoneyInv, OrdersApart
  <2>7. req[r].at = "lookup" => order'[req[r].order] # None BY <2>1, <2>2 DEF JobFits, OrderSteps
  <2>8. req[r].at \in {"checkout", "link"} => order'[req[r].order] # None /\ ~order'[req[r].order].link
    BY <2>1, <2>3, <2>6 DEF JobFits, Making
  <2>9. ASSUME req[r].at \in {"read", "claim"} PROVE order'[req[r].order] # None /\ (order'[req[r].order].link \/ "admin" \in Events)
    BY <1>3, <2>1, <2>4, <2>9 DEF JobFits, Payable
  <2>10. ASSUME NEW o \in OrderIds, Granting(r, o) PROVE Taken(o)' /\ ~Granted(o)'
    BY <1>1, <2>1, <2>10, OrdersAssumption DEF JobFits, OrderSteps, Granting, OrdersAssumption
  <2>11. QED
    BY <1>1, <2>1, <2>5, <2>7, <2>8, <2>9, <2>10 DEF JobFits, Granting, Taken, Payable
<1>7. ASSUME NEW q \in Workers, NEW r \in Workers, q # r PROVE OrdersApart(q, r)'
  <2>1. ASSUME NEW o \in OrderIds, NEW p \in Workers, p # w, w \in Workers
        PROVE  /\ ~(Making(w, o)' /\ Making(p, o)') /\ ~(Granting(w, o)' /\ Granting(p, o)')
    <3>1. req'[p] = req[p] /\ OrdersApart(w, p) /\ JobFits(p) /\ WorkerSteps(w, o) BY <2>1 DEF MoneyInv
    <3>2. Making(p, o) => order[o] # None BY <3>1 DEF JobFits, Making
    <3>3. Granting(p, o) => Taken(o) BY <3>1, OrdersAssumption DEF JobFits, Granting, OrdersAssumption
    <3>4. (Making(p, o)' <=> Making(p, o)) /\ (Granting(p, o)' <=> Granting(p, o)) BY <3>1 DEF Making, Granting
    <3>5. QED BY <3>1, <3>2, <3>3, <3>4 DEF OrdersApart, WorkerSteps
  <2>2. CASE q # w /\ r # w
    <3>1. req'[q] = req[q] /\ req'[r] = req[r] /\ OrdersApart(q, r) BY <1>7, <2>2 DEF MoneyInv
    <3>2. QED BY <3>1 DEF OrdersApart, Making, Granting
  <2>3. CASE q = w BY <1>7, <2>1, <2>3 DEF OrdersApart
  <2>4. CASE r = w BY <1>7, <2>1, <2>4 DEF OrdersApart
  <2>5. QED BY <2>2, <2>3, <2>4
<1>8. \A o \in redeemed' : Granted(o)' BY <1>1 DEF MoneyInv
<1>9. \A i, k \in DOMAIN subs' : subs'[i].order = subs'[k].order /\ subs'[i].order # None => i = k
  BY DEF MoneyInv
<1>10. QED BY <1>2, <1>4, <1>5, <1>6, <1>7, <1>8, <1>9 DEF MoneyInv

\* The same where the orders stay as they are.
LEMMA MoneyQuiet ==
    ASSUME Typed, MoneyInv, Typed', NEW w,
           \A q \in Workers \ {w} : req'[q] = req[q],
           w \in Workers => JobFits(w)' /\ \A o \in OrderIds : WorkerSteps(w, o),
           order' = order, DOMAIN subs' = DOMAIN subs, \A i \in DOMAIN subs : subs'[i].order = subs[i].order,
           \A o \in redeemed' : o \in redeemed \/ Granted(o),
           \A o \in OrderIds : payment'[o] = payment[o] \/ PaymentFits(o)',
           \A h \in hooks' : h \in hooks \/ HookFits(h)'
    PROVE  MoneyInv'
<1>1. \A o \in OrderIds : OrderSteps(o, w) BY DEF OrderSteps, Taken, Paid, MoneyInv, OrderFits
<1>2. QED BY <1>1, MoneyStep

-----------------------------------------------------------------------------
\* A request makes its next call.
LEMMA Goes ==
    ASSUME Typed, NEW r \in Workers, NEW job \in Jobs, Proceed(r, job)
    PROVE  /\ req' \in [Workers -> Jobs] /\ req'[r] = job
           /\ \A q \in Workers \ {r} : req'[q] = req[q]
BY DEF Typed, Proceed

\* A request that is done, or has yet to touch an order, and had none to grant.
LEMMA FreeJob ==
    ASSUME NEW r, req'[r].at \in {"idle", "insert", "expire", "downgrade", "lower"},
           req[r].at \in {"grant", "write"} => req[r].order \notin OrderIds
    PROVE  JobFits(r)' /\ \A o \in OrderIds : WorkerSteps(r, o)
BY DEF JobFits, WorkerSteps, Making, Granting

\* A step that leaves the requests alone is none of a worker's.
LEMMA Nobody == \E w : w \notin Workers
BY NoSetContainsEverything

\* A step that only moves workers keeps the types.
LEMMA TypedQuiet ==
    ASSUME Typed, subs' = subs, allowance' = allowance, redeemed' = redeemed, offer' = offer, now' = now,
           gateway' = gateway, order' = order, payment' = payment, hooks' \subseteq hooks,
           req' \in [Workers -> Jobs]
    PROVE  Typed'
BY DEF Typed, TypeOK

\* createOrder, claimTrial and the reconciliation: a request that is idle begins.
LEMMA BeginFits ==
    ASSUME OrdersInv, NEW r \in Workers, req[r] = Idle,
           UNCHANGED <<gateway, order, payment, hooks, desk>>,
           NEW job \in InsertJobs \union LookupJobs, Proceed(r, job),
           job.at = "lookup" => order[job.order] # None
    PROVE  OrdersInv'
<1>1. job \in Jobs BY DEF Jobs
<1>2. /\ req' \in [Workers -> Jobs] /\ req'[r] = job /\ \A q \in Workers \ {r} : req'[q] = req[q]
  BY <1>1, Goes DEF OrdersInv
<1>3. job.at \in {"insert", "lookup"} BY DEF InsertJobs, LookupJobs
<1>4. req[r].at = "idle" BY DEF Idle
<1>5. Typed' BY <1>2, TypedQuiet DEF OrdersInv, desk
<1>6. JobFits(r)' BY <1>2, <1>3 DEF JobFits
<1>7. \A o \in OrderIds : WorkerSteps(r, o) BY <1>2, <1>3, <1>4 DEF WorkerSteps, Making, Granting
<1>8. MoneyInv' BY <1>2, <1>5, <1>6, <1>7, MoneyQuiet DEF OrdersInv, desk
<1>9. DeskInv' BY <1>2, <1>3, DeskQuiet DEF OrdersInv, desk
<1>10. QED BY <1>5, <1>8, <1>9 DEF OrdersInv

\* Looking for an open order keeps the invariant.
LEMMA FindOpenFits ==
    ASSUME OrdersInv, NEW r \in Requests, NEW u \in Users, NEW p \in Plans, NEW promo \in BOOLEAN,
           FindOpen(r, u, p, promo)
    PROVE  OrdersInv'
<1>1. r \in Workers /\ req[r] = Idle /\ UNCHANGED <<gateway, order, payment, hooks, desk>>
  BY DEF FindOpen, Workers
<1>2. InsertJob(u, p, promo) \in InsertJobs BY DEF InsertJob, InsertJobs
<1>3. ASSUME NEW o \in OpenOrders(u, p, promo)
      PROVE  LET j == [at |-> "lookup", order |-> o, then |-> InsertJob(u, p, promo)]
             IN  j \in LookupJobs /\ j.order = o /\ order[o] # None
  BY <1>2 DEF OpenOrders, LookupJobs
<1>4. CASE Proceed(r, InsertJob(u, p, promo))
  <2>1. InsertJob(u, p, promo).at = "insert" BY DEF InsertJob
  <2>2. QED BY <1>1, <1>2, <1>4, <2>1, BeginFits
<1>5. CASE \E o \in OpenOrders(u, p, promo) :
               Proceed(r, [at |-> "lookup", order |-> o, then |-> InsertJob(u, p, promo)])
  <2>1. PICK o \in OpenOrders(u, p, promo) :
                 Proceed(r, [at |-> "lookup", order |-> o, then |-> InsertJob(u, p, promo)])
    BY <1>5
  <2>2. PICK job \in LookupJobs : Proceed(r, job) /\ order[job.order] # None BY <1>3, <2>1
  <2>3. QED BY <1>1, <2>2, BeginFits
<1>6. QED BY <1>4, <1>5 DEF FindOpen

\* Asking for an order's state keeps the invariant.
LEMMA SyncFits == ASSUME OrdersInv, NEW r \in Requests, NEW o \in OrderIds, Sync(r, o) PROVE OrdersInv'
<1>1. r \in Workers /\ req[r] = Idle /\ UNCHANGED <<gateway, order, payment, hooks, desk>> /\ order[o] # None
  BY DEF Sync, Workers
<1>2. Proceed(r, [at |-> "lookup", order |-> o, then |-> Idle]) BY DEF Sync
<1>3. PICK job \in LookupJobs : Proceed(r, job) /\ job.order = o BY <1>2 DEF LookupJobs
<1>4. QED BY <1>1, <1>3, BeginFits

-----------------------------------------------------------------------------
\* A request ends; a webhook may be acknowledged with it.
LEMMA EndFits ==
    ASSUME OrdersInv, NEW r \in Workers, req[r].at \notin {"grant", "write"}, Proceed(r, Idle),
           UNCHANGED <<gateway, order, payment, desk>>, hooks' \subseteq hooks
    PROVE  OrdersInv'
<1>1. Idle \in Jobs /\ Idle.at = "idle" BY DEF Jobs, Idle
<1>2. /\ req' \in [Workers -> Jobs] /\ req'[r] = Idle /\ \A q \in Workers \ {r} : req'[q] = req[q]
  BY <1>1, Goes DEF OrdersInv
<1>3. Typed' BY <1>2, TypedQuiet DEF OrdersInv, desk
<1>4. JobFits(r)' /\ \A o \in OrderIds : WorkerSteps(r, o) BY <1>1, <1>2, FreeJob
<1>5. MoneyInv' BY <1>2, <1>3, <1>4, MoneyQuiet DEF OrdersInv, desk
<1>6. DeskInv' BY <1>1, <1>2, DeskQuiet DEF OrdersInv, desk
<1>7. QED BY <1>3, <1>5, <1>6 DEF OrdersInv

\* A request is about to read an order that can have been paid.
LEMMA ReadFits ==
    ASSUME OrdersInv, NEW r \in Workers, req[r].at \notin {"grant", "write"}, NEW job \in ReadJobs,
           Proceed(r, job), Payable(job.order), UNCHANGED <<gateway, order, payment, hooks, desk>>
    PROVE  OrdersInv'
<1>1. job \in Jobs /\ job.at = "read" BY DEF Jobs, ReadJobs
<1>2. /\ req' \in [Workers -> Jobs] /\ req'[r] = job /\ \A q \in Workers \ {r} : req'[q] = req[q]
  BY <1>1, Goes DEF OrdersInv
<1>3. Typed' BY <1>2, TypedQuiet DEF OrdersInv, desk
<1>4. JobFits(r)' BY <1>1, <1>2 DEF JobFits, Payable
<1>5. \A o \in OrderIds : WorkerSteps(r, o) BY <1>1, <1>2 DEF WorkerSteps, Making, Granting
<1>6. MoneyInv' BY <1>2, <1>3, <1>4, <1>5, MoneyQuiet DEF OrdersInv, desk
<1>7. DeskInv' BY <1>1, <1>2, DeskQuiet DEF OrdersInv, desk
<1>8. QED BY <1>3, <1>6, <1>7 DEF OrdersInv

\* Order o gets status s: never from paid to unpaid, and to paid with a grant to follow.
LEMMA StatusSteps ==
    ASSUME Typed, MoneyInv, NEW o \in OrderIds, order[o] # None, NEW s \in Statuses,
           order' = [order EXCEPT ![o].status = s],
           Taken(o) => s \in {"PAID", "REFUNDED"},
           s \in {"PAID", "REFUNDED"} => Payable(o),
           s = "PAID" => Paid(o) \/ \E r \in Requests : Granting(r, o)'
    PROVE  /\ order' \in [OrderIds -> {None} \union OrderRows]
           /\ order'[o] # None /\ order'[o].status = s /\ order'[o].link = order[o].link
           /\ \A x \in OrderIds \ {o} : order'[x] = order[x]
           /\ \A w : \A x \in OrderIds : OrderSteps(x, w)
<1>1. order \in [OrderIds -> {None} \union OrderRows] /\ order[o] \in OrderRows BY DEF Typed, TypeOK
<1>2. \A row \in OrderRows : LET k == [row EXCEPT !.status = s]
                             IN  k \in OrderRows /\ k.status = s /\ k.link = row.link
  BY DEF OrderRows
<1> DEFINE new == [order[o] EXCEPT !.status = s]
<1>3. new \in OrderRows /\ new.status = s /\ new.link = order[o].link BY <1>1, <1>2
<1>4. order' = [order EXCEPT ![o] = new] BY <1>1
<1> HIDE DEF new
<1>5. /\ order' \in [OrderIds -> {None} \union OrderRows] /\ order'[o] = new
      /\ \A x \in OrderIds \ {o} : order'[x] = order[x]
  BY <1>1, <1>3, <1>4
<1>6. new # None BY <1>3, OrdersAssumption DEF OrdersAssumption
<1>7. ASSUME NEW w PROVE OrderSteps(o, w)
  BY <1>3, <1>5, <1>6 DEF OrderSteps, Taken, Paid, Payable
<1>8. ASSUME NEW w, NEW x \in OrderIds \ {o} PROVE OrderSteps(x, w)
  BY <1>5 DEF OrderSteps, Taken, Paid, Payable, MoneyInv, OrderFits
<1>9. QED BY <1>3, <1>5, <1>6, <1>7, <1>8

\* A final status of the gateway settles an order without taking back a payment.
LEMMA SettledSteps ==
    ASSUME Typed, MoneyInv, NEW o \in OrderIds, order[o] # None, NEW s, order' = Settled(o, s)
    PROVE  /\ order' \in [OrderIds -> {None} \union OrderRows]
           /\ \A w : \A x \in OrderIds : OrderSteps(x, w)
<1>1. order[o] \in OrderRows /\ order[o].status \in Statuses BY DEF Typed, TypeOK, OrderRows
<1>2. PICK to \in Statuses :
          /\ order' = [order EXCEPT ![o].status = to]
          /\ to = order[o].status \/ (order[o].status = "PENDING" /\ to \in {"FAILED", "CANCELLED"})
               \/ (order[o].status = "PAID" /\ to = "REFUNDED")
  BY <1>1 DEF Settled, Statuses
<1>3. Taken(o) => to \in {"PAID", "REFUNDED"} BY <1>2 DEF Taken
<1>4. to \in {"PAID", "REFUNDED"} => Payable(o) BY <1>2 DEF MoneyInv, OrderFits, Taken
<1>5. to = "PAID" => Paid(o) BY <1>2 DEF Paid
<1>6. QED BY <1>2, <1>3, <1>4, <1>5, StatusSteps

\* An order is settled while a request goes on, or while none does.
LEMMA SettleFits ==
    ASSUME OrdersInv, NEW o \in OrderIds, order[o] # None, NEW s, order' = Settled(o, s),
           UNCHANGED <<gateway, payment, desk>>, hooks' \subseteq hooks,
           NEW w, req' \in [Workers -> Jobs], \A q \in Workers \ {w} : req'[q] = req[q],
           w \in Workers => /\ req'[w].at \in {"idle", "insert"}
                            /\ req[w].at \notin {"grant", "write"}
    PROVE  OrdersInv'
<1>1. order' \in [OrderIds -> {None} \union OrderRows] /\ \A x \in OrderIds : OrderSteps(x, w)
  BY SettledSteps DEF OrdersInv
<1>2. Typed' BY <1>1 DEF OrdersInv, Typed, TypeOK, desk
<1>3. w \in Workers => JobFits(w)' /\ \A x \in OrderIds : WorkerSteps(w, x) BY FreeJob
<1>4. MoneyInv' BY <1>1, <1>2, <1>3, MoneyStep DEF OrdersInv, desk
<1>5. DeskInv' BY DeskQuiet DEF OrdersInv, desk
<1>6. QED BY <1>2, <1>4, <1>5 DEF OrdersInv

\* The provider's answer keeps the invariant.
LEMMA LookUpFits == ASSUME OrdersInv, NEW r \in Requests, LookUp(r) PROVE OrdersInv'
<1>1. r \in Workers /\ req[r].at = "lookup" /\ UNCHANGED <<gateway, payment, hooks, desk>>
  BY DEF LookUp, Workers
<1>2. req[r] \in LookupJobs BY <1>1, JobOf DEF OrdersInv
<1>3. PICK o \in OrderIds : o = req[r].order BY <1>2 DEF LookupJobs
<1>4. order[o] # None BY <1>1, <1>3 DEF OrdersInv, MoneyInv, JobFits
<1>5. CASE Proceed(r, Idle) /\ order' = order BY <1>1, <1>5, EndFits
<1>6. CASE payment[o] = "SUCCESS" /\ order' = order
           /\ Proceed(r, [at |-> "read", order |-> o, revive |-> TRUE, hook |-> None])
  <2> DEFINE job == [at |-> "read", order |-> o, revive |-> TRUE, hook |-> None]
  <2>1. job \in ReadJobs /\ Proceed(r, job) /\ job.order = o BY <1>6 DEF ReadJobs
  <2> HIDE DEF job
  <2>2. Payable(o) BY <1>4, <1>6 DEF OrdersInv, MoneyInv, PaymentFits, Payable
  <2>3. QED BY <1>1, <1>6, <2>1, <2>2, ReadFits
<1>7. CASE order' = Settled(o, payment[o]) /\ Proceed(r, req[r].then)
  <2>1. PICK job \in {Idle} \union InsertJobs : Proceed(r, job) BY <1>2, <1>7 DEF LookupJobs
  <2>2. job \in Jobs /\ job.at \in {"idle", "insert"} BY DEF Jobs, Idle, InsertJobs
  <2>3. /\ req' \in [Workers -> Jobs] /\ req'[r] = job /\ \A q \in Workers \ {r} : req'[q] = req[q]
    BY <1>1, <2>1, <2>2, Goes DEF OrdersInv
  <2>4. QED BY <1>1, <1>4, <1>7, <2>2, <2>3, SettleFits
<1>8. QED BY <1>3, <1>5, <1>6, <1>7 DEF LookUp

\* A hook keeps the invariant.
LEMMA DeliverFits == ASSUME OrdersInv, NEW r \in Requests, NEW h \in hooks, Deliver(r, h) PROVE OrdersInv'
<1>1. r \in Workers /\ req[r].at = "idle" /\ UNCHANGED <<gateway, payment, desk>> BY DEF Deliver, Workers, Idle
<1>2. h \in Hooks BY DEF OrdersInv, Typed, TypeOK, Hooks, Verdicts
<1>3. h.order \in OrderIds /\ order[h.order] # None /\ (h.status = "SUCCESS" => order[h.order].link)
  BY <1>2 DEF OrdersInv, MoneyInv, HookFits, Hooks
<1>4. CASE h.status = "SUCCESS"
  <2>1. /\ Proceed(r, [at |-> "read", order |-> h.order, revive |-> gateway = "tabpay", hook |-> h])
        /\ UNCHANGED <<order, hooks>>
    BY <1>4 DEF Deliver
  <2>2. (gateway = "tabpay") \in BOOLEAN OBVIOUS
  <2> DEFINE job == [at |-> "read", order |-> h.order, revive |-> gateway = "tabpay", hook |-> h]
  <2>3. job \in ReadJobs /\ Proceed(r, job) /\ job.order = h.order
    <3>1. \A x \in BOOLEAN : [at |-> "read", order |-> h.order, revive |-> x, hook |-> h] \in ReadJobs
      BY <1>2, <1>3 DEF ReadJobs
    <3>2. QED BY <2>1, <2>2, <3>1
  <2> HIDE DEF job
  <2>4. Payable(h.order) BY <1>3, <1>4 DEF Payable
  <2>5. QED BY <1>1, <2>1, <2>3, <2>4, ReadFits
<1>5. CASE h.status # "SUCCESS"
  <2>1. order' = Settled(h.order, h.status) /\ hooks' \subseteq hooks /\ req' = req
    BY <1>5 DEF Deliver, Acked
  <2>2. PICK w : w \notin Workers BY Nobody
  <2>3. req' \in [Workers -> Jobs] BY <2>1 DEF OrdersInv, Typed
  <2>4. QED BY <1>1, <1>3, <2>1, <2>2, <2>3, SettleFits
<1>6. QED BY <1>4, <1>5

-----------------------------------------------------------------------------
\* markOrderPaid reads the order, and will claim it if it is open, or may be revived.
LEMMA ReadOrderFits == ASSUME OrdersInv, NEW r \in Requests, ReadOrder(r) PROVE OrdersInv'
<1>1. r \in Workers /\ req[r].at = "read" /\ UNCHANGED <<gateway, order, payment, desk>>
  BY DEF ReadOrder, Workers
<1>2. req[r] \in ReadJobs BY <1>1, JobOf DEF OrdersInv
<1>3. PICK o \in OrderIds, h \in Hooks \union {None} : o = req[r].order /\ h = req[r].hook BY <1>2 DEF ReadJobs
<1>4. Payable(o) BY <1>1, <1>3 DEF OrdersInv, MoneyInv, JobFits
<1>5. CASE Proceed(r, Idle) /\ hooks' \subseteq hooks BY <1>1, <1>5, EndFits
<1>6. ASSUME hooks' = hooks, NEW F \in SUBSET {"PENDING", "FAILED", "CANCELLED"},
             Proceed(r, [at |-> "claim", order |-> o, hook |-> h, from |-> F,
                         user |-> order[o].user, plan |-> order[o].plan, days |-> Term(order[o].plan),
                         mode |-> "extend", source |-> IF order[o].source = "trial" THEN "trial" ELSE "order",
                         promo |-> order[o].promo])
      PROVE  OrdersInv'
  <2>1. PICK u \in Users, p \in Plans, promo \in BOOLEAN :
                 u = order[o].user /\ p = order[o].plan /\ promo = order[o].promo
    BY <1>4 DEF OrdersInv, Typed, TypeOK, OrderRows, Payable
  <2>2. PICK d \in Nat : d = Term(p) BY DEF Term, OrdersInv, Typed
  <2>3. PICK s \in Sources : s = IF order[o].source = "trial" THEN "trial" ELSE "order" BY DEF Sources
  <2> DEFINE job == [at |-> "claim", order |-> o, hook |-> h, from |-> F, user |-> u, plan |-> p, days |-> d,
                     mode |-> "extend", source |-> s, promo |-> promo]
  <2>4. job \in ClaimJobs /\ job.at = "claim" /\ job.order = o BY DEF ClaimJobs
  <2>5. Proceed(r, job) BY <1>6, <2>1, <2>2, <2>3
  <2> HIDE DEF job
  <2>6. job \in Jobs BY <2>4 DEF Jobs
  <2>7. /\ req' \in [Workers -> Jobs] /\ req'[r] = job /\ \A q \in Workers \ {r} : req'[q] = req[q]
    BY <1>1, <2>5, <2>6, Goes DEF OrdersInv
  <2>8. Typed' BY <1>1, <1>6, <2>7, TypedQuiet DEF OrdersInv, desk
  <2>9. JobFits(r)' BY <1>1, <1>4, <2>4, <2>7 DEF JobFits, Payable
  <2>10. \A x \in OrderIds : WorkerSteps(r, x) BY <1>1, <2>4, <2>7 DEF WorkerSteps, Making, Granting
  <2>11. MoneyInv' BY <1>1, <1>6, <2>7, <2>8, <2>9, <2>10, MoneyQuiet DEF OrdersInv, desk
  <2>12. DeskInv' BY <1>1, <2>4, <2>7, DeskQuiet DEF OrdersInv, desk
  <2>13. QED BY <2>8, <2>11, <2>12 DEF OrdersInv
<1> DEFINE revivable == req[r].revive /\ order[o].status \in GivenUp
           froms == IF revivable THEN {"PENDING"} \union GivenUp ELSE {"PENDING"}
<1>7. froms \in SUBSET {"PENDING", "FAILED", "CANCELLED"} BY DEF GivenUp
<1>8. \/ Finish(r) \/ (Proceed(r, Idle) /\ hooks' = hooks)
      \/ /\ hooks' = hooks
         /\ Proceed(r, [at |-> "claim", order |-> o, hook |-> h, from |-> froms,
                        user |-> order[o].user, plan |-> order[o].plan, days |-> Term(order[o].plan),
                        mode |-> "extend", source |-> IF order[o].source = "trial" THEN "trial" ELSE "order",
                        promo |-> order[o].promo])
  BY <1>3 DEF ReadOrder
<1> HIDE DEF froms
<1>9. QED BY <1>5, <1>6, <1>7, <1>8 DEF Finish, Acked

\* The claim: whoever finds the order still open marks it paid and grants.
LEMMA ClaimFits == ASSUME OrdersInv, NEW r \in Requests, Claim(r) PROVE OrdersInv'
<1>1. r \in Workers /\ req[r].at = "claim" /\ UNCHANGED <<gateway, payment, desk>> BY DEF Claim, Workers
<1>2. req[r] \in ClaimJobs BY <1>1, JobOf DEF OrdersInv
<1>3. PICK o \in OrderIds : o = req[r].order BY <1>2 DEF ClaimJobs
<1>4. Payable(o) BY <1>1, <1>3 DEF OrdersInv, MoneyInv, JobFits
<1>5. CASE ~Claimable(r)
  <2>1. order' = order /\ Proceed(r, Idle) /\ hooks' \subseteq hooks BY <1>5 DEF Claim, Finish, Acked
  <2>2. QED BY <1>1, <2>1, EndFits
<1>6. CASE Claimable(r)
  <2>1. /\ order' = [order EXCEPT ![o].status = "PAID"] /\ hooks' = hooks
        /\ Proceed(r, [req[r] EXCEPT !.at = "grant"])
    BY <1>3, <1>6 DEF Claim
  <2>2. ~Taken(o) /\ ~Granted(o)
    BY <1>2, <1>3, <1>6 DEF Claimable, ClaimJobs, Taken, OrdersInv, MoneyInv, OrderFits
  <2> DEFINE job == [req[r] EXCEPT !.at = "grant"]
  <2>3. job \in ClaimJobs /\ job.at = "grant" /\ job.order = o BY <1>2, <1>3 DEF ClaimJobs
  <2>4. Proceed(r, job) BY <2>1
  <2> HIDE DEF job
  <2>5. job \in Jobs BY <2>3 DEF Jobs
  <2>6. /\ req' \in [Workers -> Jobs] /\ req'[r] = job /\ \A q \in Workers \ {r} : req'[q] = req[q]
    BY <1>1, <2>4, <2>5, Goes DEF OrdersInv
  <2>7. Granting(r, o)' BY <2>3, <2>6 DEF Granting
  <2>8. order[o] # None BY <1>4 DEF Payable
  <2>9. /\ order' \in [OrderIds -> {None} \union OrderRows]
        /\ order'[o] # None /\ order'[o].status = "PAID"
        /\ \A w : \A x \in OrderIds : OrderSteps(x, w)
    BY <1>4, <2>1, <2>2, <2>7, <2>8, StatusSteps DEF OrdersInv, Statuses
  <2>10. Typed' BY <1>1, <2>1, <2>6, <2>9 DEF OrdersInv, Typed, TypeOK, desk
  <2>11. JobFits(r)'
    <3>1. Taken(o)' /\ ~Granted(o)' /\ o # None
      BY <1>1, <2>2, <2>9, OrdersAssumption DEF Taken, Granted, desk, OrdersAssumption
    <3>2. QED BY <2>3, <2>6, <3>1 DEF JobFits, Taken, Granted
  <2>12. \A x \in OrderIds : WorkerSteps(r, x)
    BY <1>1, <2>2, <2>3, <2>6 DEF WorkerSteps, Making, Granting
  <2>13. MoneyInv' BY <1>1, <2>1, <2>6, <2>9, <2>10, <2>11, <2>12, MoneyStep DEF OrdersInv, desk
  <2>14. DeskInv' BY <1>1, <2>3, <2>6, DeskQuiet DEF OrdersInv, desk
  <2>15. QED BY <2>10, <2>13, <2>14 DEF OrdersInv
<1>7. QED BY <1>5, <1>6

-----------------------------------------------------------------------------
\* The rest of createOrder: a row of its own, then the payment page.
LEMMA InsertFits == ASSUME OrdersInv, NEW r \in Requests, Insert(r) PROVE OrdersInv'
<1>1. r \in Workers /\ req[r].at = "insert" /\ UNCHANGED <<gateway, payment, hooks, desk>>
  BY DEF Insert, Workers
<1>2. req[r] \in InsertJobs BY <1>1, JobOf DEF OrdersInv
<1>3. PICK u \in Users, p \in Plans, promo \in BOOLEAN :
               u = req[r].user /\ p = req[r].plan /\ promo = req[r].promo
  BY <1>2 DEF InsertJobs
<1>4. CASE Proceed(r, Idle) /\ order' = order BY <1>1, <1>4, EndFits
<1>5. ASSUME NEW o \in OrderIds, order[o] = None, Proceed(r, [at |-> "checkout", order |-> o]),
             order' = [order EXCEPT ![o] = [status |-> "PENDING", user |-> u, plan |-> p, promo |-> promo,
                                            source |-> p, link |-> FALSE, born |-> now]]
      PROVE  OrdersInv'
  <2> DEFINE row == [status |-> "PENDING", user |-> u, plan |-> p, promo |-> promo,
                     source |-> p, link |-> FALSE, born |-> now]
             job == [at |-> "checkout", order |-> o]
  <2>1. now \in 0 .. MaxTime BY DEF OrdersInv, Typed
  <2>2. row \in OrderRows /\ row.status = "PENDING" /\ row.link = FALSE BY <2>1 DEF OrderRows, Statuses
  <2>3. job \in LinkJobs /\ job.at = "checkout" /\ job.order = o BY DEF LinkJobs
  <2>4. order' = [order EXCEPT ![o] = row] /\ Proceed(r, job) BY <1>5
  <2> HIDE DEF row, job
  <2>5. row # None BY <2>2, OrdersAssumption DEF OrdersAssumption
  <2>6. order \in [OrderIds -> {None} \union OrderRows] BY DEF OrdersInv, Typed, TypeOK
  <2>7. /\ order' \in [OrderIds -> {None} \union OrderRows] /\ order'[o] = row
        /\ \A x \in OrderIds \ {o} : order'[x] = order[x]
    BY <2>2, <2>4, <2>6
  <2>8. job \in Jobs BY <2>3 DEF Jobs
  <2>9. /\ req' \in [Workers -> Jobs] /\ req'[r] = job /\ \A q \in Workers \ {r} : req'[q] = req[q]
    BY <1>1, <2>4, <2>8, Goes DEF OrdersInv
  <2>10. Typed' BY <1>1, <2>7, <2>9 DEF OrdersInv, Typed, TypeOK, desk
  <2>11. JobFits(r)' BY <2>2, <2>3, <2>5, <2>7, <2>9 DEF JobFits
  <2>12. \A x \in OrderIds : WorkerSteps(r, x) BY <1>1, <1>5, <2>3, <2>9 DEF WorkerSteps, Making, Granting
  <2>13. OrderSteps(o, r) BY <1>5, <2>2, <2>7 DEF OrderSteps, Taken, Paid
  <2>14. \A x \in OrderIds \ {o} : OrderSteps(x, r)
    BY <2>7 DEF OrderSteps, Taken, Paid, Payable, OrdersInv, MoneyInv, OrderFits
  <2>15. MoneyInv' BY <1>1, <2>9, <2>10, <2>11, <2>12, <2>13, <2>14, MoneyStep DEF OrdersInv, desk
  <2>16. DeskInv' BY <1>1, <2>3, <2>9, DeskQuiet DEF OrdersInv, desk
  <2>17. QED BY <2>10, <2>15, <2>16 DEF OrdersInv
<1>6. QED BY <1>3, <1>4, <1>5 DEF Insert

\* Making the checkout keeps the invariant.
LEMMA CheckoutFits == ASSUME OrdersInv, NEW r \in Requests, Checkout(r) PROVE OrdersInv'
<1>1. r \in Workers /\ req[r].at = "checkout" /\ UNCHANGED <<gateway, order, hooks, desk>>
  BY DEF Checkout, Workers
<1>2. req[r] \in LinkJobs BY <1>1, JobOf DEF OrdersInv
<1>3. PICK o \in OrderIds : o = req[r].order BY <1>2 DEF LinkJobs
<1>4. order[o] # None /\ ~order[o].link BY <1>1, <1>3 DEF OrdersInv, MoneyInv, JobFits
<1> DEFINE job == [req[r] EXCEPT !.at = "link"]
<1>5. job \in LinkJobs /\ job.at = "link" /\ job.order = o BY <1>2, <1>3 DEF LinkJobs
<1>6. Proceed(r, job) BY DEF Checkout
<1> HIDE DEF job
<1>7. job \in Jobs BY <1>5 DEF Jobs
<1>8. /\ req' \in [Workers -> Jobs] /\ req'[r] = job /\ \A q \in Workers \ {r} : req'[q] = req[q]
  BY <1>1, <1>6, <1>7, Goes DEF OrdersInv
<1>9. payment' = payment \/ payment' = [payment EXCEPT ![o] = "CREATED"] BY <1>3 DEF Checkout
<1>10. Typed' BY <1>1, <1>8, <1>9 DEF OrdersInv, Typed, TypeOK, desk
<1>11. JobFits(r)' BY <1>1, <1>4, <1>5, <1>8 DEF JobFits
<1>12. \A x \in OrderIds : WorkerSteps(r, x) BY <1>1, <1>3, <1>5, <1>8 DEF WorkerSteps, Making, Granting
<1>13. \A x \in OrderIds : payment'[x] = payment[x] \/ PaymentFits(x)'
  BY <1>1, <1>4, <1>9 DEF PaymentFits, OrdersInv, Typed, TypeOK
<1>14. MoneyInv' BY <1>1, <1>8, <1>10, <1>11, <1>12, <1>13, MoneyQuiet DEF OrdersInv, desk
<1>15. DeskInv' BY <1>1, <1>5, <1>8, DeskQuiet DEF OrdersInv, desk
<1>16. QED BY <1>10, <1>14, <1>15 DEF OrdersInv

\* Where no administrator marks orders paid, a checkout that fails is of an unpaid one.
LEMMA CheckoutFailsFits ==
    ASSUME OrdersInv, NEW r \in Requests, CheckoutFails(r), "admin" \notin Events
    PROVE  OrdersInv'
<1>1. /\ r \in Workers /\ req[r].at = "checkout" /\ UNCHANGED <<gateway, hooks, desk>> /\ Proceed(r, Idle)
  BY DEF CheckoutFails, Workers
<1>2. req[r] \in LinkJobs BY <1>1, JobOf DEF OrdersInv
<1>3. PICK o \in OrderIds : o = req[r].order BY <1>2 DEF LinkJobs
<1>4. order[o] # None /\ ~order[o].link BY <1>1, <1>3 DEF OrdersInv, MoneyInv, JobFits
<1>5. ~Taken(o) BY <1>4 DEF OrdersInv, MoneyInv, OrderFits, Payable
<1>6. order \in [OrderIds -> {None} \union OrderRows] /\ order[o] \in OrderRows
  BY <1>4 DEF OrdersInv, Typed, TypeOK
<1> DEFINE row == [order[o] EXCEPT !.status = "FAILED", !.promo = FALSE, !.source = "order"]
<1>7. row \in OrderRows /\ row.status = "FAILED" /\ row.link = order[o].link BY <1>6 DEF OrderRows, Statuses
<1>8. order' = [order EXCEPT ![o] = row] BY <1>3, <1>6 DEF CheckoutFails
<1> HIDE DEF row
<1>9. row # None BY <1>7, OrdersAssumption DEF OrdersAssumption
<1>10. /\ order' \in [OrderIds -> {None} \union OrderRows] /\ order'[o] = row
       /\ \A x \in OrderIds \ {o} : order'[x] = order[x]
  BY <1>6, <1>7, <1>8
<1>11. PICK s \in {"NONE", "CREATED"} : payment' = [payment EXCEPT ![o] = s] BY <1>3 DEF CheckoutFails
<1>12. Idle \in Jobs /\ Idle.at = "idle" BY DEF Jobs, Idle
<1>13. /\ req' \in [Workers -> Jobs] /\ req'[r] = Idle /\ \A q \in Workers \ {r} : req'[q] = req[q]
  BY <1>1, <1>12, Goes DEF OrdersInv
<1>14. Typed' BY <1>1, <1>10, <1>11, <1>13 DEF OrdersInv, Typed, TypeOK, desk
<1>15. JobFits(r)' /\ \A x \in OrderIds : WorkerSteps(r, x) BY <1>1, <1>12, <1>13, FreeJob
<1>16. OrderSteps(o, r) BY <1>4, <1>5, <1>7, <1>9, <1>10 DEF OrderSteps, Taken, Paid
<1>17. \A x \in OrderIds \ {o} : OrderSteps(x, r)
  BY <1>10 DEF OrderSteps, Taken, Paid, Payable, OrdersInv, MoneyInv, OrderFits
<1>18. \A x \in OrderIds : payment'[x] = payment[x] \/ PaymentFits(x)'
  BY <1>9, <1>10, <1>11 DEF PaymentFits, OrdersInv, Typed, TypeOK
<1>19. MoneyInv' BY <1>1, <1>13, <1>14, <1>15, <1>16, <1>17, <1>18, MoneyStep DEF OrdersInv, desk
<1>20. DeskInv' BY <1>1, <1>12, <1>13, DeskQuiet DEF OrdersInv, desk
<1>21. QED BY <1>14, <1>19, <1>20 DEF OrdersInv

\* Saving the link keeps the invariant.
LEMMA SaveLinkFits == ASSUME OrdersInv, NEW r \in Requests, SaveLink(r) PROVE OrdersInv'
<1>1. /\ r \in Workers /\ req[r].at = "link" /\ UNCHANGED <<gateway, payment, hooks, desk>> /\ Proceed(r, Idle)
  BY DEF SaveLink, Workers
<1>2. req[r] \in LinkJobs BY <1>1, JobOf DEF OrdersInv
<1>3. PICK o \in OrderIds : o = req[r].order BY <1>2 DEF LinkJobs
<1>4. order[o] # None /\ ~order[o].link BY <1>1, <1>3 DEF OrdersInv, MoneyInv, JobFits
<1>5. order \in [OrderIds -> {None} \union OrderRows] /\ order[o] \in OrderRows
  BY <1>4 DEF OrdersInv, Typed, TypeOK
<1>6. PICK made \in BOOLEAN : made = (gateway # "manual") OBVIOUS
<1> DEFINE row == [order[o] EXCEPT !.link = made]
<1>7. row \in OrderRows /\ row.status = order[o].status /\ row.link = made BY <1>5 DEF OrderRows
<1>8. order' = [order EXCEPT ![o] = row] BY <1>3, <1>5, <1>6 DEF SaveLink
<1> HIDE DEF row
<1>9. row # None BY <1>7, OrdersAssumption DEF OrdersAssumption
<1>10. /\ order' \in [OrderIds -> {None} \union OrderRows] /\ order'[o] = row
       /\ \A x \in OrderIds \ {o} : order'[x] = order[x]
  BY <1>5, <1>7, <1>8
<1>11. Idle \in Jobs /\ Idle.at = "idle" BY DEF Jobs, Idle
<1>12. /\ req' \in [Workers -> Jobs] /\ req'[r] = Idle /\ \A q \in Workers \ {r} : req'[q] = req[q]
  BY <1>1, <1>11, Goes DEF OrdersInv
<1>13. Typed' BY <1>1, <1>10, <1>12 DEF OrdersInv, Typed, TypeOK, desk
<1>14. JobFits(r)' /\ \A x \in OrderIds : WorkerSteps(r, x) BY <1>1, <1>11, <1>12, FreeJob
<1>15. OrderSteps(o, r)
  <2>1. Making(r, o) BY <1>1, <1>3 DEF Making
  <2>2. (Taken(o)' <=> Taken(o)) /\ (Paid(o)' <=> Paid(o)) BY <1>4, <1>7, <1>9, <1>10 DEF Taken, Paid
  <2>3. QED BY <1>1, <1>4, <1>9, <1>10, <2>1, <2>2 DEF OrderSteps
<1>16. \A x \in OrderIds \ {o} : OrderSteps(x, r)
  BY <1>10 DEF OrderSteps, Taken, Paid, Payable, OrdersInv, MoneyInv, OrderFits
<1>17. MoneyInv' BY <1>1, <1>12, <1>13, <1>14, <1>15, <1>16, MoneyStep DEF OrdersInv, desk
<1>18. DeskInv' BY <1>1, <1>11, <1>12, DeskQuiet DEF OrdersInv, desk
<1>19. QED BY <1>13, <1>17, <1>18 DEF OrdersInv

-----------------------------------------------------------------------------
\* createOrder and claimTrial look for an open order first.
LEMMA BeginOrderFits ==
    ASSUME OrdersInv, NEW r \in Requests, NEW u \in Users, NEW c \in Carts, BeginOrder(r, u, c[1], c[2])
    PROVE  OrdersInv'
<1>1. c[1] \in Plans /\ c[2] \in BOOLEAN BY OrdersAssumption DEF OrdersAssumption
<1>2. FindOpen(r, u, c[1], c[2]) BY DEF BeginOrder
<1>3. QED BY <1>1, <1>2, FindOpenFits

\* Claiming a trial keeps the invariant.
LEMMA ClaimTrialFits ==
    ASSUME OrdersInv, NEW r \in Requests, NEW u \in Users, ClaimTrial(r, u)
    PROVE  OrdersInv'
<1>1. "trial" \in Plans /\ FALSE \in BOOLEAN BY DEF Plans
<1>2. FindOpen(r, u, "trial", FALSE) BY DEF ClaimTrial
<1>3. QED BY <1>1, <1>2, FindOpenFits

-----------------------------------------------------------------------------
\* The gateway's record of a payment changes, and a webhook tells of it: a success only of
\* an order whose payment page was saved.
LEMMA BecomesFits ==
    ASSUME OrdersInv, NEW o \in OrderIds, NEW s \in Verdicts, Becomes(o, s),
           order[o] # None, s = "SUCCESS" => order[o].link
    PROVE  OrdersInv'
<1>1. UNCHANGED <<gateway, order, desk, req>> BY DEF Becomes
<1>2. PICK w : w \notin Workers BY Nobody
<1>3. payment' = [payment EXCEPT ![o] = s] BY DEF Becomes
<1>4. \A h \in hooks' : h \in hooks \/ h = [order |-> o, status |-> s] BY DEF Becomes
<1>5. [order |-> o, status |-> s] \in Hooks BY DEF Hooks
<1>6. Typed' BY <1>1, <1>3, <1>4, <1>5 DEF OrdersInv, Typed, TypeOK, desk, Verdicts, Hooks
<1>7. \A x \in OrderIds : payment'[x] = payment[x] \/ PaymentFits(x)'
  BY <1>1, <1>3 DEF PaymentFits, OrdersInv, Typed, TypeOK
<1>8. \A h \in hooks' : h \in hooks \/ HookFits(h)' BY <1>1, <1>4 DEF HookFits
<1>9. MoneyInv' BY <1>1, <1>2, <1>6, <1>7, <1>8, MoneyQuiet DEF OrdersInv, desk
<1>10. DeskInv' BY <1>1, DeskQuiet DEF OrdersInv, desk
<1>11. QED BY <1>6, <1>9, <1>10 DEF OrdersInv

\* What the provider does keeps the invariant.
LEMMA GatewayFits ==
    ASSUME OrdersInv, NEW o \in OrderIds, Pay(o) \/ Close(o) \/ LateSuccess(o) \/ Refund(o)
    PROVE  OrdersInv'
<1>1. payment[o] # "NONE" BY DEF Pay, Close, LateSuccess, Refund
<1>2. order[o] # None BY <1>1 DEF OrdersInv, MoneyInv, PaymentFits
<1>3. CASE Becomes(o, "SUCCESS") /\ order[o].link
  <2>1. "SUCCESS" \in Verdicts BY DEF Verdicts
  <2>2. QED BY <1>2, <1>3, <2>1, BecomesFits
<1>4. CASE \E s \in {"FAILED", "EXPIRED", "CANCELED", "REFUNDED"} : Becomes(o, s)
  <2>1. PICK s \in {"FAILED", "EXPIRED", "CANCELED", "REFUNDED"} : Becomes(o, s) BY <1>4
  <2>2. s \in Verdicts /\ s # "SUCCESS" BY DEF Verdicts
  <2>3. QED BY <1>2, <2>1, <2>2, BecomesFits
<1>5. CASE Close(o)
  <2>1. \E s \in {"FAILED", "EXPIRED", "CANCELED"} : Becomes(o, s) BY <1>5 DEF Close
  <2>2. QED BY <1>4, <2>1
<1>6. QED BY <1>3, <1>4, <1>5 DEF Pay, LateSuccess, Refund

-----------------------------------------------------------------------------
\* The administrators' acts, and the sweep of unfinished checkouts.
LEMMA MarkPaidFits ==
    ASSUME OrdersInv, NEW r \in Requests, NEW o \in OrderIds, MarkPaid(r, o)
    PROVE  OrdersInv'
<1>1. /\ r \in Workers /\ req[r].at = "idle" /\ order[o] # None
      /\ UNCHANGED <<gateway, order, payment, hooks, desk>>
  BY DEF MarkPaid, Workers, Idle
<1>2. "admin" \in Events BY DEF MarkPaid, Happens
<1> DEFINE job == [at |-> "read", order |-> o, revive |-> FALSE, hook |-> None]
<1>3. job \in ReadJobs /\ job.order = o BY DEF ReadJobs
<1>4. Proceed(r, job) BY DEF MarkPaid
<1> HIDE DEF job
<1>5. Payable(o) BY <1>1, <1>2 DEF Payable
<1>6. QED BY <1>1, <1>3, <1>4, <1>5, ReadFits

\* Cancelling an order keeps the invariant.
LEMMA CancelOrderFits == ASSUME OrdersInv, NEW o \in OrderIds, CancelOrder(o) PROVE OrdersInv'
<1>1. /\ order[o] # None /\ order[o].status = "PENDING" /\ order' = [order EXCEPT ![o].status = "CANCELLED"]
      /\ UNCHANGED <<gateway, payment, hooks, desk, req>>
  BY DEF CancelOrder
<1>2. PICK w : w \notin Workers BY Nobody
<1>3. ~Taken(o) /\ "CANCELLED" \in Statuses BY <1>1 DEF Taken, Statuses
<1>4. order' \in [OrderIds -> {None} \union OrderRows] /\ \A x \in OrderIds : OrderSteps(x, w)
  BY <1>1, <1>3, StatusSteps DEF OrdersInv
<1>5. Typed' BY <1>1, <1>4 DEF OrdersInv, Typed, TypeOK, desk
<1>6. MoneyInv' BY <1>1, <1>2, <1>4, <1>5, MoneyStep DEF OrdersInv, desk
<1>7. DeskInv' BY <1>1, DeskQuiet DEF OrdersInv, desk
<1>8. QED BY <1>5, <1>6, <1>7 DEF OrdersInv

\* Cancelling the orders that were never paid keeps the invariant.
LEMMA CancelStaleFits == ASSUME OrdersInv, CancelStale PROVE OrdersInv'
<1>1. UNCHANGED <<gateway, payment, hooks, desk, req>> BY DEF CancelStale
<1>2. PICK w : w \notin Workers BY Nobody
<1>3. order \in [OrderIds -> {None} \union OrderRows] BY DEF OrdersInv, Typed, TypeOK
<1>4. ASSUME NEW o \in Stale
      PROVE  order[o] # None /\ order[o].status = "PENDING" /\ order[o] \in OrderRows
             /\ [order[o] EXCEPT !.status = "CANCELLED"] \in OrderRows
             /\ [order[o] EXCEPT !.status = "CANCELLED"].status = "CANCELLED"
             /\ [order[o] EXCEPT !.status = "CANCELLED"].link = order[o].link
  <2>1. order[o] # None /\ order[o].status = "PENDING" /\ order[o] \in OrderRows BY <1>3 DEF Stale
  <2>2. \A k \in OrderRows : LET s == [k EXCEPT !.status = "CANCELLED"]
                             IN  s \in OrderRows /\ s.status = "CANCELLED" /\ s.link = k.link
    BY DEF OrderRows, Statuses
  <2>3. QED BY <2>1, <2>2
<1>5. /\ order' \in [OrderIds -> {None} \union OrderRows]
      /\ \A o \in Stale : order'[o] = [order[o] EXCEPT !.status = "CANCELLED"]
      /\ \A o \in OrderIds \ Stale : order'[o] = order[o]
  BY <1>3, <1>4 DEF CancelStale, Stale
<1>6. ASSUME NEW o \in Stale PROVE o \in OrderIds /\ OrderSteps(o, w)
  <2>1. o \in OrderIds /\ order'[o] # None BY <1>4, <1>5, OrdersAssumption DEF Stale, OrdersAssumption
  <2>2. order'[o].link = order[o].link /\ order'[o].status = "CANCELLED" BY <1>4, <1>5, ZenonT(30)
  <2>3. ~Taken(o) /\ ~Taken(o)' /\ ~Paid(o)' BY <1>4, <2>2 DEF Taken, Paid
  <2>4. QED BY <1>4, <2>1, <2>2, <2>3 DEF OrderSteps
<1>7. ASSUME NEW o \in OrderIds \ Stale PROVE OrderSteps(o, w)
  BY <1>5 DEF OrderSteps, Taken, Paid, Payable, OrdersInv, MoneyInv, OrderFits
<1>8. \A o \in OrderIds : OrderSteps(o, w) BY <1>6, <1>7
<1>9. Typed' BY <1>1, <1>5 DEF OrdersInv, Typed, TypeOK, desk
<1>10. MoneyInv' BY <1>1, <1>2, <1>8, <1>9, MoneyStep DEF OrdersInv, desk
<1>11. DeskInv' BY <1>1, DeskQuiet DEF OrdersInv, desk
<1>12. QED BY <1>9, <1>10, <1>11 DEF OrdersInv

\* An administrator's grant keeps the invariant.
LEMMA GrantFits ==
    ASSUME OrdersInv, NEW r \in Requests, NEW u \in Users, NEW c \in Carts, NEW mode \in Modes,
           Grant(r, u, c[1], mode)
    PROVE  OrdersInv'
<1>1. r \in Workers /\ req[r].at = "idle" /\ UNCHANGED <<gateway, order, payment, hooks, desk>>
  BY DEF Grant, Workers, Idle
<1>2. PICK p \in Plans : p = c[1] BY OrdersAssumption DEF OrdersAssumption
<1>3. PICK d \in Nat : d = Term(p) BY DEF Term, OrdersInv, Typed
<1> DEFINE job == [at |-> "grant", order |-> None, hook |-> None, user |-> u, plan |-> p, days |-> d,
                   mode |-> mode, source |-> "manual", promo |-> FALSE]
<1>4. job \in GiftJobs /\ job.at = "grant" /\ job.order = None /\ job.promo = FALSE BY DEF GiftJobs, Sources
<1>5. Proceed(r, job) BY <1>2, <1>3 DEF Grant
<1> HIDE DEF job
<1>6. job \in Jobs BY <1>4 DEF Jobs
<1>7. /\ req' \in [Workers -> Jobs] /\ req'[r] = job /\ \A q \in Workers \ {r} : req'[q] = req[q]
  BY <1>1, <1>5, <1>6, Goes DEF OrdersInv
<1>8. Typed' BY <1>1, <1>7, TypedQuiet DEF OrdersInv, desk
<1>9. JobFits(r)' BY <1>4, <1>7 DEF JobFits
<1>10. \A x \in OrderIds : WorkerSteps(r, x)
  BY <1>1, <1>4, <1>7, OrdersAssumption DEF WorkerSteps, Making, Granting, OrdersAssumption
<1>11. MoneyInv' BY <1>1, <1>7, <1>8, <1>9, <1>10, MoneyQuiet DEF OrdersInv, desk
<1>12. DeskInv' BY <1>1, <1>4, <1>7, DeskQuiet DEF OrdersInv, desk
<1>13. QED BY <1>8, <1>11, <1>12 DEF OrdersInv

\* Editing the trial offer keeps the invariant.
LEMMA EditOfferFits ==
    ASSUME OrdersInv, NEW on \in BOOLEAN, NEW days \in 1 .. 2, EditOffer(on, days)
    PROVE  OrdersInv'
<1>1. /\ offer' = [on |-> on, days |-> days]
      /\ UNCHANGED <<gateway, order, payment, hooks, subs, allowance, redeemed, req, now>>
  BY DEF EditOffer
<1>2. PICK w : w \notin Workers BY Nobody
<1>3. Typed' BY <1>1 DEF OrdersInv, Typed, TypeOK
<1>4. MoneyInv' BY <1>1, <1>2, <1>3, MoneyQuiet DEF OrdersInv
<1>5. DeskInv' BY <1>1, DeskQuiet DEF OrdersInv
<1>6. QED BY <1>3, <1>4, <1>5 DEF OrdersInv

-----------------------------------------------------------------------------
\* The monitor's round, and a revocation: rows end, and then the allowance is lowered.
LEMMA RoundFits ==
    ASSUME OrdersInv, NEW r \in Workers, req[r].at \notin {"grant", "write"}, NEW job \in RoundJobs,
           Proceed(r, job), UNCHANGED <<gateway, order, payment, hooks, allowance, redeemed, offer, now>>,
           NEW S \in SUBSET DOMAIN subs, NEW s \in {"EXPIRED", "DISABLED"},
           DOMAIN subs' = DOMAIN subs,
           \A i \in DOMAIN subs : subs'[i] = IF i \in S THEN [subs[i] EXCEPT !.status = s] ELSE subs[i],
           subs' = [i \in DOMAIN subs |-> subs'[i]]
    PROVE  OrdersInv'
<1>1. job \in Jobs /\ job.at \in {"expire", "downgrade"} BY DEF Jobs, RoundJobs
<1>2. /\ req' \in [Workers -> Jobs] /\ req'[r] = job /\ \A q \in Workers \ {r} : req'[q] = req[q]
  BY <1>1, Goes DEF OrdersInv
<1>3. /\ Len(subs) \in Nat /\ DOMAIN subs = 1 .. Len(subs)
      /\ \A i \in DOMAIN subs : subs[i] \in SubRows /\ subs[i].tier = Tier(subs[i].plan)
  BY RowOf DEF OrdersInv
<1>4. \A row \in SubRows : LET k == [row EXCEPT !.status = s] IN
        /\ k \in SubRows /\ k.user = row.user /\ k.plan = row.plan /\ k.tier = row.tier
        /\ k.expiresAt = row.expiresAt /\ k.order = row.order /\ k.source = row.source /\ k.status = s
  BY DEF SubRows
<1>5. ASSUME NEW i \in DOMAIN subs
      PROVE  /\ subs'[i] \in SubRows /\ subs'[i].user = subs[i].user /\ subs'[i].plan = subs[i].plan
             /\ subs'[i].tier = subs[i].tier /\ subs'[i].expiresAt = subs[i].expiresAt
             /\ subs'[i].order = subs[i].order
             /\ subs'[i].status = "ACTIVE" => subs[i].status = "ACTIVE"
  <2>1. CASE i \in S
    <3>1. PICK row \in SubRows : row = subs[i] BY <1>3
    <3> DEFINE k == [row EXCEPT !.status = s]
    <3>2. subs'[i] = k BY <2>1, <3>1
    <3>3. /\ k \in SubRows /\ k.user = row.user /\ k.plan = row.plan /\ k.tier = row.tier
          /\ k.expiresAt = row.expiresAt /\ k.order = row.order /\ k.status = s
      BY <1>4
    <3> HIDE DEF k
    <3>4. QED BY <3>1, <3>2, <3>3
  <2>2. CASE i \notin S BY <1>3, <2>2
  <2>3. QED BY <2>1, <2>2
<1>6. subs' \in Seq(SubRows) BY <1>3, <1>5
<1>7. \A i \in DOMAIN subs' : subs'[i].tier = Tier(subs'[i].plan) BY <1>3, <1>5
<1>8. TypeOK'
  <2>1. \A i \in DOMAIN subs' : /\ subs'[i].status \in {"ACTIVE", "EXPIRED", "DISABLED"}
                                /\ subs'[i].source \in {"order", "trial", "manual"}
    BY <1>5 DEF SubRows, Sources
  <2>2. QED BY <2>1 DEF OrdersInv, Typed, TypeOK
<1>9. Typed' BY <1>2, <1>6, <1>7, <1>8 DEF OrdersInv, Typed
<1>10. JobFits(r)' /\ \A o \in OrderIds : WorkerSteps(r, o) BY <1>1, <1>2, FreeJob
<1>11. MoneyInv' BY <1>2, <1>5, <1>9, <1>10, MoneyQuiet DEF OrdersInv
<1>12. now' \in Nat /\ now' >= now BY OrdersAssumption DEF OrdersInv, Typed, OrdersAssumption
<1>13. DeskInv' BY <1>1, <1>2, <1>5, <1>12, DeskStill DEF OrdersInv
<1>14. QED BY <1>9, <1>11, <1>13 DEF OrdersInv

\* Revoking a subscription keeps the invariant.
LEMMA RevokeFits == ASSUME OrdersInv, NEW r \in Requests, NEW u \in Users, Revoke(r, u) PROVE OrdersInv'
<1> DEFINE S == {i \in DOMAIN subs : subs[i].user = u /\ subs[i].status = "ACTIVE"}
           job == [at |-> "downgrade", users |-> {u}]
<1>1. r \in Workers /\ req[r].at = "idle" BY DEF Revoke, Workers, Idle
<1>2. UNCHANGED <<gateway, order, payment, hooks, allowance, redeemed, offer, now>> BY DEF Revoke
<1>3. job \in RoundJobs BY DEF RoundJobs
<1>4. Proceed(r, job) BY DEF Revoke
<1>5. subs' = [i \in DOMAIN subs |-> IF subs[i].user = u /\ subs[i].status = "ACTIVE"
                                     THEN [subs[i] EXCEPT !.status = "DISABLED"] ELSE subs[i]]
  BY DEF Revoke
<1>6. /\ DOMAIN subs' = DOMAIN subs /\ subs' = [i \in DOMAIN subs |-> subs'[i]]
      /\ \A i \in DOMAIN subs : subs'[i] = IF i \in S THEN [subs[i] EXCEPT !.status = "DISABLED"] ELSE subs[i]
  BY <1>5
<1>7. S \in SUBSET DOMAIN subs OBVIOUS
<1> HIDE DEF S, job
<1>8. QED BY <1>1, <1>2, <1>3, <1>4, <1>6, <1>7, RoundFits

\* Expiring terms keeps the invariant.
LEMMA ExpireFits == ASSUME OrdersInv, Expire PROVE OrdersInv'
<1> DEFINE job == [req[Monitor] EXCEPT !.at = "downgrade"]
<1>1. Monitor \in Workers /\ req[Monitor].at = "expire" BY DEF Expire, Workers
<1>2. UNCHANGED <<gateway, order, payment, hooks, allowance, redeemed, offer, now>> BY DEF Expire
<1>3. req[Monitor] \in RoundJobs BY <1>1, JobOf DEF OrdersInv
<1>4. job \in RoundJobs BY <1>3 DEF RoundJobs
<1>5. Proceed(Monitor, job) BY DEF Expire
<1>6. subs' = [i \in DOMAIN subs |-> IF i \in Lapsed THEN [subs[i] EXCEPT !.status = "EXPIRED"] ELSE subs[i]]
  BY DEF Expire
<1>7. /\ DOMAIN subs' = DOMAIN subs /\ subs' = [i \in DOMAIN subs |-> subs'[i]]
      /\ \A i \in DOMAIN subs : subs'[i] = IF i \in Lapsed THEN [subs[i] EXCEPT !.status = "EXPIRED"] ELSE subs[i]
  BY <1>6
<1>8. Lapsed \in SUBSET DOMAIN subs BY DEF Lapsed
<1> HIDE DEF job
<1>9. QED BY <1>1, <1>2, <1>4, <1>5, <1>7, <1>8, RoundFits

\* Finding the lapsed accounts keeps the invariant.
LEMMA FindLapsedFits == ASSUME OrdersInv, FindLapsed PROVE OrdersInv'
<1> DEFINE job == [at |-> "expire", users |-> {subs[i].user : i \in Lapsed}]
<1>1. Monitor \in Workers /\ req[Monitor].at = "idle" BY DEF FindLapsed, Workers, Idle
<1>2. UNCHANGED <<gateway, order, payment, hooks, desk>> BY DEF FindLapsed
<1>3. \A i \in DOMAIN subs : subs[i].user \in Users BY RowOf DEF SubRows, OrdersInv
<1>4. {subs[i].user : i \in Lapsed} \in SUBSET Users BY <1>3 DEF Lapsed
<1>5. job \in RoundJobs BY <1>4 DEF RoundJobs
<1>6. Proceed(Monitor, job) BY DEF FindLapsed
<1> HIDE DEF job
<1>7. subs' = subs /\ {} \in SUBSET DOMAIN subs BY <1>2 DEF desk
<1>8. subs = [i \in DOMAIN subs |-> subs[i]]
  <2>1. subs \in Seq(SubRows) BY DEF OrdersInv, Typed
  <2>2. QED BY <2>1
<1>9. QED BY <1>1, <1>2, <1>5, <1>6, <1>7, <1>8, RoundFits, ZenonT(30) DEF desk

\* Time passes: what has run out covers nothing any more.
LEMMA TickFits == ASSUME OrdersInv, Tick PROVE OrdersInv'
<1>1. /\ now < MaxTime /\ now' = now + 1
      /\ UNCHANGED <<gateway, order, payment, hooks, subs, allowance, redeemed, offer, req>>
  BY DEF Tick
<1>2. PICK w : w \notin Workers BY Nobody
<1>3. now \in 0 .. MaxTime /\ MaxTime \in Nat BY OrdersAssumption DEF OrdersInv, Typed, OrdersAssumption
<1>4. now' \in 0 .. MaxTime /\ now' \in Nat /\ now' >= now BY <1>1, <1>3
<1>5. Typed' BY <1>1, <1>4 DEF OrdersInv, Typed, TypeOK
<1>6. MoneyInv' BY <1>1, <1>2, <1>5, MoneyQuiet DEF OrdersInv
<1>7. DeskInv' BY <1>1, <1>4, DeskStill DEF OrdersInv
<1>8. QED BY <1>5, <1>6, <1>7 DEF OrdersInv

\* The process stops, with no payment half granted: what was claimed has its rows.
LEMMA CrashFits == ASSUME OrdersInv, Crash, "crash_in_grant" \notin Events PROVE OrdersInv'
<1>1. /\ req' = [r \in Workers |-> Idle] /\ UNCHANGED <<gateway, order, payment, hooks, desk>>
      /\ \A r \in Requests : req[r].at \notin {"grant", "write"}
  BY DEF Crash
<1>2. \A r \in Workers : req'[r] = Idle /\ req'[r].at = "idle" BY <1>1 DEF Idle
<1>3. req' \in [Workers -> Jobs] BY <1>1 DEF Jobs
<1>4. Typed' BY <1>1, <1>3, TypedQuiet DEF OrdersInv, desk
<1>5. MoneyInv'
  <2>1. \A o : Granted(o)' <=> Granted(o) BY <1>1 DEF Granted, desk
  <2>2. \A o : (Taken(o)' <=> Taken(o)) /\ (Paid(o)' <=> Paid(o)) /\ (Payable(o)' <=> Payable(o))
    BY <1>1 DEF Taken, Paid, Payable
  <2>3. ASSUME NEW o \in OrderIds PROVE PaymentFits(o)' /\ OrderFits(o)'
    <3>1. PaymentFits(o) /\ OrderFits(o) BY DEF OrdersInv, MoneyInv
    <3>2. ~\E r \in Requests : Granting(r, o) BY <1>1 DEF Granting
    <3>3. PaymentFits(o)' BY <1>1, <3>1 DEF PaymentFits
    <3>4. OrderFits(o)' BY <2>1, <2>2, <3>1, <3>2 DEF OrderFits
    <3>5. QED BY <3>3, <3>4
  <2>4. \A h \in hooks' : HookFits(h)' BY <1>1 DEF OrdersInv, MoneyInv, HookFits
  <2>5. \A r \in Workers : JobFits(r)' BY <1>2 DEF JobFits
  <2>6. \A q, r \in Workers : OrdersApart(q, r)' BY <1>2 DEF OrdersApart, Making, Granting
  <2>7. \A i, k \in DOMAIN subs' : subs'[i].order = subs'[k].order /\ subs'[i].order # None => i = k
    BY <1>1 DEF OrdersInv, MoneyInv, desk
  <2>8. \A o \in redeemed' : Granted(o)' BY <1>1, <2>1 DEF OrdersInv, MoneyInv, desk
  <2>9. QED BY <2>3, <2>4, <2>5, <2>6, <2>7, <2>8 DEF MoneyInv
<1>6. DeskInv' BY <1>1, <1>2, DeskQuiet DEF OrdersInv, desk
<1>7. QED BY <1>4, <1>5, <1>6 DEF OrdersInv

\* The redemption of a code follows the subscription it was used for.
LEMMA RedeemFits == ASSUME OrdersInv, NEW r \in Requests, Redeem(r) PROVE OrdersInv'
<1>1. /\ r \in Workers /\ req[r].at = "redeem" /\ redeemed' = redeemed \union {req[r].order}
      /\ UNCHANGED <<gateway, order, payment, subs, allowance, offer, now>>
  BY DEF Redeem, Workers
<1>2. req[r] \in RedeemJobs BY <1>1, JobOf DEF OrdersInv
<1>3. req[r].order \in OrderIds /\ Granted(req[r].order) BY <1>1, <1>2 DEF RedeemJobs, OrdersInv, MoneyInv, JobFits
<1>4. Proceed(r, Idle) /\ hooks' \subseteq hooks BY DEF Redeem, Finish, Acked
<1>5. Idle \in Jobs /\ Idle.at = "idle" BY DEF Jobs, Idle
<1>6. /\ req' \in [Workers -> Jobs] /\ req'[r] = Idle /\ \A q \in Workers \ {r} : req'[q] = req[q]
  BY <1>1, <1>4, <1>5, Goes DEF OrdersInv
<1>7. Typed' BY <1>1, <1>3, <1>4, <1>6 DEF OrdersInv, Typed, TypeOK
<1>8. JobFits(r)' /\ \A o \in OrderIds : WorkerSteps(r, o) BY <1>1, <1>5, <1>6, FreeJob
<1>9. MoneyInv' BY <1>1, <1>3, <1>4, <1>6, <1>7, <1>8, MoneyQuiet DEF OrdersInv
<1>10. DeskInv' BY <1>1, <1>5, <1>6, DeskQuiet DEF OrdersInv
<1>11. QED BY <1>7, <1>9, <1>10 DEF OrdersInv

-----------------------------------------------------------------------------
\* The best plan of an account is one of those that run, and gives most devices.
LEMMA PlanDevices ==
    /\ Devices["free"] = 1 /\ Devices["trial"] = 2 /\ Devices["basic"] = 2 /\ Devices["pro"] = 3
    /\ DOMAIN Devices = {"free", "trial", "basic", "pro"}
BY DEF Devices

\* The best plan of an account is one it runs, or free, and no running one has more devices.
LEMMA BestRuns ==
    ASSUME Typed, NEW u \in Users
    PROVE  /\ Devices[Best(u)] \in {1, 2, 3}
           /\ Best(u) = "free" \/ \E i \in RunningOf(u) : Best(u) = subs[i].plan
           /\ \A i \in RunningOf(u) : Devices[subs[i].plan] <= Devices[Best(u)]
<1>1. Len(subs) \in Nat /\ DOMAIN subs = 1 .. Len(subs) BY RowOf
<1>2. \A i \in DOMAIN subs : subs[i] \in SubRows /\ subs[i].tier = Tier(subs[i].plan) BY RowOf
<1>3. CASE RunningOf(u) = {}
  <2>1. Best(u) = "free" BY <1>3 DEF Best
  <2>2. QED BY <1>3, <2>1, PlanDevices
<1>4. CASE RunningOf(u) # {}
  <2> DEFINE n == Len(subs)
             S == RunningOf(u)
             top == {i \in S : \A k \in S : subs[k].tier <= subs[i].tier}
             Last(i) == \A k \in top : subs[k].expiresAt <= subs[i].expiresAt
             tiers == [i \in 1 .. n |-> subs[i].tier]
             ends == [i \in 1 .. n |-> subs[i].expiresAt]
  <2>1. n \in Nat /\ S \in SUBSET (1 .. n) /\ S # {} BY <1>1, <1>4 DEF RunningOf
  <2>2. tiers \in [1 .. n -> Nat] /\ ends \in [1 .. n -> Nat] BY <1>1, <1>2 DEF SubRows
  <2>3. \A i \in S : tiers[i] = subs[i].tier /\ ends[i] = subs[i].expiresAt BY <2>1
  <2>4. Best(u) = subs[CHOOSE i \in top : Last(i)].plan BY <1>4 DEF Best
  <2>5. top \in SUBSET S OBVIOUS
  <2>6. ASSUME NEW i \in S, \A k \in S : subs[k].tier <= subs[i].tier PROVE i \in top BY <2>6
  <2>7. \A i \in top : \A k \in S : subs[k].tier <= subs[i].tier OBVIOUS
  <2> HIDE DEF n, S, top, tiers, ends
  <2>8. PICK m \in S : \A x \in S : tiers[x] <= tiers[m] BY <2>1, <2>2, GreatestValue
  <2>9. m \in top BY <2>3, <2>6, <2>8
  <2>10. top \in SUBSET (1 .. n) /\ top # {} BY <2>1, <2>5, <2>9
  <2>11. PICK b \in top : \A x \in top : ends[x] <= ends[b] BY <2>1, <2>2, <2>10, GreatestValue
  <2>12. \E i \in top : Last(i) BY <2>3, <2>5, <2>11
  <2>13. PICK i \in top : Best(u) = subs[i].plan BY <2>4, <2>12
  <2>14. i \in S /\ i \in DOMAIN subs /\ \A k \in S : k \in DOMAIN subs /\ subs[k].tier <= subs[i].tier
    BY <1>1, <2>1, <2>5, <2>7 DEF n
  <2>15. \A k \in DOMAIN subs : /\ subs[k].plan \in {"basic", "pro", "trial"}
                                /\ subs[k].tier = IF subs[k].plan = "pro" THEN 2 ELSE 1
    BY <1>2 DEF SubRows, Plans, Tier
  <2>16. \A k \in S : Devices[subs[k].plan] <= Devices[subs[i].plan]
    <3>1. SUFFICES ASSUME NEW k \in S PROVE Devices[subs[k].plan] <= Devices[subs[i].plan] OBVIOUS
    <3>2. subs[k].plan = "pro" => subs[i].plan = "pro" BY <2>14, <2>15
    <3>3. subs[k].plan \in {"basic", "pro", "trial"} /\ subs[i].plan \in {"basic", "pro", "trial"} BY <2>14, <2>15
    <3>4. QED BY <3>2, <3>3, PlanDevices
  <2>17. Devices[subs[i].plan] \in {1, 2, 3} BY <2>14, <2>15, PlanDevices
  <2>18. QED BY <2>13, <2>14, <2>16, <2>17 DEF S
<1>5. QED BY <1>3, <1>4

\* The end of the last of some terms, where there is one.
LEMMA LatestEnd ==
    ASSUME Typed, NEW rows \in SUBSET DOMAIN subs, NEW mode
    PROVE  /\ TermStart(rows, mode) \in Nat
           /\ mode = "extend" => \A i \in rows : subs[i].expiresAt <= TermStart(rows, mode)
<1>1. Len(subs) \in Nat /\ DOMAIN subs = 1 .. Len(subs) BY RowOf
<1>2. \A i \in DOMAIN subs : subs[i].expiresAt \in Nat BY RowOf DEF SubRows
<1>3. now \in Nat BY OrdersAssumption DEF Typed, OrdersAssumption
<1>4. CASE mode = "extend" /\ rows # {}
  <2> DEFINE n == Len(subs)
             ends == [i \in 1 .. n |-> subs[i].expiresAt]
             E == {subs[i].expiresAt : i \in rows}
  <2>1. n \in Nat /\ rows \in SUBSET (1 .. n) /\ ends \in [1 .. n -> Nat] BY <1>1, <1>2
  <2>2. \A i \in rows : ends[i] = subs[i].expiresAt BY <2>1
  <2>3. TermStart(rows, mode) = CHOOSE x \in E : \A y \in E : x >= y BY <1>4 DEF TermStart, Max
  <2>4. \A i \in rows : subs[i].expiresAt \in E OBVIOUS
  <2>5. \A x \in E : \E i \in rows : x = subs[i].expiresAt OBVIOUS
  <2>6. \A x \in E : x \in Nat BY <1>2
  <2> HIDE DEF n, ends, E
  <2>7. PICK m \in rows : \A x \in rows : ends[x] <= ends[m] BY <1>4, <2>1, GreatestValue
  <2>8. \A y \in E : subs[m].expiresAt >= y
    <3>1. SUFFICES ASSUME NEW y \in E PROVE subs[m].expiresAt >= y OBVIOUS
    <3>2. PICK i \in rows : y = subs[i].expiresAt BY <2>5
    <3>3. ends[i] <= ends[m] /\ ends[i] = y /\ ends[m] = subs[m].expiresAt BY <2>2, <2>7, <3>2
    <3>4. y \in Nat /\ subs[m].expiresAt \in Nat BY <1>2, <2>6
    <3>5. QED BY <3>3, <3>4
  <2>9. \E x \in E : \A y \in E : x >= y BY <2>4, <2>8
  <2>10. TermStart(rows, mode) \in E /\ \A y \in E : TermStart(rows, mode) >= y BY <2>3, <2>9
  <2>11. \A i \in rows : subs[i].expiresAt <= TermStart(rows, mode) BY <1>2, <2>4, <2>6, <2>10
  <2>12. QED BY <2>6, <2>10, <2>11
<1>5. CASE ~(mode = "extend" /\ rows # {})
  <2>1. TermStart(rows, mode) = now BY <1>5 DEF TermStart
  <2>2. QED BY <1>3, <1>5, <2>1
<1>6. QED BY <1>4, <1>5

-----------------------------------------------------------------------------
\* A request is alone on its account when it reads the rows it is about to write.
LEMMA AloneApart ==
    ASSUME OrdersInv, NEW r \in Workers, "overlap" \notin Events, Alone(r, req'[r].user),
           \A q \in Workers \ {r} : req'[q] = req[q]
    PROVE  \A p, q \in Workers : p # q => UsersApart(p, q)'
<1>1. \A q \in Workers \ {r} : ~(req[q].at \in {"write", "lower"} /\ req[q].user = req'[r].user) BY DEF Alone
<1>2. \A q \in Workers \ {r} : UsersApart(q, r)' /\ UsersApart(r, q)' BY <1>1 DEF UsersApart
<1>3. \A p, q \in Workers \ {r} : p # q => UsersApart(p, q)' BY DEF UsersApart, OrdersInv, DeskInv
<1>4. QED BY <1>2, <1>3

\* The desk after a request has read an account: nothing else moved.
LEMMA DeskRead ==
    ASSUME OrdersInv, NEW r \in Workers, "overlap" \notin Events, Alone(r, req'[r].user),
           \A q \in Workers \ {r} : req'[q] = req[q],
           UNCHANGED <<subs, allowance, now>>, ReadingFits(r)'
    PROVE  DeskInv'
<1>1. \A u : (RunningOf(u))' = RunningOf(u) BY DEF RunningOf, Running
<1>2. \A u \in Users : Covered(u)' BY <1>1 DEF Covered, OrdersInv, DeskInv
<1>3. \A q \in Workers \ {r} : ReadingFits(q)' BY <1>1 DEF ReadingFits, OrdersInv, DeskInv
<1>4. \A p, q \in Workers : p # q => UsersApart(p, q)' BY AloneApart
<1>5. QED BY <1>2, <1>3, <1>4 DEF DeskInv

\* Computing the allowance of a lapsed account keeps the invariant, as nobody is writing the
\* account's terms meanwhile.
LEMMA DowngradeFits ==
    ASSUME OrdersInv, NEW r \in Workers, Downgrade(r), "overlap" \notin Events
    PROVE  OrdersInv'
<1>1. req[r].at = "downgrade" /\ UNCHANGED <<gateway, order, payment, hooks, desk>> BY DEF Downgrade
<1>2. req[r] \in RoundJobs BY <1>1, JobOf DEF OrdersInv
<1>3. PICK users \in SUBSET Users : users = req[r].users BY <1>2 DEF RoundJobs
<1>4. PICK u \in users : /\ Alone(r, u)
                         /\ Proceed(r, [at |-> "lower", user |-> u, devices |-> Devices[Best(u)],
                                        users |-> users \ {u}])
  BY <1>3 DEF Downgrade
<1>5. u \in Users BY <1>4
<1>6. /\ Devices[Best(u)] \in {1, 2, 3}
      /\ \A i \in RunningOf(u) : Devices[subs[i].plan] <= Devices[Best(u)]
  BY <1>5, BestRuns DEF OrdersInv
<1>7. PICK d \in {1, 2, 3} : d = Devices[Best(u)] BY <1>6
<1> DEFINE job == [at |-> "lower", user |-> u, devices |-> d, users |-> users \ {u}]
<1>8. job \in LowerJobs /\ job.at = "lower" /\ job.user = u /\ job.devices = d BY <1>5 DEF LowerJobs
<1>9. Proceed(r, job) BY <1>4, <1>7
<1> HIDE DEF job
<1>10. job \in Jobs BY <1>8 DEF Jobs
<1>11. /\ req' \in [Workers -> Jobs] /\ req'[r] = job /\ \A q \in Workers \ {r} : req'[q] = req[q]
  BY <1>9, <1>10, Goes DEF OrdersInv
<1>12. Typed' BY <1>1, <1>11, TypedQuiet DEF OrdersInv, desk
<1>13. JobFits(r)' /\ \A o \in OrderIds : WorkerSteps(r, o) BY <1>1, <1>8, <1>11, FreeJob
<1>14. MoneyInv' BY <1>1, <1>11, <1>12, <1>13, MoneyQuiet DEF OrdersInv, desk
<1>15. (RunningOf(u))' = RunningOf(u) /\ subs' = subs BY <1>1 DEF RunningOf, Running, desk
<1>16. ReadingFits(r)' BY <1>6, <1>7, <1>8, <1>11, <1>15 DEF ReadingFits
<1>17. DeskInv' BY <1>1, <1>4, <1>8, <1>11, <1>16, DeskRead DEF desk
<1>18. QED BY <1>12, <1>14, <1>17 DEF OrdersInv

\* What was read is written: it still covers every plan that runs.
LEMMA LowerFits ==
    ASSUME OrdersInv, NEW r \in Workers, Lower(r)
    PROVE  OrdersInv'
<1>1. /\ req[r].at = "lower" /\ allowance' = [allowance EXCEPT ![req[r].user] = req[r].devices]
      /\ UNCHANGED <<gateway, order, payment, hooks, subs, redeemed, offer, now>>
  BY DEF Lower
<1>2. req[r] \in LowerJobs BY <1>1, JobOf DEF OrdersInv
<1>3. PICK u \in Users, d \in {1, 2, 3}, users \in SUBSET Users :
               u = req[r].user /\ d = req[r].devices /\ users = req[r].users
  BY <1>2 DEF LowerJobs
<1>4. PICK job \in {Idle} \union RoundJobs : Proceed(r, job) /\ job.at \in {"idle", "downgrade"}
  <2>1. CASE users = {}
    <3>1. Proceed(r, Idle) /\ Idle.at = "idle" BY <1>3, <2>1 DEF Lower, Idle
    <3>2. QED BY <3>1
  <2>2. CASE users # {}
    <3>1. Proceed(r, [at |-> "downgrade", users |-> users]) BY <1>3, <2>2 DEF Lower
    <3>2. [at |-> "downgrade", users |-> users] \in RoundJobs BY DEF RoundJobs
    <3>3. QED BY <3>1, <3>2
  <2>3. QED BY <2>1, <2>2
<1>5. job \in Jobs BY <1>4 DEF Jobs
<1>6. /\ req' \in [Workers -> Jobs] /\ req'[r] = job /\ \A q \in Workers \ {r} : req'[q] = req[q]
  BY <1>4, <1>5, Goes DEF OrdersInv
<1>7. allowance \in [Users -> {1, 2, 3}] /\ {Devices[p] : p \in DOMAIN Devices} = {1, 2, 3}
  <2>1. {Devices[p] : p \in DOMAIN Devices} = {1, 2, 3}
    <3>1. \A x \in {Devices[p] : p \in DOMAIN Devices} : x \in {1, 2, 3} BY PlanDevices
    <3>2. \A x \in {1, 2, 3} : x \in {Devices[p] : p \in DOMAIN Devices} BY PlanDevices
    <3>3. QED BY <3>1, <3>2
  <2>2. QED BY <2>1 DEF OrdersInv, Typed, TypeOK
<1>8. allowance' \in [Users -> {1, 2, 3}] /\ allowance'[u] = d /\ \A v \in Users \ {u} : allowance'[v] = allowance[v]
  BY <1>1, <1>3, <1>7
<1>9. Typed' BY <1>1, <1>6, <1>7, <1>8 DEF OrdersInv, Typed, TypeOK
<1>10. JobFits(r)' /\ \A o \in OrderIds : WorkerSteps(r, o) BY <1>1, <1>4, <1>6, FreeJob
<1>11. MoneyInv' BY <1>1, <1>6, <1>9, <1>10, MoneyQuiet DEF OrdersInv
<1>12. DeskInv'
  <2>1. \A v : (RunningOf(v))' = RunningOf(v) BY <1>1 DEF RunningOf, Running
  <2>2. \A i \in RunningOf(u) : Devices[subs[i].plan] <= d BY <1>1, <1>3 DEF OrdersInv, DeskInv, ReadingFits
  <2>3. \A v \in Users : Covered(v)' BY <1>1, <1>8, <2>1, <2>2 DEF Covered, OrdersInv, DeskInv
  <2>4. ReadingFits(r)' BY <1>4, <1>6 DEF ReadingFits
  <2>5. \A q \in Workers \ {r} : ReadingFits(q)' BY <1>1, <1>6, <2>1 DEF ReadingFits, OrdersInv, DeskInv
  <2>6. \A p, q \in Workers : p # q => UsersApart(p, q)' BY <1>4, <1>6 DEF UsersApart, OrdersInv, DeskInv
  <2>7. QED BY <2>3, <2>4, <2>5, <2>6 DEF DeskInv
<1>13. QED BY <1>9, <1>11, <1>12 DEF OrdersInv

\* What a grant carries, of an order or of an administrator's.
LEMMA GrantReadFits ==
    ASSUME OrdersInv, NEW r \in Requests, GrantRead(r), "overlap" \notin Events
    PROVE  OrdersInv'
<1>1. r \in Workers /\ req[r].at = "grant" /\ UNCHANGED <<gateway, order, payment, hooks, desk>>
  BY DEF GrantRead, Workers
<1>2. req[r] \in ClaimJobs \union GiftJobs BY <1>1, JobOf DEF OrdersInv
<1>3. PICK j \in ClaimJobs \union GiftJobs : j = req[r] BY <1>2
<1>4. PICK rows \in SUBSET DOMAIN subs : rows = Superseded(j.user, j.plan, j.mode)
  BY DEF Superseded, RunningOf
<1>5. rows \in SUBSET Nat BY <1>4, RowOf DEF OrdersInv
<1>6. /\ TermStart(rows, j.mode) \in Nat
      /\ j.mode = "extend" => \A i \in rows : subs[i].expiresAt <= TermStart(rows, j.mode)
  BY LatestEnd DEF OrdersInv
<1>7. PICK t \in Nat : t = TermStart(rows, j.mode) BY <1>6
<1>8. PICK job \in WriteJobs : /\ job.at = "write" /\ job.order = j.order /\ job.user = j.user
                               /\ job.plan = j.plan /\ job.mode = j.mode /\ job.promo = j.promo
                               /\ job.start = t /\ Proceed(r, job)
  <2> DEFINE w == [at |-> "write", order |-> j.order, hook |-> j.hook, user |-> j.user, plan |-> j.plan,
                   days |-> j.days, mode |-> j.mode, source |-> j.source, promo |-> j.promo,
                   rows |-> rows, start |-> t]
  <2>1. Proceed(r, w) BY <1>3, <1>4, <1>7 DEF GrantRead, WriteJob
  <2>2. /\ j.order \in OrderIds \union {None} /\ j.hook \in Hooks \union {None} /\ j.user \in Users
        /\ j.plan \in Plans /\ j.days \in Nat /\ j.mode \in Modes /\ j.source \in Sources
        /\ j.promo \in BOOLEAN
    BY DEF ClaimJobs, GiftJobs, Modes
  <2>3. w \in WriteJobs BY <1>5, <2>2 DEF WriteJobs
  <2>4. w.at = "write" /\ w.order = j.order /\ w.user = j.user /\ w.plan = j.plan /\ w.mode = j.mode
        /\ w.promo = j.promo /\ w.start = t
    OBVIOUS
  <2> HIDE DEF w
  <2>5. QED BY <2>1, <2>3, <2>4
<1>9. job \in Jobs BY <1>8 DEF Jobs
<1>10. /\ req' \in [Workers -> Jobs] /\ req'[r] = job /\ \A q \in Workers \ {r} : req'[q] = req[q]
  BY <1>1, <1>8, <1>9, Goes DEF OrdersInv
<1>11. Typed' BY <1>1, <1>10, TypedQuiet DEF OrdersInv, desk
<1>12. JobFits(r)'
  <2>1. JobFits(r) BY <1>1 DEF OrdersInv, MoneyInv
  <2>2. QED BY <1>1, <1>3, <1>8, <1>10, <2>1 DEF JobFits, Taken, Granted, desk
<1>13. \A o \in OrderIds : WorkerSteps(r, o) BY <1>1, <1>3, <1>8, <1>10 DEF WorkerSteps, Making, Granting
<1>14. MoneyInv' BY <1>1, <1>10, <1>11, <1>12, <1>13, MoneyQuiet DEF OrdersInv, desk
<1>15. ReadingFits(r)'
  <2>1. (RunningOf(j.user))' = RunningOf(j.user) /\ subs' = subs BY <1>1 DEF RunningOf, Running, desk
  <2>2. \A k \in RunningOf(j.user) : subs[k].tier <= Tier(j.plan) => k \in rows BY <1>4 DEF Superseded
  <2>3. QED BY <1>6, <1>7, <1>8, <1>10, <2>1, <2>2 DEF ReadingFits
<1>16. DeskInv'
  <2>1. Alone(r, req'[r].user) BY <1>3, <1>8, <1>10 DEF GrantRead
  <2>2. QED BY <1>1, <1>10, <1>15, <2>1, DeskRead DEF desk
<1>17. QED BY <1>11, <1>14, <1>16 DEF OrdersInv

-----------------------------------------------------------------------------
\* The greater of two figures.
LEMMA GreaterOf ==
    ASSUME NEW x \in {1, 2, 3}, NEW y \in {1, 2, 3}
    PROVE  Max({x, y}) \in {1, 2, 3} /\ x <= Max({x, y}) /\ y <= Max({x, y})
<1>1. \E m \in {x, y} : \A z \in {x, y} : m >= z
  <2>1. CASE x >= y BY <2>1
  <2>2. CASE y >= x BY <2>2
  <2>3. QED BY <2>1, <2>2
<1>2. Max({x, y}) = CHOOSE m \in {x, y} : \A z \in {x, y} : m >= z BY DEF Max
<1>3. Max({x, y}) \in {x, y} /\ \A z \in {x, y} : Max({x, y}) >= z BY <1>1, <1>2
<1>4. QED BY <1>3

\* What grantPlan writes: one row more, the superseded ones ended, and an allowance that
\* is no lower than it was.
LEMMA WriteShape ==
    ASSUME Typed, NEW r \in Requests, GrantWrite(r), NEW n, n = Len(subs)
    PROVE  /\ n \in Nat /\ DOMAIN subs = 1 .. n /\ DOMAIN subs' = 1 .. n + 1 /\ subs' \in Seq(SubRows)
           /\ \A i \in 1 .. n :
                /\ subs'[i].user = subs[i].user /\ subs'[i].plan = subs[i].plan /\ subs'[i].tier = subs[i].tier
                /\ subs'[i].expiresAt = subs[i].expiresAt /\ subs'[i].order = subs[i].order
                /\ subs'[i].status = "ACTIVE" => subs[i].status = "ACTIVE"
           /\ LET new == subs'[n + 1] IN
                /\ new \in SubRows /\ new.order = req[r].order /\ new.user = req[r].user /\ new.plan = req[r].plan
                /\ new.tier = Tier(req[r].plan) /\ new.mode = req[r].mode /\ new.days = req[r].days
                /\ new.expiresAt = req[r].start + req[r].days
<1>1. r \in Workers /\ req[r].at = "write" BY DEF GrantWrite, Workers
<1>2. PICK j \in WriteJobs : j = req[r] BY <1>1, JobOf
<1>3. /\ j.order \in OrderIds \union {None} /\ j.user \in Users /\ j.plan \in Plans /\ j.days \in Nat
      /\ j.mode \in Modes /\ j.source \in Sources /\ j.start \in Nat
  BY DEF WriteJobs
<1>4. n \in Nat /\ DOMAIN subs = 1 .. n /\ \A i \in 1 .. n : subs[i] \in SubRows BY RowOf
<1>5. PICK tier \in {1, 2}, ends \in Nat : tier = Tier(j.plan) /\ ends = j.start + j.days BY <1>3 DEF Tier
<1> DEFINE new == [user |-> j.user, plan |-> j.plan, tier |-> tier, source |-> j.source,
                   status |-> "ACTIVE", expiresAt |-> ends, order |-> j.order, mode |-> j.mode, days |-> j.days]
           ended == [i \in DOMAIN subs |-> IF i \in j.rows THEN [subs[i] EXCEPT !.status = "EXPIRED"]
                                           ELSE subs[i]]
<1>6. subs' = Append(ended, new) BY <1>2, <1>5 DEF GrantWrite
<1>7. new \in SubRows BY <1>3 DEF SubRows
<1>8. /\ new.order = j.order /\ new.user = j.user /\ new.plan = j.plan /\ new.tier = Tier(j.plan)
      /\ new.mode = j.mode /\ new.days = j.days /\ new.expiresAt = j.start + j.days
  BY <1>5
<1>9. ASSUME NEW i \in 1 .. n
      PROVE  /\ ended[i] \in SubRows /\ ended[i].user = subs[i].user /\ ended[i].plan = subs[i].plan
             /\ ended[i].tier = subs[i].tier /\ ended[i].expiresAt = subs[i].expiresAt
             /\ ended[i].order = subs[i].order
             /\ ended[i].status = "ACTIVE" => subs[i].status = "ACTIVE"
  <2>1. PICK row \in SubRows : row = subs[i] BY <1>4
  <2> DEFINE k == [row EXCEPT !.status = "EXPIRED"]
  <2>2. /\ k \in SubRows /\ k.user = row.user /\ k.plan = row.plan /\ k.tier = row.tier
        /\ k.expiresAt = row.expiresAt /\ k.order = row.order /\ k.status = "EXPIRED"
    BY DEF SubRows
  <2>3. ended[i] = k \/ ended[i] = row BY <1>4, <2>1
  <2> HIDE DEF k, ended
  <2>4. QED BY <2>1, <2>2, <2>3
<1>10. DOMAIN ended = 1 .. n BY <1>4
<1>11. ended = [i \in 1 .. n |-> ended[i]] BY <1>4
<1> HIDE DEF ended, new
<1>12. ended \in Seq(SubRows) /\ Len(ended) = n BY <1>4, <1>9, <1>10, <1>11
<1>13. /\ subs' \in Seq(SubRows) /\ DOMAIN subs' = 1 .. n + 1 /\ subs'[n + 1] = new
       /\ \A i \in 1 .. n : subs'[i] = ended[i]
  BY <1>4, <1>6, <1>7, <1>12
<1>14. QED BY <1>2, <1>4, <1>7, <1>8, <1>9, <1>13

\* Writing a term keeps the invariant: the account is covered, and the order is granted once.
LEMMA GrantWriteFits == ASSUME OrdersInv, NEW r \in Requests, GrantWrite(r) PROVE OrdersInv'
<1>1. /\ r \in Workers /\ req[r].at = "write" /\ UNCHANGED <<gateway, order, payment, redeemed, offer, now>>
      /\ allowance' = [allowance EXCEPT ![req[r].user] = Max({@, Devices[req[r].plan]})]
  BY DEF GrantWrite, Workers
<1>2. req[r] \in WriteJobs BY <1>1, JobOf DEF OrdersInv
<1>3. PICK o \in OrderIds \union {None}, h \in Hooks \union {None}, u \in Users, p \in Plans :
               o = req[r].order /\ h = req[r].hook /\ u = req[r].user /\ p = req[r].plan
  BY <1>2 DEF WriteJobs
<1>4. PICK n : n = Len(subs) OBVIOUS
<1>5. /\ n \in Nat /\ DOMAIN subs = 1 .. n /\ DOMAIN subs' = 1 .. n + 1 /\ subs' \in Seq(SubRows)
      /\ \A i \in 1 .. n :
           /\ subs'[i].user = subs[i].user /\ subs'[i].plan = subs[i].plan /\ subs'[i].tier = subs[i].tier
           /\ subs'[i].expiresAt = subs[i].expiresAt /\ subs'[i].order = subs[i].order
           /\ subs'[i].status = "ACTIVE" => subs[i].status = "ACTIVE"
  BY <1>4, WriteShape DEF OrdersInv
<1>6. /\ subs'[n + 1] \in SubRows /\ subs'[n + 1].order = o /\ subs'[n + 1].user = u
      /\ subs'[n + 1].plan = p /\ subs'[n + 1].tier = Tier(p)
  BY <1>3, <1>4, WriteShape DEF OrdersInv
<1>7. JobFits(r) /\ (o # None => Taken(o) /\ ~Granted(o)) /\ (req[r].promo => o # None)
  BY <1>1, <1>3 DEF OrdersInv, MoneyInv, JobFits
<1>8. PICK job \in {Idle} \union RedeemJobs :
          /\ Proceed(r, job) /\ job.at \in {"idle", "redeem"} /\ (job.at = "redeem" => job.order = o /\ o # None)
  <2>1. CASE req[r].promo
    <3>1. [at |-> "redeem", order |-> o, hook |-> h] \in RedeemJobs BY <1>7, <2>1 DEF RedeemJobs
    <3>2. Proceed(r, [at |-> "redeem", order |-> o, hook |-> h]) BY <1>3, <2>1 DEF GrantWrite
    <3>3. QED BY <1>7, <2>1, <3>1, <3>2
  <2>2. CASE ~req[r].promo
    <3>1. Proceed(r, Idle) /\ Idle.at = "idle" BY <2>2 DEF GrantWrite, Finish, Idle
    <3>2. QED BY <3>1
  <2>3. QED BY <2>1, <2>2
<1>9. hooks' \subseteq hooks BY DEF GrantWrite, Finish, Acked
<1>10. job \in Jobs BY <1>8 DEF Jobs
<1>11. /\ req' \in [Workers -> Jobs] /\ req'[r] = job /\ \A q \in Workers \ {r} : req'[q] = req[q]
  BY <1>1, <1>8, <1>10, Goes DEF OrdersInv
<1>12. allowance \in [Users -> {1, 2, 3}] /\ {Devices[x] : x \in DOMAIN Devices} = {1, 2, 3}
  <2>1. {Devices[x] : x \in DOMAIN Devices} = {1, 2, 3}
    <3>1. \A y \in {Devices[x] : x \in DOMAIN Devices} : y \in {1, 2, 3} BY PlanDevices
    <3>2. \A y \in {1, 2, 3} : y \in {Devices[x] : x \in DOMAIN Devices} BY PlanDevices
    <3>3. QED BY <3>1, <3>2
  <2>2. QED BY <2>1 DEF OrdersInv, Typed, TypeOK
<1>13. Devices[p] \in {1, 2, 3} BY PlanDevices DEF Plans
<1>14. PICK m \in {1, 2, 3} : m = Max({allowance[u], Devices[p]}) /\ allowance[u] <= m /\ Devices[p] <= m
  BY <1>12, <1>13, GreaterOf
<1>15. /\ allowance' \in [Users -> {1, 2, 3}] /\ allowance'[u] = m
       /\ \A v \in Users \ {u} : allowance'[v] = allowance[v]
  BY <1>1, <1>3, <1>12, <1>14
<1>16. Typed'
  <2>1. \A i \in DOMAIN subs' : subs'[i] \in SubRows BY <1>5
  <2>2. \A i \in 1 .. n : subs[i].tier = Tier(subs[i].plan) BY <1>5 DEF OrdersInv, Typed
  <2>3. \A i \in DOMAIN subs' : i = n + 1 \/ i \in 1 .. n BY <1>5
  <2>4. \A i \in DOMAIN subs' : subs'[i].tier = Tier(subs'[i].plan) BY <1>5, <1>6, <2>2, <2>3
  <2>5. \A i \in DOMAIN subs' : /\ subs'[i].status \in {"ACTIVE", "EXPIRED", "DISABLED"}
                                /\ subs'[i].source \in {"order", "trial", "manual"}
    BY <2>1 DEF SubRows, Sources
  <2>6. TypeOK' BY <1>1, <1>9, <1>12, <1>15, <2>5 DEF OrdersInv, Typed, TypeOK
  <2>7. QED BY <1>1, <1>5, <1>11, <2>4, <2>6 DEF OrdersInv, Typed
<1>17. \A x \in OrderIds : Granted(x)' <=> Granted(x) \/ x = o
  <2>1. \A i \in DOMAIN subs' : i = n + 1 \/ i \in DOMAIN subs BY <1>5
  <2>2. n + 1 \in DOMAIN subs' /\ \A i \in DOMAIN subs : i \in DOMAIN subs' BY <1>5
  <2>3. QED BY <1>5, <1>6, <2>1, <2>2 DEF Granted
<1>18. MoneyInv'
  <2>1. \A x : (Taken(x)' <=> Taken(x)) /\ (Paid(x)' <=> Paid(x)) /\ (Payable(x)' <=> Payable(x))
    BY <1>1 DEF Taken, Paid, Payable
  <2>2. ASSUME NEW x \in OrderIds PROVE PaymentFits(x)' /\ OrderFits(x)'
    <3>1. PaymentFits(x) /\ OrderFits(x) BY DEF OrdersInv, MoneyInv
    <3>2. PaymentFits(x)' BY <1>1, <3>1 DEF PaymentFits
    <3>3. ASSUME NEW q \in Requests, Granting(q, x) PROVE x = o \/ Granting(q, x)'
      BY <1>3, <1>11, <3>3 DEF Granting, Workers
    <3>4. OrderFits(x)'
      <4>1. Granted(x)' => Taken(x)' BY <1>7, <1>17, <2>1, <3>1, OrdersAssumption DEF OrderFits, OrdersAssumption
      <4>2. Paid(x)' => Granted(x)' \/ \E q \in Requests : Granting(q, x)' BY <1>17, <2>1, <3>1, <3>3 DEF OrderFits
      <4>3. QED BY <2>1, <3>1, <4>1, <4>2 DEF OrderFits
    <3>5. QED BY <3>2, <3>4
  <2>3. \A k \in hooks' : HookFits(k)' BY <1>1, <1>9 DEF OrdersInv, MoneyInv, HookFits
  <2>4. JobFits(r)' BY <1>8, <1>11, <1>17 DEF JobFits
  <2>5. ASSUME NEW q \in Workers \ {r} PROVE JobFits(q)'
    <3>1. JobFits(q) /\ OrdersApart(q, r) /\ req'[q] = req[q] BY <1>1, <1>11 DEF OrdersInv, MoneyInv
    <3>2. \A x \in OrderIds : x = o => Granting(r, x) BY <1>1, <1>3 DEF Granting
    <3>3. req[q].at \in {"grant", "write"} => req[q].order \in OrderIds \union {None}
      BY JobOf DEF ClaimJobs, GiftJobs, WriteJobs, OrdersInv
    <3>4. req[q].at = "redeem" => req[q].order \in OrderIds BY JobOf DEF RedeemJobs, OrdersInv
    <3>5. ASSUME req[q].at \in {"grant", "write"}, req[q].order # None
          PROVE  Taken(req[q].order)' /\ ~Granted(req[q].order)'
      <4>1. req[q].order # o /\ req[q].order \in OrderIds BY <3>1, <3>2, <3>3, <3>5 DEF OrdersApart, Granting
      <4>2. QED BY <1>17, <2>1, <3>1, <3>5, <4>1 DEF JobFits
    <3>6. req[q].at = "redeem" => Granted(req[q].order)' BY <1>17, <3>1, <3>4 DEF JobFits
    <3>7. req[q].at \in {"grant", "write"} /\ req[q].promo => req[q].order # None BY <3>1 DEF JobFits
    <3>8. /\ req[q].at = "lookup" => order'[req[q].order] # None
          /\ req[q].at \in {"checkout", "link"} => order'[req[q].order] # None /\ ~order'[req[q].order].link
      BY <1>1, <3>1 DEF JobFits
    <3>9. req[q].at \in {"read", "claim"} => Payable(req[q].order)' BY <2>1, <3>1 DEF JobFits
    <3>10. QED BY <3>1, <3>5, <3>6, <3>7, <3>8, <3>9 DEF JobFits, Taken, Granted, Payable
  <2>6. ASSUME NEW a1 \in Workers, NEW a2 \in Workers, a1 # a2 PROVE OrdersApart(a1, a2)'
    <3>1. CASE a1 = r \/ a2 = r
      BY <1>8, <1>11, <3>1 DEF OrdersApart, Making, Granting
    <3>2. CASE a1 # r /\ a2 # r
      <4>1. req'[a1] = req[a1] /\ req'[a2] = req[a2] /\ OrdersApart(a1, a2)
        BY <1>11, <2>6, <3>2 DEF OrdersInv, MoneyInv
      <4>2. QED BY <4>1 DEF OrdersApart, Making, Granting
    <3>3. QED BY <3>1, <3>2
  <2>7. ASSUME NEW i \in DOMAIN subs', NEW k \in DOMAIN subs', subs'[i].order = subs'[k].order, subs'[i].order # None
        PROVE  i = k
    <3>1. (i = n + 1 \/ i \in DOMAIN subs) /\ (k = n + 1 \/ k \in DOMAIN subs) BY <1>5
    <3>2. o # None => \A x \in DOMAIN subs : subs[x].order # o BY <1>7 DEF Granted
    <3>3. CASE i \in DOMAIN subs /\ k \in DOMAIN subs BY <1>5, <2>7, <3>3 DEF OrdersInv, MoneyInv
    <3>4. CASE i = n + 1 /\ k \in DOMAIN subs BY <1>5, <1>6, <2>7, <3>2, <3>4
    <3>5. CASE k = n + 1 /\ i \in DOMAIN subs BY <1>5, <1>6, <2>7, <3>2, <3>5
    <3>6. QED BY <3>1, <3>3, <3>4, <3>5
  <2>8. \A x \in redeemed' : Granted(x)'
    <3>1. \A x \in redeemed : x \in OrderIds /\ Granted(x) BY DEF OrdersInv, Typed, TypeOK, MoneyInv
    <3>2. QED BY <1>1, <1>17, <3>1
  <2>9. \A q \in Workers : JobFits(q)' BY <2>4, <2>5
  <2>10. QED BY <2>2, <2>3, <2>6, <2>7, <2>8, <2>9 DEF MoneyInv
<1>19. DeskInv'
  <2>1. ASSUME NEW v, NEW i \in (RunningOf(v))'
        PROVE  (i = n + 1 /\ v = u) \/ (i \in RunningOf(v) /\ i \in 1 .. n)
    <3>1. i \in DOMAIN subs' /\ subs'[i].user = v /\ Running(i)' BY DEF RunningOf
    <3>2. i = n + 1 \/ i \in 1 .. n BY <1>5, <3>1
    <3>3. CASE i \in 1 .. n BY <1>1, <1>5, <3>1, <3>3 DEF RunningOf, Running
    <3>4. CASE i = n + 1 BY <1>6, <3>1, <3>4
    <3>5. QED BY <3>2, <3>3, <3>4
  <2>2. ASSUME NEW v \in Users PROVE Covered(v)'
    <3>1. SUFFICES ASSUME NEW i \in (RunningOf(v))' PROVE Devices[subs'[i].plan] <= allowance'[v]
      BY DEF Covered
    <3>2. CASE i = n + 1 /\ v = u BY <1>6, <1>14, <1>15, <3>2
    <3>3. CASE i \in RunningOf(v) /\ i \in 1 .. n
      <4>1. subs'[i].plan = subs[i].plan /\ Devices[subs[i].plan] <= allowance[v]
        BY <1>5, <3>3 DEF OrdersInv, DeskInv, Covered
      <4>2. subs[i] \in SubRows BY <1>5, <3>3, RowOf DEF OrdersInv
      <4>3. Devices[subs[i].plan] \in {1, 2, 3} BY <4>2, PlanDevices DEF SubRows, Plans
      <4>4. allowance[v] \in {1, 2, 3} BY <1>12
      <4>5. allowance[v] <= allowance'[v] /\ allowance'[v] \in {1, 2, 3} BY <1>12, <1>14, <1>15, <4>4
      <4>6. QED BY <4>1, <4>3, <4>4, <4>5
    <3>4. QED BY <2>1, <3>2, <3>3
  <2>3. ReadingFits(r)' BY <1>8, <1>11 DEF ReadingFits
  <2>4. ASSUME NEW q \in Workers \ {r} PROVE ReadingFits(q)'
    <3>1. req'[q] = req[q] /\ ReadingFits(q) /\ UsersApart(q, r) BY <1>1, <1>11 DEF OrdersInv, DeskInv
    <3>2. CASE req[q].at \notin {"write", "lower"} BY <3>1, <3>2 DEF ReadingFits
    <3>3. CASE req[q].at \in {"write", "lower"}
      <4>1. PICK v : v = req[q].user OBVIOUS
      <4>2. v # u BY <1>1, <1>3, <3>1, <3>3, <4>1 DEF UsersApart
      <4>3. \A i \in (RunningOf(v))' :
               /\ i \in RunningOf(v) /\ subs'[i].plan = subs[i].plan /\ subs'[i].tier = subs[i].tier
               /\ subs'[i].expiresAt = subs[i].expiresAt
        BY <1>5, <2>1, <4>2
      <4>4. QED BY <3>1, <4>1, <4>3 DEF ReadingFits
    <3>4. QED BY <3>2, <3>3
  <2>5. \A q \in Workers : ReadingFits(q)' BY <2>3, <2>4
  <2>6. \A q, k \in Workers : q # k => UsersApart(q, k)' BY <1>8, <1>11 DEF UsersApart, OrdersInv, DeskInv
  <2>7. QED BY <2>2, <2>5, <2>6 DEF DeskInv
<1>20. QED BY <1>16, <1>18, <1>19 DEF OrdersInv

-----------------------------------------------------------------------------
\* What the promises of billing rest on: no two of a customer's grants at once, no crash
\* between a claim and its grant, and nobody marks an order paid whose checkout may yet fail.
Orderly ==
    /\ "overlap" \notin Events /\ "crash_in_grant" \notin Events
    /\ ~("admin" \in Events /\ "checkout_fails" \in Events)

\* A request's next call keeps the invariant.
LEMMA ServeFits == ASSUME OrdersInv, NEW r \in Requests, Serve(r), Orderly PROVE OrdersInv'
<1>1. CASE CheckoutFails(r)
  <2>1. "checkout_fails" \in Events BY <1>1 DEF CheckoutFails, Happens
  <2>2. "admin" \notin Events BY <2>1 DEF Orderly
  <2>3. QED BY <1>1, <2>2, CheckoutFailsFits
<1>2. CASE GrantRead(r) BY <1>2, GrantReadFits DEF Orderly
<1>3. CASE LookUp(r) \/ Insert(r) \/ Checkout(r) \/ SaveLink(r) \/ ReadOrder(r)
  BY <1>3, LookUpFits, InsertFits, CheckoutFits, SaveLinkFits, ReadOrderFits
<1>4. CASE Claim(r) \/ GrantWrite(r) \/ Redeem(r) BY <1>4, ClaimFits, GrantWriteFits, RedeemFits
<1>5. QED BY <1>1, <1>2, <1>3, <1>4 DEF Serve

\* Every step keeps the invariant.
LEMMA OrdersStep == ASSUME OrdersInv, [Next]_vars, Orderly PROVE OrdersInv'
<1>1. CASE \E r \in Requests : Serve(r) BY <1>1, ServeFits
<1>2. CASE \E r \in Requests, u \in Users, c \in Carts : BeginOrder(r, u, c[1], c[2])
  BY <1>2, BeginOrderFits
<1>3. CASE \E r \in Requests, u \in Users : ClaimTrial(r, u) \/ Revoke(r, u)
  BY <1>3, ClaimTrialFits, RevokeFits
<1>4. CASE \E r \in Requests, u \in Users, c \in Carts, mode \in {"extend", "replace"} : Grant(r, u, c[1], mode)
  BY <1>4, GrantFits DEF Modes
<1>5. CASE \E r \in Requests, o \in OrderIds : Sync(r, o) \/ MarkPaid(r, o) BY <1>5, SyncFits, MarkPaidFits
<1>6. CASE \E r \in Requests, h \in hooks : Deliver(r, h) BY <1>6, DeliverFits
<1>7. CASE \E o \in OrderIds : Pay(o) \/ Close(o) \/ LateSuccess(o) \/ Refund(o) \/ CancelOrder(o)
  BY <1>7, GatewayFits, CancelOrderFits
<1>8. CASE \E on \in BOOLEAN, days \in 1 .. 2 : EditOffer(on, days) BY <1>8, EditOfferFits
<1>9. CASE Round
  <2>1. CASE \E r \in Workers : Downgrade(r) BY <2>1, DowngradeFits DEF Orderly
  <2>2. CASE \E r \in Workers : Lower(r) BY <2>2, LowerFits
  <2>3. QED BY <1>9, <2>1, <2>2, FindLapsedFits, ExpireFits DEF Round
<1>10. CASE CancelStale \/ Tick BY <1>10, CancelStaleFits, TickFits
<1>11. CASE Crash BY <1>11, CrashFits DEF Orderly
<1>12. CASE UNCHANGED vars
  <2>1. PICK w : w \notin Workers BY Nobody
  <2>2. Typed' BY <1>12 DEF OrdersInv, Typed, TypeOK, vars, desk
  <2>3. MoneyInv' BY <1>12, <2>1, <2>2, MoneyQuiet DEF OrdersInv, vars, desk
  <2>4. DeskInv' BY <1>12, DeskQuiet DEF OrdersInv, vars, desk
  <2>5. QED BY <2>2, <2>3, <2>4 DEF OrdersInv
<1>13. QED
  BY <1>1, <1>2, <1>3, <1>4, <1>5, <1>6, <1>7, <1>8, <1>9, <1>10, <1>11, <1>12 DEF Next

-----------------------------------------------------------------------------
\* One subscription to an order, however often it was settled.
LEMMA OneGrant ==
    ASSUME Typed, \A i, k \in DOMAIN subs : subs[i].order = subs[k].order /\ subs[i].order # None => i = k
    PROVE  GrantedOnce
<1> SUFFICES ASSUME NEW o \in OrderIds PROVE Cardinality({i \in DOMAIN subs : subs[i].order = o}) <= 1
  BY DEF GrantedOnce
<1> DEFINE S == {i \in DOMAIN subs : subs[i].order = o}
<1>1. o # None BY OrdersAssumption DEF OrdersAssumption
<1>2. CASE S = {} BY <1>2, FS_EmptySet
<1>3. CASE S # {}
  <2>1. PICK k \in S : TRUE BY <1>3
  <2>2. \A i \in S : i = k BY <1>1
  <2>3. S = {k} BY <2>1, <2>2
  <2>4. QED BY <2>3, FS_Singleton
<1>4. QED BY <1>2, <1>3

\* The invariant is what billing promises of a state.
LEMMA OrdersSoundHolds == ASSUME OrdersInv PROVE OrdersSound
<1>1. TypeOK BY DEF OrdersInv, Typed
<1>2. GrantedOnce BY OneGrant DEF OrdersInv, MoneyInv
<1>3. PaidIsGranted BY DEF PaidIsGranted, OrdersInv, MoneyInv, OrderFits, Granting
<1>4. PromoOfPaid BY DEF PromoOfPaid, OrdersInv, MoneyInv
<1>5. AllowanceCoversPlan
  <2>1. SUFFICES ASSUME NEW u \in Users PROVE allowance[u] >= Devices[Best(u)] BY DEF AllowanceCoversPlan
  <2>2. {Devices[x] : x \in DOMAIN Devices} = {1, 2, 3}
    <3>1. \A y \in {Devices[x] : x \in DOMAIN Devices} : y \in {1, 2, 3} BY PlanDevices
    <3>2. \A y \in {1, 2, 3} : y \in {Devices[x] : x \in DOMAIN Devices} BY PlanDevices
    <3>3. QED BY <3>1, <3>2
  <2>3. allowance[u] \in {1, 2, 3} BY <1>1, <2>2 DEF TypeOK
  <2>4. Devices[Best(u)] \in {1, 2, 3} /\ (Best(u) = "free" \/ \E i \in RunningOf(u) : Best(u) = subs[i].plan)
    BY BestRuns DEF OrdersInv
  <2>5. CASE Best(u) = "free" BY <2>3, <2>5, PlanDevices
  <2>6. CASE \E i \in RunningOf(u) : Best(u) = subs[i].plan
    <3>1. Devices[Best(u)] <= allowance[u] BY <2>6 DEF OrdersInv, DeskInv, Covered
    <3>2. QED BY <2>3, <2>4, <3>1
  <2>7. QED BY <2>4, <2>5, <2>6
<1>6. QED BY <1>1, <1>2, <1>3, <1>4, <1>5 DEF OrdersSound

\* Theorem: whoever settles an order, and however often, in whatever order the verdicts of the
\* gateway come in, an order that was paid has one subscription or a request about to write it; a
\* promo code is used up by nothing less; and nobody has fewer devices than his best plan gives.
THEOREM OrdersKept == Orderly => (Spec => []OrdersSound)
<1> SUFFICES ASSUME Orderly PROVE Spec => []OrdersSound OBVIOUS
<1>1. Init => OrdersInv BY OrdersInitial
<1>2. OrdersInv /\ [Next]_vars => OrdersInv' BY OrdersStep
<1>3. OrdersInv => OrdersSound BY OrdersSoundHolds
<1>4. QED BY <1>1, <1>2, <1>3, PTL DEF Spec

-----------------------------------------------------------------------------
(***************************************************************************)
(* The ledger of orders.                                                   *)
(***************************************************************************)
\* What the ledger sees of an order's status.
StatusView == [o \in OrderIds |-> IF order[o] = None THEN "NONE" ELSE order[o].status]
\* What it sees of the terms on which it was placed.
TermsView == [o \in OrderIds |-> IF order[o] = None THEN None ELSE <<order[o].user, order[o].plan>>]
\* And what it sees of the subscriptions that orders bought.
BoughtView == {<<subs[i].order, <<subs[i].user, subs[i].plan>>>> : i \in FromOrders}

\* Who is about to pay an order or to grant it does so on the order's terms.
BuyersInv ==
    \A r \in Workers :
        req[r].at \in {"claim", "grant", "write"} /\ req[r].order \in OrderIds =>
            /\ order[req[r].order] # None
            /\ req[r].user = order[req[r].order].user /\ req[r].plan = order[req[r].order].plan

\* An order is a row of its table, whose status is none that the ledger gives to an empty place.
LEMMA OrderRow ==
    ASSUME OrdersInv, NEW o \in OrderIds, order[o] # None
    PROVE  order[o] \in OrderRows /\ order[o].status \in Statuses
BY DEF OrdersInv, Typed, TypeOK, OrderRows

\* Nothing is ordered and nothing was bought: the ledger begins.
LEMMA LedgerBegins == Init => Ledger!Init /\ BuyersInv
<1> SUFFICES ASSUME Init PROVE Ledger!Init /\ BuyersInv OBVIOUS
<1>1. \A o \in OrderIds : order[o] = None BY DEF Init
<1>2. subs = << >> /\ redeemed = {} BY DEF Init
<1>3. FromOrders = {} BY <1>2 DEF FromOrders
<1>4. BoughtView = {} BY <1>3 DEF BoughtView
<1>5. Ledger!Init BY <1>1, <1>2, <1>4 DEF Ledger!Init, BoughtView
<1>6. \A r \in Workers : req[r].at = "idle" BY DEF Init, Idle
<1>7. BuyersInv BY <1>6 DEF BuyersInv
<1>8. QED BY <1>5, <1>7

\* Orders S get status s, each on the terms it has; nobody's subscription moves.
LEMMA StatusMoves ==
    ASSUME OrdersInv, subs' = subs, redeemed' = redeemed, NEW S \in SUBSET OrderIds, NEW s,
           \A o \in OrderIds \ S : order'[o] = order[o],
           \A o \in S : /\ order[o] # None /\ order'[o] # None /\ order'[o].status = s
                        /\ order'[o].user = order[o].user /\ order'[o].plan = order[o].plan
    PROVE  /\ StatusView' = [o \in OrderIds |-> IF o \in S THEN s ELSE StatusView[o]]
           /\ TermsView' = TermsView /\ BoughtView' = BoughtView
<1>1. BoughtView' = BoughtView BY DEF BoughtView, FromOrders
<1>2. ASSUME NEW o \in OrderIds
      PROVE  /\ StatusView'[o] = IF o \in S THEN s ELSE StatusView[o]
             /\ TermsView'[o] = TermsView[o]
  <2>1. CASE o \in S BY <2>1 DEF StatusView, TermsView
  <2>2. CASE o \notin S BY <2>2 DEF StatusView, TermsView
  <2>3. QED BY <2>1, <2>2
<1>3. StatusView' = [o \in OrderIds |-> StatusView'[o]] /\ TermsView' = [o \in OrderIds |-> TermsView'[o]]
      /\ TermsView = [o \in OrderIds |-> TermsView[o]]
  BY DEF StatusView, TermsView
<1>4. QED BY <1>1, <1>2, <1>3

\* A function that differs from another in one place.
LEMMA OnePlace ==
    ASSUME NEW S, NEW f, NEW g, f = [x \in S |-> f[x]], g = [x \in S |-> g[x]],
           NEW o \in S, NEW v, g[o] = v, \A x \in S \ {o} : g[x] = f[x]
    PROVE  g = [f EXCEPT ![o] = v]
OBVIOUS

\* The same of one order.
LEMMA OneStatusMoves ==
    ASSUME OrdersInv, subs' = subs, redeemed' = redeemed, NEW o \in OrderIds, NEW s,
           \A x \in OrderIds \ {o} : order'[x] = order[x],
           order[o] # None, order'[o] # None, order'[o].status = s,
           order'[o].user = order[o].user, order'[o].plan = order[o].plan
    PROVE  /\ StatusView' = [StatusView EXCEPT ![o] = s] /\ StatusView'[o] = s
           /\ StatusView[o] = order[o].status
           /\ TermsView' = TermsView /\ BoughtView' = BoughtView
<1> DEFINE S == {o}
<1>1. S \in SUBSET OrderIds OBVIOUS
<1>2. \A x \in OrderIds \ S : order'[x] = order[x] OBVIOUS
<1>3. \A x \in S : /\ order[x] # None /\ order'[x] # None /\ order'[x].status = s
                   /\ order'[x].user = order[x].user /\ order'[x].plan = order[x].plan
  OBVIOUS
<1>4. \A x \in OrderIds \ {o} : x \notin S OBVIOUS
<1>5. o \in S OBVIOUS
<1> HIDE DEF S
<1>6. /\ StatusView' = [x \in OrderIds |-> IF x \in S THEN s ELSE StatusView[x]]
      /\ TermsView' = TermsView /\ BoughtView' = BoughtView
  BY <1>1, <1>2, <1>3, StatusMoves
<1>7. StatusView'[o] = s /\ \A x \in OrderIds \ {o} : StatusView'[x] = StatusView[x] BY <1>4, <1>5, <1>6
<1>8. StatusView' = [x \in OrderIds |-> StatusView'[x]] /\ StatusView = [x \in OrderIds |-> StatusView[x]]
  BY DEF StatusView
<1>9. StatusView' = [StatusView EXCEPT ![o] = s] BY <1>7, <1>8, OnePlace
<1>10. StatusView[o] = order[o].status BY DEF StatusView
<1>11. QED BY <1>6, <1>7, <1>9, <1>10

\* Nothing the ledger sees has changed.
LEMMA LedgerStill ==
    ASSUME StatusView' = StatusView, TermsView' = TermsView, BoughtView' = BoughtView, redeemed' = redeemed
    PROVE  [Ledger!Next]_(Ledger!vars)
BY DEF StatusView, TermsView, BoughtView, Ledger!vars

\* The same where no table is written.
LEMMA TablesStill ==
    ASSUME order' = order, subs' = subs, redeemed' = redeemed
    PROVE  [Ledger!Next]_(Ledger!vars)
<1>1. StatusView' = StatusView /\ TermsView' = TermsView BY DEF StatusView, TermsView
<1>2. BoughtView' = BoughtView BY DEF BoughtView, FromOrders
<1>3. QED BY <1>1, <1>2, LedgerStill

\* Orders that were not paid are given up.
LEMMA GivenUpStep ==
    ASSUME OrdersInv, subs' = subs, redeemed' = redeemed, NEW S \in SUBSET OrderIds,
           NEW s \in {"FAILED", "CANCELLED"},
           \A o \in OrderIds \ S : order'[o] = order[o],
           \A o \in S : /\ order[o] # None /\ ~Taken(o) /\ order'[o] # None /\ order'[o].status = s
                        /\ order'[o].user = order[o].user /\ order'[o].plan = order[o].plan
    PROVE  [Ledger!Next]_(Ledger!vars)
<1>1. /\ StatusView' = [o \in OrderIds |-> IF o \in S THEN s ELSE StatusView[o]]
      /\ TermsView' = TermsView /\ BoughtView' = BoughtView
  BY StatusMoves
<1>2. \A o \in S : StatusView[o] \in {"PENDING", "FAILED", "CANCELLED"}
  BY OrderRow DEF StatusView, Taken, Statuses
<1>3. Ledger!GiveUp(S, s)
  BY <1>1, <1>2 DEF Ledger!GiveUp, Ledger!Unpaid, StatusView, TermsView, BoughtView
<1>4. QED BY <1>3 DEF Ledger!Next

\* Order o is paid, or its money is given back.
LEMMA MoneyMoves ==
    ASSUME OrdersInv, subs' = subs, redeemed' = redeemed, NEW o \in OrderIds, order[o] # None, NEW s,
           \/ ~Taken(o) /\ s = "PAID"
           \/ Paid(o) /\ s = "REFUNDED",
           \A x \in OrderIds \ {o} : order'[x] = order[x],
           order'[o] # None, order'[o].status = s,
           order'[o].user = order[o].user, order'[o].plan = order[o].plan
    PROVE  [Ledger!Next]_(Ledger!vars)
<1>1. TermsView' = TermsView /\ BoughtView' = BoughtView BY OneStatusMoves
<1>2. StatusView' = [StatusView EXCEPT ![o] = s] BY OneStatusMoves
<1>3. CASE ~Taken(o) /\ s = "PAID"
  <2>1. StatusView[o] \in {"PENDING", "FAILED", "CANCELLED"}
    BY <1>3, OrderRow DEF StatusView, Taken, Statuses
  <2>2. Ledger!Pay(o)
    BY <1>1, <1>2, <1>3, <2>1 DEF Ledger!Pay, Ledger!Unpaid, StatusView, TermsView, BoughtView
  <2>3. QED BY <2>2 DEF Ledger!Next
<1>4. CASE Paid(o) /\ s = "REFUNDED"
  <2>1. StatusView[o] = "PAID" BY <1>4 DEF StatusView, Paid
  <2>2. Ledger!GiveBack(o)
    BY <1>1, <1>2, <1>4, <2>1 DEF Ledger!GiveBack, StatusView, TermsView, BoughtView
  <2>3. QED BY <2>2 DEF Ledger!Next
<1>5. QED BY <1>3, <1>4

\* An order gets a status and keeps everything else.
LEMMA StatusOnly ==
    ASSUME OrdersInv, NEW o \in OrderIds, order[o] # None, NEW s \in Statuses,
           order' = [order EXCEPT ![o].status = s]
    PROVE  /\ \A x \in OrderIds \ {o} : order'[x] = order[x]
           /\ order'[o] # None /\ order'[o].status = s
           /\ order'[o].user = order[o].user /\ order'[o].plan = order[o].plan
<1>1. order \in [OrderIds -> {None} \union OrderRows] BY DEF OrdersInv, Typed, TypeOK
<1>2. PICK row \in OrderRows : row = order[o] BY OrderRow
<1> DEFINE new == [row EXCEPT !.status = s]
<1>3. new \in OrderRows /\ new.status = s /\ new.user = row.user /\ new.plan = row.plan BY DEF OrderRows
<1>4. order' = [order EXCEPT ![o] = new] BY <1>2
<1> HIDE DEF new
<1>5. order'[o] = new /\ \A x \in OrderIds \ {o} : order'[x] = order[x] BY <1>1, <1>4
<1>6. new # None BY <1>3, OrdersAssumption DEF OrdersAssumption
<1>7. QED BY <1>2, <1>3, <1>5, <1>6

\* A final status of the gateway: the order is given up, or its money given back, or nothing is new.
LEMMA SettledLedger ==
    ASSUME OrdersInv, subs' = subs, redeemed' = redeemed,
           NEW o \in OrderIds, order[o] # None, NEW s, order' = Settled(o, s)
    PROVE  [Ledger!Next]_(Ledger!vars)
<1>1. order[o] \in OrderRows /\ order[o].status \in Statuses BY OrderRow
<1>2. PICK to \in Statuses :
          /\ order' = [order EXCEPT ![o].status = to]
          /\ to = order[o].status \/ (order[o].status = "PENDING" /\ to \in {"FAILED", "CANCELLED"})
               \/ (order[o].status = "PAID" /\ to = "REFUNDED")
  BY <1>1 DEF Settled, Statuses
<1>3. /\ \A x \in OrderIds \ {o} : order'[x] = order[x]
      /\ order'[o] # None /\ order'[o].status = to
      /\ order'[o].user = order[o].user /\ order'[o].plan = order[o].plan
  BY <1>2, StatusOnly
<1>4. CASE to = order[o].status
  <2>1. /\ StatusView' = [StatusView EXCEPT ![o] = to] /\ StatusView[o] = to
        /\ TermsView' = TermsView /\ BoughtView' = BoughtView
    BY <1>3, <1>4, OneStatusMoves
  <2>2. StatusView = [x \in OrderIds |-> StatusView[x]] BY DEF StatusView
  <2>3. StatusView' = StatusView BY <2>1, <2>2
  <2>4. QED BY <2>1, <2>3, LedgerStill
<1>5. CASE order[o].status = "PENDING" /\ to \in {"FAILED", "CANCELLED"}
  <2>1. ~Taken(o) /\ {o} \in SUBSET OrderIds BY <1>5 DEF Taken
  <2>2. QED BY <1>3, <1>5, <2>1, GivenUpStep
<1>6. CASE order[o].status = "PAID" /\ to = "REFUNDED"
  <2>1. Paid(o) BY <1>6 DEF Paid
  <2>2. QED BY <1>3, <1>6, <2>1, MoneyMoves
<1>7. QED BY <1>2, <1>4, <1>5, <1>6

\* A request's call, up to the claim.
LEMMA InsertLedger == ASSUME OrdersInv, NEW r \in Requests, Insert(r) PROVE [Ledger!Next]_(Ledger!vars)
<1>1. r \in Workers /\ req[r].at = "insert" /\ subs' = subs /\ redeemed' = redeemed BY DEF Insert, Workers, desk
<1>2. req[r] \in InsertJobs BY <1>1, JobOf DEF OrdersInv
<1>3. PICK u \in Users, p \in Plans : u = req[r].user /\ p = req[r].plan BY <1>2 DEF InsertJobs
<1>4. CASE order' = order BY <1>1, <1>4, TablesStill
<1>5. ASSUME NEW o \in OrderIds, order[o] = None, NEW row, row.status = "PENDING", row.user = u, row.plan = p,
             row # None, order' = [order EXCEPT ![o] = row]
      PROVE  [Ledger!Next]_(Ledger!vars)
  <2>1. order \in [OrderIds -> {None} \union OrderRows] BY DEF OrdersInv, Typed, TypeOK
  <2>2. order'[o] = row /\ \A x \in OrderIds \ {o} : order'[x] = order[x] BY <1>5, <2>1
  <2>3. StatusView' = [StatusView EXCEPT ![o] = "PENDING"] /\ StatusView[o] = "NONE"
    <3>1. /\ StatusView = [x \in OrderIds |-> StatusView[x]]
          /\ StatusView' = [x \in OrderIds |-> StatusView'[x]]
      BY DEF StatusView
    <3>2. StatusView[o] = "NONE" BY <1>5 DEF StatusView
    <3>3. StatusView'[o] = "PENDING" BY <1>5, <2>2 DEF StatusView
    <3>4. \A x \in OrderIds \ {o} : StatusView'[x] = StatusView[x] BY <2>2 DEF StatusView
    <3>5. QED BY <3>1, <3>2, <3>3, <3>4, OnePlace
  <2>4. TermsView' = [TermsView EXCEPT ![o] = <<u, p>>]
    <3>1. /\ TermsView = [x \in OrderIds |-> TermsView[x]]
          /\ TermsView' = [x \in OrderIds |-> TermsView'[x]]
      BY DEF TermsView
    <3>2. TermsView'[o] = <<u, p>> BY <1>5, <2>2 DEF TermsView
    <3>3. \A x \in OrderIds \ {o} : TermsView'[x] = TermsView[x] BY <2>2 DEF TermsView
    <3>4. QED BY <3>1, <3>2, <3>3, OnePlace
  <2>5. BoughtView' = BoughtView BY <1>1 DEF BoughtView, FromOrders
  <2>6. Ledger!Place(o, u, p)
    BY <1>1, <2>3, <2>4, <2>5 DEF Ledger!Place, StatusView, TermsView, BoughtView
  <2>7. QED BY <2>6 DEF Ledger!Next
<1>6. CASE \E o \in OrderIds :
             /\ order[o] = None
             /\ order' = [order EXCEPT ![o] = [status |-> "PENDING", user |-> req[r].user, plan |-> req[r].plan,
                                               promo |-> req[r].promo, source |-> req[r].plan, link |-> FALSE,
                                               born |-> now]]
  <2>1. PICK o \in OrderIds :
             /\ order[o] = None
             /\ order' = [order EXCEPT ![o] = [status |-> "PENDING", user |-> req[r].user, plan |-> req[r].plan,
                                               promo |-> req[r].promo, source |-> req[r].plan, link |-> FALSE,
                                               born |-> now]]
    BY <1>6
  <2> DEFINE row == [status |-> "PENDING", user |-> req[r].user, plan |-> req[r].plan, promo |-> req[r].promo,
                     source |-> req[r].plan, link |-> FALSE, born |-> now]
  <2>2. now \in 0 .. MaxTime BY DEF OrdersInv, Typed
  <2>3. row \in OrderRows BY <1>2, <2>2 DEF OrderRows, Statuses, InsertJobs
  <2>4. row.status = "PENDING" /\ row.user = u /\ row.plan = p BY <1>3
  <2>5. order' = [order EXCEPT ![o] = row] BY <2>1
  <2> HIDE DEF row
  <2>6. row # None BY <2>3, OrdersAssumption DEF OrdersAssumption
  <2>7. QED BY <1>5, <2>1, <2>4, <2>5, <2>6
<1>7. QED BY <1>4, <1>6 DEF Insert

\* A checkout that fails gives up an order nobody has paid.
LEMMA CheckoutFailsLedger ==
    ASSUME OrdersInv, NEW r \in Requests, CheckoutFails(r), "admin" \notin Events
    PROVE  [Ledger!Next]_(Ledger!vars)
<1>1. r \in Workers /\ req[r].at = "checkout" /\ subs' = subs /\ redeemed' = redeemed
  BY DEF CheckoutFails, Workers, desk
<1>2. req[r] \in LinkJobs BY <1>1, JobOf DEF OrdersInv
<1>3. PICK o \in OrderIds : o = req[r].order BY <1>2 DEF LinkJobs
<1>4. order[o] # None /\ ~order[o].link BY <1>1, <1>3 DEF OrdersInv, MoneyInv, JobFits
<1>5. ~Taken(o) BY <1>4 DEF OrdersInv, MoneyInv, OrderFits, Payable
<1>6. order \in [OrderIds -> {None} \union OrderRows] BY DEF OrdersInv, Typed, TypeOK
<1>7. PICK old \in OrderRows : old = order[o] BY <1>4, OrderRow
<1> DEFINE row == [old EXCEPT !.status = "FAILED", !.promo = FALSE, !.source = "order"]
<1>8. row \in OrderRows /\ row.status = "FAILED" /\ row.user = old.user /\ row.plan = old.plan
  BY DEF OrderRows, Statuses
<1>9. order' = [order EXCEPT ![o] = row] BY <1>3, <1>6, <1>7 DEF CheckoutFails
<1> HIDE DEF row
<1>10. row # None BY <1>8, OrdersAssumption DEF OrdersAssumption
<1>11. order'[o] = row /\ \A x \in OrderIds \ {o} : order'[x] = order[x] BY <1>6, <1>9
<1>12. {o} \in SUBSET OrderIds BY <1>3
<1>13. QED BY <1>1, <1>4, <1>5, <1>7, <1>8, <1>10, <1>11, <1>12, GivenUpStep

\* The link of an order is nothing to the ledger.
LEMMA SaveLinkLedger == ASSUME OrdersInv, NEW r \in Requests, SaveLink(r) PROVE [Ledger!Next]_(Ledger!vars)
<1>1. r \in Workers /\ req[r].at = "link" /\ subs' = subs /\ redeemed' = redeemed BY DEF SaveLink, Workers, desk
<1>2. req[r] \in LinkJobs BY <1>1, JobOf DEF OrdersInv
<1>3. PICK o \in OrderIds : o = req[r].order BY <1>2 DEF LinkJobs
<1>4. order[o] # None BY <1>1, <1>3 DEF OrdersInv, MoneyInv, JobFits
<1>5. order \in [OrderIds -> {None} \union OrderRows] BY DEF OrdersInv, Typed, TypeOK
<1>6. PICK old \in OrderRows : old = order[o] BY <1>4, OrderRow
<1>7. PICK made \in BOOLEAN : made = (gateway # "manual") OBVIOUS
<1> DEFINE row == [old EXCEPT !.link = made]
<1>8. row \in OrderRows /\ row.status = old.status /\ row.user = old.user /\ row.plan = old.plan BY DEF OrderRows
<1>9. order' = [order EXCEPT ![o] = row] BY <1>3, <1>5, <1>6, <1>7 DEF SaveLink
<1> HIDE DEF row
<1>10. row # None BY <1>8, OrdersAssumption DEF OrdersAssumption
<1>11. order'[o] = row /\ \A x \in OrderIds \ {o} : order'[x] = order[x] BY <1>5, <1>9
<1>12. /\ order'[o] # None /\ order'[o].status = old.status
       /\ order'[o].user = order[o].user /\ order'[o].plan = order[o].plan
  BY <1>6, <1>8, <1>10, <1>11
<1>13. /\ StatusView' = [StatusView EXCEPT ![o] = old.status] /\ StatusView[o] = old.status
       /\ TermsView' = TermsView /\ BoughtView' = BoughtView
  BY <1>1, <1>4, <1>6, <1>11, <1>12, OneStatusMoves
<1>14. StatusView = [x \in OrderIds |-> StatusView[x]] BY DEF StatusView
<1>15. StatusView' = StatusView BY <1>13, <1>14
<1>16. QED BY <1>1, <1>13, <1>15, LedgerStill

\* The claim pays an order that nobody had paid.
LEMMA ClaimLedger == ASSUME OrdersInv, NEW r \in Requests, Claim(r) PROVE [Ledger!Next]_(Ledger!vars)
<1>1. r \in Workers /\ req[r].at = "claim" /\ subs' = subs /\ redeemed' = redeemed BY DEF Claim, Workers, desk
<1>2. req[r] \in ClaimJobs BY <1>1, JobOf DEF OrdersInv
<1>3. PICK o \in OrderIds : o = req[r].order BY <1>2 DEF ClaimJobs
<1>4. order[o] # None BY <1>1, <1>3 DEF OrdersInv, MoneyInv, JobFits, Payable
<1>5. CASE ~Claimable(r)
  <2>1. order' = order BY <1>5 DEF Claim
  <2>2. QED BY <1>1, <2>1, TablesStill
<1>6. CASE Claimable(r)
  <2>1. order' = [order EXCEPT ![o].status = "PAID"] BY <1>3, <1>6 DEF Claim
  <2>2. ~Taken(o) BY <1>2, <1>3, <1>6 DEF Claimable, ClaimJobs, Taken
  <2>3. /\ \A x \in OrderIds \ {o} : order'[x] = order[x]
        /\ order'[o] # None /\ order'[o].status = "PAID"
        /\ order'[o].user = order[o].user /\ order'[o].plan = order[o].plan
    BY <1>4, <2>1, StatusOnly DEF Statuses
  <2>4. QED BY <1>1, <1>4, <2>2, <2>3, MoneyMoves
<1>7. QED BY <1>5, <1>6

\* An administrator cancels an open order; the sweep cancels those that are too old.
LEMMA CancelLedger ==
    ASSUME OrdersInv, (\E o \in OrderIds : CancelOrder(o)) \/ CancelStale
    PROVE  [Ledger!Next]_(Ledger!vars)
<1>1. ASSUME NEW o \in OrderIds, CancelOrder(o) PROVE [Ledger!Next]_(Ledger!vars)
  <2>1. /\ order[o] # None /\ order[o].status = "PENDING" /\ order' = [order EXCEPT ![o].status = "CANCELLED"]
        /\ subs' = subs /\ redeemed' = redeemed
    BY <1>1 DEF CancelOrder, desk
  <2>2. ~Taken(o) /\ {o} \in SUBSET OrderIds BY <2>1 DEF Taken
  <2>3. /\ \A x \in OrderIds \ {o} : order'[x] = order[x]
        /\ order'[o] # None /\ order'[o].status = "CANCELLED"
        /\ order'[o].user = order[o].user /\ order'[o].plan = order[o].plan
    BY <2>1, StatusOnly DEF Statuses
  <2>4. QED BY <2>1, <2>2, <2>3, GivenUpStep
<1>2. CASE CancelStale
  <2>1. /\ order' = [o \in OrderIds |-> IF o \in Stale THEN [order[o] EXCEPT !.status = "CANCELLED"] ELSE order[o]]
        /\ subs' = subs /\ redeemed' = redeemed
    BY <1>2 DEF CancelStale, desk
  <2>2. Stale \in SUBSET OrderIds BY DEF Stale
  <2>3. \A o \in OrderIds \ Stale : order'[o] = order[o] BY <2>1
  <2>4. ASSUME NEW o \in Stale
        PROVE  /\ order[o] # None /\ ~Taken(o) /\ order'[o] # None /\ order'[o].status = "CANCELLED"
               /\ order'[o].user = order[o].user /\ order'[o].plan = order[o].plan
    <3>1. o \in OrderIds /\ order[o] # None /\ ~Taken(o) BY DEF Stale, Taken
    <3>2. PICK old \in OrderRows : old = order[o] BY <3>1, OrderRow
    <3> DEFINE row == [old EXCEPT !.status = "CANCELLED"]
    <3>3. row \in OrderRows /\ row.status = "CANCELLED" /\ row.user = old.user /\ row.plan = old.plan
      BY DEF OrderRows, Statuses
    <3>4. order'[o] = row BY <2>1, <3>1, <3>2
    <3> HIDE DEF row
    <3>5. row # None BY <3>3, OrdersAssumption DEF OrdersAssumption
    <3>6. QED BY <3>1, <3>2, <3>3, <3>4, <3>5
  <2>5. QED BY <2>1, <2>2, <2>3, <2>4, GivenUpStep
<1>3. QED BY <1>1, <1>2

\* Rows that end stay what they were bought for.
LEMMA RowsEndLedger ==
    ASSUME OrdersInv, order' = order, redeemed' = redeemed, DOMAIN subs' = DOMAIN subs,
           \A i \in DOMAIN subs : /\ subs'[i].order = subs[i].order /\ subs'[i].user = subs[i].user
                                  /\ subs'[i].plan = subs[i].plan
    PROVE  [Ledger!Next]_(Ledger!vars)
<1>1. StatusView' = StatusView /\ TermsView' = TermsView BY DEF StatusView, TermsView
<1>2. FromOrders' = FromOrders BY DEF FromOrders
<1>3. \A i \in FromOrders : <<subs'[i].order, <<subs'[i].user, subs'[i].plan>>>>
                              = <<subs[i].order, <<subs[i].user, subs[i].plan>>>>
  BY DEF FromOrders
<1>4. BoughtView' = BoughtView BY <1>2, <1>3 DEF BoughtView
<1>5. QED BY <1>1, <1>4, LedgerStill

\* A revocation, and the monitor's expiry, end rows.
LEMMA EndedLedger ==
    ASSUME OrdersInv, (\E r \in Requests, u \in Users : Revoke(r, u)) \/ Expire
    PROVE  [Ledger!Next]_(Ledger!vars)
<1>1. \A i \in DOMAIN subs : subs[i] \in SubRows BY RowOf DEF OrdersInv
<1>2. ASSUME order' = order, redeemed' = redeemed, NEW S, NEW s, DOMAIN subs' = DOMAIN subs,
             \A i \in DOMAIN subs : subs'[i] = IF i \in S THEN [subs[i] EXCEPT !.status = s] ELSE subs[i]
      PROVE  [Ledger!Next]_(Ledger!vars)
  <2>1. ASSUME NEW i \in DOMAIN subs
        PROVE  /\ subs'[i].order = subs[i].order /\ subs'[i].user = subs[i].user
               /\ subs'[i].plan = subs[i].plan
    <3>1. PICK row \in SubRows : row = subs[i] BY <1>1
    <3> DEFINE k == [row EXCEPT !.status = s]
    <3>2. k.order = row.order /\ k.user = row.user /\ k.plan = row.plan BY DEF SubRows
    <3>3. subs'[i] = k \/ subs'[i] = row BY <1>2, <3>1
    <3> HIDE DEF k
    <3>4. QED BY <3>1, <3>2, <3>3
  <2>2. QED BY <1>2, <2>1, RowsEndLedger
<1>3. ASSUME NEW r \in Requests, NEW u \in Users, Revoke(r, u) PROVE [Ledger!Next]_(Ledger!vars)
  <2> DEFINE S == {i \in DOMAIN subs : subs[i].user = u /\ subs[i].status = "ACTIVE"}
  <2>1. order' = order /\ redeemed' = redeemed BY <1>3 DEF Revoke
  <2>2. subs' = [i \in DOMAIN subs |-> IF subs[i].user = u /\ subs[i].status = "ACTIVE"
                                       THEN [subs[i] EXCEPT !.status = "DISABLED"] ELSE subs[i]]
    BY <1>3 DEF Revoke
  <2>3. /\ DOMAIN subs' = DOMAIN subs
        /\ \A i \in DOMAIN subs : subs'[i] = IF i \in S THEN [subs[i] EXCEPT !.status = "DISABLED"] ELSE subs[i]
    BY <2>2
  <2> HIDE DEF S
  <2>4. QED BY <1>2, <2>1, <2>3
<1>4. CASE Expire
  <2>1. order' = order /\ redeemed' = redeemed BY <1>4 DEF Expire
  <2>2. subs' = [i \in DOMAIN subs |-> IF i \in Lapsed THEN [subs[i] EXCEPT !.status = "EXPIRED"] ELSE subs[i]]
    BY <1>4 DEF Expire
  <2>3. /\ DOMAIN subs' = DOMAIN subs
        /\ \A i \in DOMAIN subs : subs'[i] = IF i \in Lapsed THEN [subs[i] EXCEPT !.status = "EXPIRED"] ELSE subs[i]
    BY <2>2
  <2>4. QED BY <1>2, <2>1, <2>3
<1>5. QED BY <1>3, <1>4

\* The subscription is written: the order is fulfilled on its terms, or it was a gift.
LEMMA GrantWriteLedger ==
    ASSUME OrdersInv, BuyersInv, NEW r \in Requests, GrantWrite(r)
    PROVE  [Ledger!Next]_(Ledger!vars)
<1>1. r \in Workers /\ req[r].at = "write" /\ order' = order /\ redeemed' = redeemed BY DEF GrantWrite, Workers
<1>2. req[r] \in WriteJobs BY <1>1, JobOf DEF OrdersInv
<1>3. PICK o \in OrderIds \union {None} : o = req[r].order BY <1>2 DEF WriteJobs
<1>4. PICK n : n = Len(subs) OBVIOUS
<1>5. /\ n \in Nat /\ DOMAIN subs = 1 .. n /\ DOMAIN subs' = 1 .. n + 1
      /\ \A i \in 1 .. n : /\ subs'[i].user = subs[i].user /\ subs'[i].plan = subs[i].plan
                           /\ subs'[i].order = subs[i].order
      /\ subs'[n + 1].order = o /\ subs'[n + 1].user = req[r].user /\ subs'[n + 1].plan = req[r].plan
  BY <1>3, <1>4, WriteShape DEF OrdersInv
<1>6. StatusView' = StatusView /\ TermsView' = TermsView BY <1>1 DEF StatusView, TermsView
<1> DEFINE Bought(i) == <<subs[i].order, <<subs[i].user, subs[i].plan>>>>
           new == <<o, <<req[r].user, req[r].plan>>>>
<1>7. \A i \in 1 .. n : Bought(i)' = Bought(i) BY <1>5
<1>8. Bought(n + 1)' = new BY <1>5
<1>9. BoughtView = {Bought(i) : i \in FromOrders} /\ BoughtView' = {Bought(i)' : i \in FromOrders'} BY DEF BoughtView
<1>10. FromOrders \subseteq 1 .. n /\ FromOrders' \subseteq 1 .. n + 1 BY <1>5 DEF FromOrders
<1>11. \A i \in 1 .. n : i \in FromOrders' <=> i \in FromOrders BY <1>5 DEF FromOrders
<1>12. n + 1 \in FromOrders' <=> o # None BY <1>5 DEF FromOrders
<1> HIDE DEF Bought, new
<1>13. CASE o = None
  <2>1. FromOrders' = FromOrders
    <3>1. n \in Nat BY <1>5
    <3>2. \A i : i \in FromOrders' => i \in FromOrders BY <1>10, <1>11, <1>12, <1>13, <3>1
    <3>3. \A i : i \in FromOrders => i \in FromOrders' BY <1>10, <1>11
    <3>4. QED BY <3>2, <3>3
  <2>2. \A i \in FromOrders : Bought(i)' = Bought(i) BY <1>7, <1>10
  <2>3. BoughtView' = BoughtView BY <1>9, <2>1, <2>2
  <2>4. QED BY <1>1, <1>6, <2>3, LedgerStill
<1>14. CASE o # None
  <2>1. o \in OrderIds /\ Taken(o) /\ ~Granted(o) BY <1>1, <1>3, <1>14 DEF OrdersInv, MoneyInv, JobFits
  <2>2. FromOrders' = FromOrders \union {n + 1}
    <3>1. n \in Nat BY <1>5
    <3>2. \A i : i \in FromOrders' => i \in FromOrders \/ i = n + 1 BY <1>10, <1>11, <3>1
    <3>3. \A i : i \in FromOrders \/ i = n + 1 => i \in FromOrders' BY <1>10, <1>11, <1>12, <1>14
    <3>4. QED BY <3>2, <3>3
  <2>3. \A i \in FromOrders : Bought(i)' = Bought(i) BY <1>7, <1>10
  <2>4. BoughtView' = BoughtView \union {new} BY <1>8, <1>9, <2>2, <2>3
  <2>5. order[o] # None /\ req[r].user = order[o].user /\ req[r].plan = order[o].plan
    BY <1>1, <1>3, <2>1 DEF BuyersInv
  <2>6. new = <<o, TermsView[o]>> BY <2>1, <2>5 DEF TermsView, new
  <2>7. StatusView[o] \in {"PAID", "REFUNDED"} BY <2>1 DEF StatusView, Taken
  <2>8. \A b \in BoughtView : b[1] # o BY <2>1 DEF BoughtView, FromOrders, Granted
  <2>9. BoughtView' = BoughtView \union {<<o, TermsView[o]>>} BY <2>4, <2>6
  <2>10. Ledger!Fulfil(o)
    BY <1>1, <1>6, <2>7, <2>8, <2>9 DEF Ledger!Fulfil, StatusView, TermsView, BoughtView
  <2>11. QED BY <2>1, <2>10 DEF Ledger!Next
<1>15. QED BY <1>13, <1>14

\* The code is used up by an order that was fulfilled.
LEMMA RedeemLedger == ASSUME OrdersInv, NEW r \in Requests, Redeem(r) PROVE [Ledger!Next]_(Ledger!vars)
<1>1. /\ r \in Workers /\ req[r].at = "redeem" /\ order' = order /\ subs' = subs
      /\ redeemed' = redeemed \union {req[r].order}
  BY DEF Redeem, Workers
<1>2. req[r] \in RedeemJobs BY <1>1, JobOf DEF OrdersInv
<1>3. PICK o \in OrderIds : o = req[r].order BY <1>2 DEF RedeemJobs
<1>4. Granted(o) BY <1>1, <1>3 DEF OrdersInv, MoneyInv, JobFits
<1>5. PICK i \in DOMAIN subs : subs[i].order = o BY <1>4 DEF Granted
<1>6. i \in FromOrders BY <1>5, OrdersAssumption DEF FromOrders, OrdersAssumption
<1>7. <<subs[i].order, <<subs[i].user, subs[i].plan>>>> \in BoughtView BY <1>6 DEF BoughtView
<1>8. \E b \in BoughtView : b[1] = o BY <1>5, <1>7
<1>9. StatusView' = StatusView /\ TermsView' = TermsView BY <1>1 DEF StatusView, TermsView
<1>10. BoughtView' = BoughtView BY <1>1 DEF BoughtView, FromOrders
<1>11. Ledger!UseCode(o)
  BY <1>1, <1>3, <1>8, <1>9, <1>10 DEF Ledger!UseCode, StatusView, TermsView, BoughtView
<1>12. QED BY <1>11 DEF Ledger!Next

\* Every step of billing is a step of the ledger, or none.
LEMMA LedgerSteps ==
    ASSUME OrdersInv, BuyersInv, [Next]_vars, Orderly
    PROVE  [Ledger!Next]_(Ledger!vars)
<1>1. CASE order' = order /\ subs' = subs /\ redeemed' = redeemed BY <1>1, TablesStill
<1>2. ASSUME NEW r \in Requests, LookUp(r) PROVE [Ledger!Next]_(Ledger!vars)
  <2>1. r \in Workers /\ req[r].at = "lookup" /\ subs' = subs /\ redeemed' = redeemed
    BY <1>2 DEF LookUp, Workers, desk
  <2>2. req[r].order \in OrderIds BY <2>1, JobOf DEF LookupJobs, OrdersInv
  <2>3. order[req[r].order] # None BY <2>1 DEF OrdersInv, MoneyInv, JobFits
  <2>4. order' = order \/ order' = Settled(req[r].order, payment[req[r].order]) BY <1>2 DEF LookUp
  <2>5. QED BY <1>1, <2>1, <2>2, <2>3, <2>4, SettledLedger
<1>3. ASSUME NEW r \in Requests, NEW h \in hooks, Deliver(r, h) PROVE [Ledger!Next]_(Ledger!vars)
  <2>1. h.order \in OrderIds /\ order[h.order] # None
    BY DEF OrdersInv, Typed, TypeOK, MoneyInv, HookFits
  <2>2. subs' = subs /\ redeemed' = redeemed BY <1>3 DEF Deliver, desk
  <2>3. order' = order \/ order' = Settled(h.order, h.status) BY <1>3 DEF Deliver
  <2>4. QED BY <1>1, <2>1, <2>2, <2>3, SettledLedger
<1>4. ASSUME NEW r \in Requests, Serve(r) PROVE [Ledger!Next]_(Ledger!vars)
  <2>1. CASE Checkout(r) \/ ReadOrder(r) \/ GrantRead(r)
    BY <1>1, <2>1 DEF Checkout, ReadOrder, GrantRead, desk
  <2>2. CASE CheckoutFails(r)
    <3>1. "admin" \notin Events BY <2>2 DEF CheckoutFails, Happens, Orderly
    <3>2. QED BY <2>2, <3>1, CheckoutFailsLedger
  <2>3. QED
    BY <1>2, <1>4, <2>1, <2>2, InsertLedger, SaveLinkLedger, ClaimLedger, GrantWriteLedger, RedeemLedger DEF Serve
<1>5. CASE Next
  <2>1. CASE \E r \in Requests, u \in Users, c \in Carts : BeginOrder(r, u, c[1], c[2])
    BY <1>1, <2>1 DEF BeginOrder, FindOpen, desk
  <2>2. CASE \E r \in Requests, u \in Users : ClaimTrial(r, u) BY <1>1, <2>2 DEF ClaimTrial, FindOpen, desk
  <2>3. CASE \E r \in Requests, u \in Users, c \in Carts, mode \in {"extend", "replace"} : Grant(r, u, c[1], mode)
    BY <1>1, <2>3 DEF Grant, desk
  <2>4. CASE \E r \in Requests, x \in OrderIds : Sync(r, x) \/ MarkPaid(r, x)
    BY <1>1, <2>4 DEF Sync, MarkPaid, desk
  <2>5. CASE \E x \in OrderIds : Pay(x) \/ Close(x) \/ LateSuccess(x) \/ Refund(x)
    BY <1>1, <2>5 DEF Pay, Close, LateSuccess, Refund, Becomes, desk
  <2>6. CASE \E on \in BOOLEAN, days \in 1 .. 2 : EditOffer(on, days) BY <1>1, <2>6 DEF EditOffer
  <2>7. CASE Tick \/ Crash BY <1>1, <2>7 DEF Tick, Crash, desk
  <2>8. CASE Round
    <3>1. CASE Expire BY <3>1, EndedLedger
    <3>2. CASE FindLapsed \/ \E r \in Workers : Downgrade(r) \/ Lower(r)
      BY <1>1, <3>2 DEF FindLapsed, Downgrade, Lower, desk
    <3>3. QED BY <2>8, <3>1, <3>2 DEF Round
  <2>9. CASE \E r \in Requests, u \in Users : Revoke(r, u) BY <2>9, EndedLedger
  <2>10. CASE CancelStale \/ \E x \in OrderIds : CancelOrder(x) BY <2>10, CancelLedger
  <2>11. QED
    BY <1>3, <1>4, <1>5, <2>1, <2>2, <2>3, <2>4, <2>5, <2>6, <2>7, <2>8, <2>9, <2>10 DEF Next
<1>6. QED BY <1>1, <1>5 DEF vars, desk

\* Pairs are the same in both their parts.
LEMMA PairsEqual == ASSUME NEW a, NEW b, NEW c, NEW d, <<a, b>> = <<c, d>> PROVE a = c /\ b = d
OBVIOUS

\* The ledger forgets no order, and nobody changes what it was placed for.
LEMMA TermsStay ==
    ASSUME OrdersInv, [Ledger!Next]_(Ledger!vars), NEW o \in OrderIds, order[o] # None
    PROVE  /\ order'[o] # None
           /\ order'[o].user = order[o].user /\ order'[o].plan = order[o].plan
<1>1. StatusView[o] # "NONE" BY OrderRow DEF StatusView, Statuses
<1>2. StatusView'[o] # "NONE" /\ TermsView'[o] = TermsView[o]
  <2>1. CASE StatusView' = StatusView /\ TermsView' = TermsView BY <1>1, <2>1
  <2>2. ASSUME NEW x \in OrderIds, NEW u, NEW p, Ledger!Place(x, u, p)
        PROVE  StatusView'[o] # "NONE" /\ TermsView'[o] = TermsView[o]
    <3>1. /\ StatusView[x] = "NONE" /\ StatusView' = [StatusView EXCEPT ![x] = "PENDING"]
          /\ TermsView' = [TermsView EXCEPT ![x] = <<u, p>>]
      BY <2>2 DEF Ledger!Place, StatusView, TermsView
    <3>2. x # o BY <1>1, <3>1
    <3>3. DOMAIN StatusView = OrderIds /\ DOMAIN TermsView = OrderIds BY DEF StatusView, TermsView
    <3>4. QED BY <1>1, <3>1, <3>2, <3>3
  <2>3. ASSUME NEW S \in SUBSET OrderIds, NEW why \in {"FAILED", "CANCELLED"}, Ledger!GiveUp(S, why)
        PROVE  StatusView'[o] # "NONE" /\ TermsView'[o] = TermsView[o]
    <3>1. /\ StatusView' = [x \in OrderIds |-> IF x \in S THEN why ELSE StatusView[x]]
          /\ TermsView' = TermsView
      BY <2>3 DEF Ledger!GiveUp, StatusView, TermsView
    <3>2. QED BY <1>1, <3>1
  <2>4. ASSUME NEW x \in OrderIds, Ledger!Pay(x) \/ Ledger!GiveBack(x)
        PROVE  StatusView'[o] # "NONE" /\ TermsView'[o] = TermsView[o]
    <3>1. /\ \E s \in {"PAID", "REFUNDED"} : StatusView' = [StatusView EXCEPT ![x] = s]
          /\ TermsView' = TermsView
      BY <2>4 DEF Ledger!Pay, Ledger!GiveBack, StatusView, TermsView
    <3>2. DOMAIN StatusView = OrderIds BY DEF StatusView
    <3>3. QED BY <1>1, <3>1, <3>2
  <2>5. ASSUME NEW x \in OrderIds, Ledger!Fulfil(x) \/ Ledger!UseCode(x)
        PROVE  StatusView' = StatusView /\ TermsView' = TermsView
    BY <2>5 DEF Ledger!Fulfil, Ledger!UseCode, StatusView, TermsView
  <2>6. CASE UNCHANGED Ledger!vars BY <2>1, <2>6 DEF Ledger!vars, StatusView, TermsView
  <2>7. QED BY <2>1, <2>2, <2>3, <2>4, <2>5, <2>6 DEF Ledger!Next
<1>3. order'[o] # None BY <1>2 DEF StatusView
<1>4. TermsView'[o] = <<order'[o].user, order'[o].plan>> /\ TermsView[o] = <<order[o].user, order[o].plan>>
  BY <1>3 DEF TermsView
<1>5. <<order'[o].user, order'[o].plan>> = <<order[o].user, order[o].plan>> BY <1>2, <1>4
<1>6. order'[o].user = order[o].user /\ order'[o].plan = order[o].plan BY <1>5, PairsEqual
<1>7. QED BY <1>3, <1>6

\* A worker goes on, and the others stay.
LEMMA OneGoes ==
    ASSUME Typed, NEW r \in Workers, NEW job, Proceed(r, job), NEW q \in Workers
    PROVE  req'[q] = IF q = r THEN job ELSE req[q]
BY DEF Typed, Proceed

\* Who is about to pay or to grant an order was so before on the same terms, or has just read them.
LEMMA BuyersGo ==
    ASSUME OrdersInv, [Next]_vars, NEW q \in Workers,
           req'[q].at \in {"claim", "grant", "write"}, req'[q].order \in OrderIds
    PROVE  \/ /\ req[q].at \in {"claim", "grant", "write"} /\ req'[q].order = req[q].order
              /\ req'[q].user = req[q].user /\ req'[q].plan = req[q].plan
           \/ /\ order[req'[q].order] # None
              /\ req'[q].user = order[req'[q].order].user /\ req'[q].plan = order[req'[q].order].plan
<1> DEFINE Before == /\ req[q].at \in {"claim", "grant", "write"} /\ req'[q].order = req[q].order
                     /\ req'[q].user = req[q].user /\ req'[q].plan = req[q].plan
           Read == /\ order[req'[q].order] # None
                   /\ req'[q].user = order[req'[q].order].user /\ req'[q].plan = order[req'[q].order].plan
<1>1. CASE req'[q] = req[q] BY <1>1
<1>2. ASSUME NEW r \in Workers, NEW job, Proceed(r, job),
             job.at \notin {"claim", "grant", "write"} \/ job.order \notin OrderIds
      PROVE  Before
  <2>1. req'[q] = IF q = r THEN job ELSE req[q] BY <1>2, OneGoes DEF OrdersInv
  <2>2. q # r BY <1>2, <2>1
  <2>3. QED BY <1>1, <2>1, <2>2
<1>3. ASSUME NEW r \in Workers, Proceed(r, Idle) PROVE Before
  <2>1. Idle.at = "idle" BY DEF Idle
  <2>2. QED BY <1>2, <1>3, <2>1
<1>4. ASSUME NEW r \in Workers, NEW u, NEW p, NEW promo, FindOpen(r, u, p, promo) PROVE Before
  <2>1. \/ Proceed(r, InsertJob(u, p, promo))
        \/ \E o : Proceed(r, [at |-> "lookup", order |-> o, then |-> InsertJob(u, p, promo)])
    BY <1>4 DEF FindOpen
  <2>2. InsertJob(u, p, promo).at = "insert" BY DEF InsertJob
  <2>3. \A o : [at |-> "lookup", order |-> o, then |-> InsertJob(u, p, promo)].at = "lookup" OBVIOUS
  <2>4. QED BY <1>2, <1>4, <2>1, <2>2, <2>3
<1>5. ASSUME NEW r \in Requests, ReadOrder(r) PROVE Before \/ Read
  <2>1. r \in Workers /\ req[r].at = "read" BY <1>5 DEF ReadOrder, Workers
  <2>2. req[r].order \in OrderIds BY <2>1, JobOf DEF ReadJobs, OrdersInv
  <2>3. order[req[r].order] # None BY <2>1 DEF OrdersInv, MoneyInv, JobFits, Payable
  <2>4. CASE Proceed(r, Idle) BY <1>3, <2>1, <2>4
  <2>5. ASSUME NEW job, Proceed(r, job), job.order = req[r].order,
               job.user = order[req[r].order].user, job.plan = order[req[r].order].plan
        PROVE  Before \/ Read
    <3>1. req'[q] = IF q = r THEN job ELSE req[q] BY <2>1, <2>5, OneGoes DEF OrdersInv
    <3>2. QED BY <1>1, <2>3, <2>5, <3>1
  <2>6. Proceed(r, Idle) \/ \E job : /\ Proceed(r, job) /\ job.order = req[r].order
                                     /\ job.user = order[req[r].order].user
                                     /\ job.plan = order[req[r].order].plan
    BY <1>5 DEF ReadOrder, Finish
  <2>7. QED BY <2>4, <2>5, <2>6
<1>6. ASSUME NEW r \in Requests, Claim(r) \/ GrantRead(r) PROVE Before
  <2>1. r \in Workers /\ req[r].at \in {"claim", "grant"} BY <1>6 DEF Claim, GrantRead, Workers
  <2>2. req[r] \in ClaimJobs \union GiftJobs BY <2>1, JobOf DEF OrdersInv
  <2>3. \A j \in ClaimJobs \union GiftJobs :
           LET k == [j EXCEPT !.at = "grant"] IN k.order = j.order /\ k.user = j.user /\ k.plan = j.plan
    BY DEF ClaimJobs, GiftJobs
  <2>4. CASE Proceed(r, Idle) BY <1>3, <2>1, <2>4
  <2>5. ASSUME NEW job, Proceed(r, job), job.order = req[r].order, job.user = req[r].user, job.plan = req[r].plan
        PROVE  Before
    <3>1. req'[q] = IF q = r THEN job ELSE req[q] BY <2>1, <2>5, OneGoes DEF OrdersInv
    <3>2. QED BY <1>1, <2>1, <2>5, <3>1
  <2>6. CASE Claim(r)
    <3>1. Proceed(r, Idle) \/ Proceed(r, [req[r] EXCEPT !.at = "grant"]) BY <2>6 DEF Claim, Finish
    <3>2. QED BY <2>2, <2>3, <2>4, <2>5, <3>1
  <2>7. CASE GrantRead(r)
    <3>1. PICK rows : Proceed(r, WriteJob(req[r], rows)) BY <2>7 DEF GrantRead
    <3>2. /\ WriteJob(req[r], rows).order = req[r].order /\ WriteJob(req[r], rows).user = req[r].user
          /\ WriteJob(req[r], rows).plan = req[r].plan
      BY DEF WriteJob
    <3>3. QED BY <2>5, <3>1, <3>2
  <2>8. QED BY <1>6, <2>6, <2>7
<1>7. ASSUME NEW r \in Requests, LookUp(r) PROVE Before
  <2>1. r \in Workers /\ req[r].at = "lookup" BY <1>7 DEF LookUp, Workers
  <2>2. req[r] \in LookupJobs BY <2>1, JobOf DEF OrdersInv
  <2>3. req[r].then.at \in {"idle", "insert"} BY <2>2 DEF LookupJobs, InsertJobs, Idle
  <2>4. CASE Proceed(r, Idle) BY <1>3, <2>1, <2>4
  <2>5. CASE Proceed(r, req[r].then) BY <1>2, <2>1, <2>3, <2>5
  <2>6. CASE \E job : Proceed(r, job) /\ job.at = "read" BY <1>2, <2>1, <2>6
  <2>7. QED BY <1>7, <2>4, <2>5, <2>6 DEF LookUp
<1>8. ASSUME NEW r \in Requests, Serve(r) PROVE Before \/ Read
  <2>1. r \in Workers BY DEF Workers
  <2>2. CASE Insert(r)
    <3>1. Proceed(r, Idle) \/ \E o : Proceed(r, [at |-> "checkout", order |-> o]) BY <2>2 DEF Insert
    <3>2. \A o : [at |-> "checkout", order |-> o].at = "checkout" OBVIOUS
    <3>3. QED BY <1>2, <1>3, <2>1, <3>1, <3>2
  <2>3. CASE Checkout(r)
    <3>1. req[r] \in LinkJobs BY <2>1, <2>3, JobOf DEF OrdersInv, Checkout
    <3>2. [req[r] EXCEPT !.at = "link"].at = "link" BY <3>1 DEF LinkJobs
    <3>3. Proceed(r, [req[r] EXCEPT !.at = "link"]) BY <2>3 DEF Checkout
    <3>4. QED BY <1>2, <2>1, <3>2, <3>3
  <2>4. CASE CheckoutFails(r) \/ SaveLink(r) \/ Redeem(r)
    BY <1>3, <2>1, <2>4 DEF CheckoutFails, SaveLink, Redeem, Finish
  <2>5. CASE GrantWrite(r)
    <3>1. \E job : Proceed(r, job) /\ job.at \in {"idle", "redeem"} BY <2>5 DEF GrantWrite, Finish, Idle
    <3>2. QED BY <1>2, <2>1, <3>1
  <2>6. QED BY <1>5, <1>6, <1>7, <1>8, <2>2, <2>3, <2>4, <2>5 DEF Serve
<1>9. CASE Next
  <2>1. \A r \in Requests : r \in Workers BY DEF Workers
  <2>2. CASE \E r \in Requests, u \in Users, c \in Carts : BeginOrder(r, u, c[1], c[2])
    BY <1>4, <2>1, <2>2 DEF BeginOrder
  <2>3. CASE \E r \in Requests, u \in Users : ClaimTrial(r, u) BY <1>4, <2>1, <2>3 DEF ClaimTrial
  <2>4. ASSUME NEW r \in Requests, NEW u \in Users, NEW c \in Carts, NEW mode, Grant(r, u, c[1], mode)
        PROVE  Before
    <3>1. PICK job : Proceed(r, job) /\ job.order = None BY <2>4 DEF Grant
    <3>2. job.order \notin OrderIds BY <3>1, OrdersAssumption DEF OrdersAssumption
    <3>3. QED BY <1>2, <2>1, <3>1, <3>2
  <2>5. ASSUME NEW r \in Requests, NEW x \in OrderIds, Sync(r, x) \/ MarkPaid(r, x) PROVE Before
    <3>1. \E job : Proceed(r, job) /\ job.at \in {"lookup", "read"} BY <2>5 DEF Sync, MarkPaid
    <3>2. QED BY <1>2, <2>1, <3>1
  <2>6. ASSUME NEW r \in Requests, NEW h \in hooks, Deliver(r, h) PROVE Before
    <3>1. req' = req \/ \E job : Proceed(r, job) /\ job.at = "read" BY <2>6 DEF Deliver
    <3>2. QED BY <1>1, <1>2, <2>1, <3>1
  <2>7. ASSUME NEW r \in Requests, NEW u \in Users, Revoke(r, u) PROVE Before
    <3>1. \E job : Proceed(r, job) /\ job.at = "downgrade" BY <2>7 DEF Revoke
    <3>2. QED BY <1>2, <2>1, <3>1
  <2>8. CASE \E x \in OrderIds : Pay(x) \/ Close(x) \/ LateSuccess(x) \/ Refund(x) \/ CancelOrder(x)
    BY <1>1, <2>8 DEF Pay, Close, LateSuccess, Refund, Becomes, CancelOrder
  <2>9. CASE (\E on \in BOOLEAN, days \in 1 .. 2 : EditOffer(on, days)) \/ CancelStale \/ Tick
    BY <1>1, <2>9 DEF EditOffer, CancelStale, Tick
  <2>10. CASE Crash
    <3>1. req'[q] = Idle /\ Idle.at = "idle" BY <2>10 DEF Crash, Idle
    <3>2. QED BY <3>1
  <2>11. CASE Round
    <3>1. Monitor \in Workers BY DEF Workers
    <3>2. CASE FindLapsed \/ Expire
      <4>1. req[Monitor].at = "expire" => [req[Monitor] EXCEPT !.at = "downgrade"].at = "downgrade"
        BY <3>1, JobOf DEF RoundJobs, OrdersInv
      <4>2. \/ \E U : Proceed(Monitor, [at |-> "expire", users |-> U])
            \/ req[Monitor].at = "expire" /\ Proceed(Monitor, [req[Monitor] EXCEPT !.at = "downgrade"])
        BY <3>2 DEF FindLapsed, Expire
      <4>3. \A U : [at |-> "expire", users |-> U].at = "expire" OBVIOUS
      <4>4. QED BY <1>2, <3>1, <4>1, <4>2, <4>3
    <3>3. ASSUME NEW r \in Workers, Downgrade(r) \/ Lower(r) PROVE Before
      <4>1. \/ Proceed(r, Idle)
            \/ \E U : Proceed(r, [at |-> "downgrade", users |-> U])
            \/ \E u, d, U : Proceed(r, [at |-> "lower", user |-> u, devices |-> d, users |-> U])
        BY <3>3 DEF Downgrade, Lower
      <4>2. \A U : [at |-> "downgrade", users |-> U].at = "downgrade" OBVIOUS
      <4>3. \A u, d, U : [at |-> "lower", user |-> u, devices |-> d, users |-> U].at = "lower" OBVIOUS
      <4>4. QED BY <1>2, <1>3, <3>3, <4>1, <4>2, <4>3
    <3>4. QED BY <2>11, <3>2, <3>3 DEF Round
  <2>12. QED
    BY <1>8, <1>9, <2>2, <2>3, <2>4, <2>5, <2>6, <2>7, <2>8, <2>9, <2>10, <2>11 DEF Next
<1>10. QED BY <1>1, <1>9 DEF vars

\* What was read of an order's terms still holds when it is granted.
LEMMA BuyersStep == ASSUME OrdersInv, BuyersInv, [Next]_vars, Orderly PROVE BuyersInv'
<1>1. [Ledger!Next]_(Ledger!vars) BY LedgerSteps
<1>2. SUFFICES ASSUME NEW q \in Workers,
                      req'[q].at \in {"claim", "grant", "write"}, req'[q].order \in OrderIds
               PROVE  /\ order'[req'[q].order] # None /\ req'[q].user = order'[req'[q].order].user
                      /\ req'[q].plan = order'[req'[q].order].plan
  BY DEF BuyersInv
<1>3. PICK o \in OrderIds : o = req'[q].order BY <1>2
<1>4. order[o] # None /\ req'[q].user = order[o].user /\ req'[q].plan = order[o].plan
  BY <1>2, <1>3, BuyersGo DEF BuyersInv
<1>5. QED BY <1>1, <1>3, <1>4, TermsStay

\* Theorem: billing implements the ledger of orders. However many webhooks, polls, administrators
\* and sweeps work on it at once, an order is placed once, once paid is never failed or cancelled,
\* and buys one subscription of its plan for its customer, after the money came in.
THEOREM LedgerKept == Orderly => (Spec => KeepsLedger)
<1> SUFFICES ASSUME Orderly PROVE Spec => KeepsLedger OBVIOUS
<1> DEFINE Inv == OrdersInv /\ BuyersInv
<1>1. Init => Inv /\ Ledger!Init BY OrdersInitial, LedgerBegins
<1>2. Inv /\ [Next]_vars => Inv' BY OrdersStep, BuyersStep
<1>3. Inv /\ [Next]_vars => [Ledger!Next]_(Ledger!vars) BY LedgerSteps
<1> HIDE DEF Inv
<1>4. QED BY <1>1, <1>2, <1>3, PTL DEF Spec, KeepsLedger, Ledger!Spec

-----------------------------------------------------------------------------
\* Only grantPlan writes a subscription.
LEMMA RowsWritten == ASSUME [Next]_vars PROVE DOMAIN subs' = DOMAIN subs \/ \E r \in Requests : GrantWrite(r)
<1>1. CASE subs' = subs BY <1>1
<1>2. ASSUME NEW r \in Requests, Serve(r) PROVE subs' = subs \/ GrantWrite(r)
  BY <1>2 DEF Serve, LookUp, Insert, Checkout, CheckoutFails, SaveLink, ReadOrder, Claim, GrantRead, Redeem, desk
<1>3. CASE Next
  <2>1. CASE \E r \in Requests, u \in Users, c \in Carts : BeginOrder(r, u, c[1], c[2])
    BY <1>1, <2>1 DEF BeginOrder, FindOpen, desk
  <2>2. CASE \E r \in Requests, u \in Users : ClaimTrial(r, u) \/ Revoke(r, u)
    BY <1>1, <2>2 DEF ClaimTrial, FindOpen, Revoke, desk
  <2>3. CASE \E r \in Requests, u \in Users, c \in Carts, mode \in {"extend", "replace"} : Grant(r, u, c[1], mode)
    BY <1>1, <2>3 DEF Grant, desk
  <2>4. CASE \E r \in Requests, x \in OrderIds : Sync(r, x) \/ MarkPaid(r, x)
    BY <1>1, <2>4 DEF Sync, MarkPaid, desk
  <2>5. CASE \E r \in Requests, h \in hooks : Deliver(r, h) BY <1>1, <2>5 DEF Deliver, desk
  <2>6. CASE \E x \in OrderIds : Pay(x) \/ Close(x) \/ LateSuccess(x) \/ Refund(x) \/ CancelOrder(x)
    BY <1>1, <2>6 DEF Pay, Close, LateSuccess, Refund, Becomes, CancelOrder, desk
  <2>7. CASE \E on \in BOOLEAN, days \in 1 .. 2 : EditOffer(on, days) BY <1>1, <2>7 DEF EditOffer
  <2>8. CASE Round BY <2>8 DEF Round, FindLapsed, Expire, Downgrade, Lower, desk
  <2>9. CASE CancelStale \/ Tick \/ Crash BY <1>1, <2>9 DEF CancelStale, Tick, Crash, desk
  <2>10. QED
    BY <1>1, <1>2, <1>3, <2>1, <2>2, <2>3, <2>4, <2>5, <2>6, <2>7, <2>8, <2>9 DEF Next
<1>4. QED BY <1>1, <1>3 DEF vars

\* A term that extends is written from the end of what runs: nobody else has written to the
\* account since that was read.
LEMMA TermsStack ==
    ASSUME OrdersInv, [Next]_vars, NEW i \in DOMAIN subs' \ DOMAIN subs, subs'[i].mode = "extend",
           NEW k \in RunningOf(subs'[i].user), subs[k].tier <= subs'[i].tier
    PROVE  subs'[i].expiresAt >= subs[k].expiresAt + subs'[i].days
<1>1. PICK r \in Requests : GrantWrite(r) BY RowsWritten
<1>2. r \in Workers /\ req[r].at = "write" BY <1>1 DEF GrantWrite, Workers
<1>3. PICK n : n = Len(subs) OBVIOUS
<1>4. n \in Nat /\ DOMAIN subs = 1 .. n /\ DOMAIN subs' = 1 .. n + 1 BY <1>1, <1>3, WriteShape DEF OrdersInv
<1>5. i = n + 1 BY <1>4
<1>6. /\ subs'[i].user = req[r].user /\ subs'[i].tier = Tier(req[r].plan) /\ subs'[i].mode = req[r].mode
      /\ subs'[i].days = req[r].days /\ subs'[i].expiresAt = req[r].start + req[r].days
  BY <1>1, <1>3, <1>5, WriteShape DEF OrdersInv
<1>7. subs[k].expiresAt <= req[r].start BY <1>2, <1>6 DEF OrdersInv, DeskInv, ReadingFits
<1>8. req[r].start \in Nat /\ req[r].days \in Nat BY <1>2, JobOf DEF WriteJobs, OrdersInv
<1>9. k \in DOMAIN subs BY DEF RunningOf
<1>10. subs[k].expiresAt \in Nat BY <1>9, RowOf DEF SubRows, OrdersInv
<1>11. QED BY <1>6, <1>7, <1>8, <1>10

\* Theorem: what TermsHold says: no verdict that is delivered late, no administrator and no sweep
\* takes an order back once it is paid, other than by giving the money back, and what it buys is
\* one subscription on its terms; and a term that extends another starts where the last one it
\* stacks on ends: "paying early never loses days".
THEOREM TermsKept == Orderly => (Spec => TermsHold)
<1> SUFFICES ASSUME Orderly PROVE Spec => TermsHold OBVIOUS
<1>1. Init => OrdersInv BY OrdersInitial
<1>2. OrdersInv /\ [Next]_vars => OrdersInv' BY OrdersStep
<1>3. Spec => KeepsLedger BY LedgerKept
<1>4. OrdersInv /\ [Next]_vars =>
        [\A i \in DOMAIN subs' \ DOMAIN subs : subs'[i].mode = "extend" =>
           \A k \in RunningOf(subs'[i].user) :
             subs[k].tier <= subs'[i].tier => subs'[i].expiresAt >= subs[k].expiresAt + subs'[i].days]_vars
  BY TermsStack
<1>5. Spec => StacksTerms BY <1>1, <1>2, <1>4, PTL DEF Spec, StacksTerms
<1>6. QED BY <1>3, <1>5 DEF TermsHold
=============================================================================
