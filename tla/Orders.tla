------------------------------- MODULE Orders -------------------------------
(***************************************************************************)
(* Orders, payments and subscriptions: control-server/src/services/        *)
(* billing.ts, tabpay.ts, promo.ts and trial.ts, their routes, and the     *)
(* part of the monitor that ends subscriptions.                            *)
(*                                                                         *)
(* A request is a sequence of database and gateway calls, and everything   *)
(* else may happen between two of them: req[r] is the call a request makes *)
(* next, with what it has read so far.  Webhooks are a set: the gateway    *)
(* delivers them in any order and again until it gets a 2xx.               *)
(*                                                                         *)
(* An open order is handed out again for one tick of the clock (6 hours),  *)
(* is dead after more than StaleAfter (24 hours); terms are a few ticks    *)
(* long, shorter against these than in the code.  Prices, currencies and views are left out: an order's *)
(* amount matters to the code only through the promo code it carries.      *)
(***************************************************************************)
EXTENDS Integers, Sequences, FiniteSets, FiniteSetsExt, TLC

CONSTANTS Users, OrderIds,
          Requests,     \* requests served at once
          Carts,        \* the plans on sale, each with or without the promo code: <<plan, promo>>
          Gateways,     \* BILLING_PROVIDER: one of these, for good
          MaxTime,      \* bound on the clock
          StaleAfter,   \* ticks after which an unpaid order is dead: 24 hours
          Events,       \* which faults and which overlaps may happen
          MaxEvents,    \* bound on faults and on administrator's acts
          None

Plans == {"basic", "pro", "trial"}
Statuses == {"PENDING", "PAID", "FAILED", "CANCELLED", "REFUNDED"}
\* A row of the orders table: the code put on it, what it was made for, its payment page.
OrderRows == [status : Statuses, user : Users, plan : Plans, promo : BOOLEAN,
              source : Plans \union {"order"}, link : BOOLEAN, born : 0..MaxTime]

ASSUME OrdersAssumption ==
  /\ Carts \subseteq Plans \X BOOLEAN /\ MaxTime \in Nat
  /\ Gateways \subseteq {"tabpay", "stripe", "manual"}
  /\ None \notin OrderIds /\ None \notin OrderRows

VARIABLES gateway,      \* the live adapter
          order,        \* order rows, None before they exist
          payment,      \* the gateway's own record of each order's payment
          hooks,        \* webhooks the gateway still has to deliver
          subs,         \* subscription rows, oldest first
          allowance,    \* users.max_devices
          redeemed,     \* orders that have a promo redemption row
          offer,        \* the trial offer and its plan row
          req,          \* the call each request makes next
          now, events

vars == <<gateway, order, payment, hooks, subs, allowance, redeemed, offer, req, now, events>>
desk == <<subs, allowance, redeemed, offer, now>>

Tier(p) == IF p = "pro" THEN 2 ELSE 1
Devices == [free |-> 1, trial |-> 2, basic |-> 2, pro |-> 3]
Term(p) == IF p = "trial" THEN offer.days ELSE 3

Idle == [at |-> "idle"]
Monitor == "monitor"
Workers == Requests \union {Monitor}

Happens(e) == e \in Events /\ events < MaxEvents /\ events' = events + 1

Paid(o) == order[o] # None /\ order[o].status = "PAID"
Granted(o) == \E i \in DOMAIN subs : subs[i].order = o
Running(i) == subs[i].status = "ACTIVE" /\ subs[i].expiresAt > now
RunningOf(u) == {i \in DOMAIN subs : subs[i].user = u /\ Running(i)}
Best(u) == IF RunningOf(u) = {} THEN "free"
           ELSE LET top == {i \in RunningOf(u) : \A k \in RunningOf(u) : subs[k].tier <= subs[i].tier}
                IN  subs[CHOOSE i \in top : \A k \in top : subs[k].expiresAt <= subs[i].expiresAt].plan

Init ==
  /\ gateway \in Gateways
  /\ order = [o \in OrderIds |-> None]
  /\ payment = [o \in OrderIds |-> "NONE"]
  /\ hooks = {}
  /\ subs = << >>
  /\ allowance = [u \in Users |-> Devices["free"]]
  /\ redeemed = {}
  /\ offer = [on |-> TRUE, days |-> 1]
  /\ req = [r \in Workers |-> Idle]
  /\ now = 0
  /\ events = 0

-----------------------------------------------------------------------------
(* createOrder, up to the gateway's answer about an open order of the same *)
(* plan and amount.                                                        *)

Proceed(r, job) == req' = [req EXCEPT ![r] = job]
InsertJob(u, p, promo) == [at |-> "insert", user |-> u, plan |-> p, promo |-> promo]

OpenOrders(u, p, promo) ==
  {o \in OrderIds : /\ order[o] # None
                    /\ order[o].status = "PENDING"
                    /\ <<order[o].user, order[o].plan, order[o].promo>> = <<u, p, promo>>
                    /\ now - order[o].born < 1}
Reusable(o) == gateway = "manual" \/ order[o].link

FindOpen(r, u, p, promo) ==
  /\ req[r] = Idle
  /\ LET open == OpenOrders(u, p, promo) IN
     \/ open = {} /\ Proceed(r, InsertJob(u, p, promo))
     \/ \E o \in open : Proceed(r, IF Reusable(o)
                                   THEN [at |-> "lookup", order |-> o, then |-> InsertJob(u, p, promo)]
                                   ELSE InsertJob(u, p, promo))
  /\ UNCHANGED <<gateway, order, payment, hooks, desk, events>>

PromoApplies(u) == \A o \in redeemed : order[o].user # u
BeginOrder(r, u, p, promo) ==
  (promo => PromoApplies(u)) /\ FindOpen(r, u, p, promo)

TrialEligible(u) ==
  /\ offer.on
  /\ ~\E i \in DOMAIN subs : subs[i].user = u /\ subs[i].source = "trial"
  /\ ~\E o \in OrderIds : Paid(o) /\ order[o].user = u /\ order[o].plan = "trial"
  /\ RunningOf(u) = {}
ClaimTrial(r, u) == TrialEligible(u) /\ FindOpen(r, u, "trial", FALSE)

\* reconcilePendingOrders: one look at one open order, with no order to make afterwards
Sync(r, o) ==
  /\ gateway = "tabpay" /\ req[r] = Idle
  /\ order[o] # None /\ order[o].status = "PENDING"
  /\ Proceed(r, [at |-> "lookup", order |-> o, then |-> Idle])
  /\ UNCHANGED <<gateway, order, payment, hooks, desk, events>>

\* An order changing hands while a request is about to claim it: only where Events has
\* "claim_overlap"
Quiet(o) == "claim_overlap" \in Events \/ \A r \in Workers : ~(req[r].at = "claim" /\ req[r].order = o)

\* Mutant: a refusal fails an order whatever its status
SettledAnyStatus(o, s) ==
  [order EXCEPT ![o].status = CASE s \in {"FAILED", "EXPIRED"} -> "FAILED"
                                [] s = "CANCELED"              -> "CANCELLED"
                                [] OTHER                       -> "REFUNDED"]

\* What a final status of the gateway does to an order that it does not pay
Settled(o, s) ==
  LET is == order[o].status
      to == CASE s \in {"FAILED", "EXPIRED"} /\ is = "PENDING" -> "FAILED"
              [] s = "CANCELED" /\ is = "PENDING"              -> "CANCELLED"
              [] s = "REFUNDED" /\ is = "PAID"                 -> "REFUNDED"
              [] OTHER                                         -> is
  IN  [order EXCEPT ![o].status = to]

LookUp(r) ==
  /\ req[r].at = "lookup"
  /\ LET o == req[r].order IN
     \/ /\ gateway # "tabpay" \/ payment[o] \in {"NONE", "CREATED"}
        /\ Proceed(r, Idle) /\ UNCHANGED <<order, events>>
     \/ /\ gateway = "tabpay" /\ Happens("unreachable")
        /\ Proceed(r, Idle) /\ UNCHANGED order
     \/ /\ gateway = "tabpay" /\ payment[o] = "SUCCESS"
        /\ Proceed(r, [at |-> "read", order |-> o, revive |-> TRUE, hook |-> None])
        /\ UNCHANGED <<order, events>>
     \/ /\ gateway = "tabpay" /\ payment[o] \notin {"NONE", "CREATED", "SUCCESS"} /\ Quiet(o)
        /\ order' = Settled(o, payment[o])
        /\ Proceed(r, req[r].then) /\ UNCHANGED events
  /\ UNCHANGED <<gateway, payment, hooks, desk>>

\* OrderIds bounds the rows: a request that finds none left ends
Insert(r) ==
  /\ req[r].at = "insert"
  /\ LET free == {o \in OrderIds : order[o] = None} IN
     \/ \E o \in free :
          /\ order' = [order EXCEPT ![o] = [status |-> "PENDING", user |-> req[r].user, plan |-> req[r].plan,
                                            promo |-> req[r].promo, source |-> req[r].plan, link |-> FALSE,
                                            born |-> now]]
          /\ Proceed(r, [at |-> "checkout", order |-> o])
     \/ free = {} /\ Proceed(r, Idle) /\ UNCHANGED order
  /\ UNCHANGED <<gateway, payment, hooks, desk, events>>

\* Mutant: a code is used up when the customer is sent to pay
CheckoutRedeems(r) ==
  /\ req[r].at = "checkout"
  /\ payment' = IF gateway = "manual" THEN payment ELSE [payment EXCEPT ![req[r].order] = "CREATED"]
  /\ redeemed' = IF order[req[r].order].promo THEN redeemed \union {req[r].order} ELSE redeemed
  /\ Proceed(r, [req[r] EXCEPT !.at = "link"])
  /\ UNCHANGED <<gateway, order, hooks, subs, allowance, offer, now, events>>

Checkout(r) ==
  /\ req[r].at = "checkout"
  /\ payment' = IF gateway = "manual" THEN payment ELSE [payment EXCEPT ![req[r].order] = "CREATED"]
  /\ Proceed(r, [req[r] EXCEPT !.at = "link"])
  /\ UNCHANGED <<gateway, order, hooks, desk, events>>

\* The gateway refused or did not answer: the metadata goes with the error
CheckoutFails(r) ==
  /\ req[r].at = "checkout" /\ gateway # "manual" /\ Happens("checkout_fails")
  /\ LET o == req[r].order IN
     /\ order' = [order EXCEPT ![o].status = "FAILED", ![o].promo = FALSE, ![o].source = "order"]
     /\ \E s \in {"NONE", "CREATED"} : payment' = [payment EXCEPT ![o] = s]
  /\ Proceed(r, Idle)
  /\ UNCHANGED <<gateway, hooks, desk>>

\* Mutant: the link is saved as the order's status
SaveLinkBoth(r) ==
  /\ req[r].at = "link"
  /\ order' = [order EXCEPT ![req[r].order].status = "OPEN", ![req[r].order].link = TRUE]
  /\ Proceed(r, Idle)
  /\ UNCHANGED <<gateway, payment, hooks, desk, events>>

SaveLink(r) ==
  /\ req[r].at = "link"
  /\ order' = [order EXCEPT ![req[r].order].link = gateway # "manual"]
  /\ Proceed(r, Idle)
  /\ UNCHANGED <<gateway, payment, hooks, desk, events>>

-----------------------------------------------------------------------------
(* The gateway: a payment is made on the hosted page, is refused, expires, *)
(* succeeds after all, is given back; each of these is a webhook of        *)
(* TabPay's.  Of Stripe's the code acts on a paid checkout only.           *)

Becomes(o, s) ==
  /\ payment' = [payment EXCEPT ![o] = s]
  /\ hooks' = IF gateway = "tabpay" \/ s = "SUCCESS"
              THEN hooks \union {[order |-> o, status |-> s]} ELSE hooks
  /\ UNCHANGED <<gateway, order, desk, req>>

Pay(o) ==
  payment[o] = "CREATED" /\ order[o].link /\ Becomes(o, "SUCCESS") /\ UNCHANGED events
Close(o) ==
  /\ payment[o] = "CREATED" /\ Happens("declined")
  /\ \E s \in (IF gateway = "tabpay" THEN {"FAILED", "EXPIRED", "CANCELED"} ELSE {"EXPIRED"}) : Becomes(o, s)
LateSuccess(o) ==
  /\ gateway = "tabpay" /\ payment[o] \in {"FAILED", "EXPIRED"} /\ order[o].link
  /\ "late_success" \in Events /\ Becomes(o, "SUCCESS") /\ UNCHANGED events
Refund(o) ==
  gateway = "tabpay" /\ payment[o] = "SUCCESS" /\ Happens("refund") /\ Becomes(o, "REFUNDED")

-----------------------------------------------------------------------------
(* Webhooks, and markOrderPaid: "the only thing that turns an order into a *)
(* subscription".                                                          *)

\* A 2xx that reaches the gateway ends a delivery; one that is lost does not
Acked(h) == \/ hooks' = hooks \ {h} /\ UNCHANGED events
            \/ h \in hooks /\ Happens("reply_lost") /\ UNCHANGED hooks

Finish(r) == Acked(req[r].hook) /\ Proceed(r, Idle)

Deliver(r, h) ==
  /\ req[r] = Idle /\ h \in hooks
  /\ IF h.status = "SUCCESS"
     THEN /\ Proceed(r, [at |-> "read", order |-> h.order, revive |-> gateway = "tabpay", hook |-> h])
          /\ UNCHANGED <<order, hooks, events>>
     ELSE Quiet(h.order) /\ order' = Settled(h.order, h.status) /\ Acked(h) /\ UNCHANGED req
  /\ UNCHANGED <<gateway, payment, desk>>

\* Mutant: only a pending order can be paid
GivenUpForGood == {}

GivenUp == {"FAILED", "CANCELLED"}

ReadOrder(r) ==
  /\ req[r].at = "read"
  /\ LET row == order[req[r].order]
         revivable == req[r].revive /\ row.status \in GivenUp IN
     \/ row.status = "PAID" /\ Finish(r)
     \/ /\ row.status = "PENDING" \/ revivable
        /\ Proceed(r, [at |-> "claim", order |-> req[r].order, hook |-> req[r].hook,
                       from |-> IF revivable THEN {"PENDING"} \union GivenUp ELSE {"PENDING"},
                       user |-> row.user, plan |-> row.plan, days |-> Term(row.plan), mode |-> "extend",
                       source |-> IF row.source = "trial" THEN "trial" ELSE "order", promo |-> row.promo])
        /\ UNCHANGED <<hooks, events>>
     \/ \* 409: the gateway will deliver it again
        /\ row.status # "PAID" /\ row.status # "PENDING" /\ ~revivable
        /\ Proceed(r, Idle) /\ UNCHANGED <<hooks, events>>
  /\ UNCHANGED <<gateway, order, payment, desk>>

\* Mutant: update where id, without the status: both of two requests claim
ClaimableAlways(r) == TRUE

\* updateMany where the status still is one of those: the loser of a race stops here
Claimable(r) == order[req[r].order].status \in req[r].from

\* Mutant: the revived order is marked paid and handed back as it is
RevivedHandedBack(r) ==
  /\ req[r].at = "claim"
  /\ IF Claimable(r)
     THEN /\ order' = [order EXCEPT ![req[r].order].status = "PAID"]
          /\ IF "FAILED" \in req[r].from THEN Finish(r)
             ELSE Proceed(r, [req[r] EXCEPT !.at = "grant"]) /\ UNCHANGED <<hooks, events>>
     ELSE Finish(r) /\ UNCHANGED order
  /\ UNCHANGED <<gateway, payment, desk>>

Claim(r) ==
  /\ req[r].at = "claim"
  /\ IF Claimable(r)
     THEN /\ order' = [order EXCEPT ![req[r].order].status = "PAID"]
          /\ Proceed(r, [req[r] EXCEPT !.at = "grant"])
          /\ UNCHANGED <<hooks, events>>
     ELSE Finish(r) /\ UNCHANGED order
  /\ UNCHANGED <<gateway, payment, desk>>

\* Two requests at work on one account's rows: only where Events has "overlap"
Alone(r, u) == \/ "overlap" \in Events
               \/ \A q \in Workers \ {r} : ~(req[q].at \in {"write", "lower"} /\ req[q].user = u)

\* grantPlan reads the rows it will take over outside its transaction
Superseded(u, p, mode) == {i \in RunningOf(u) : mode = "replace" \/ subs[i].tier <= Tier(p)}

\* Mutant: the new term starts now
TermStartNow(rows, mode) == now

TermStart(rows, mode) ==
  IF mode = "extend" /\ rows # {} THEN Max({subs[i].expiresAt : i \in rows}) ELSE now

WriteJob(j, rows) ==
  [at |-> "write", order |-> j.order, hook |-> j.hook, user |-> j.user, plan |-> j.plan, days |-> j.days,
   mode |-> j.mode, source |-> j.source, promo |-> j.promo, rows |-> rows, start |-> TermStart(rows, j.mode)]

GrantRead(r) ==
  /\ req[r].at = "grant" /\ Alone(r, req[r].user)
  /\ Proceed(r, WriteJob(req[r], Superseded(req[r].user, req[r].plan, req[r].mode)))
  /\ UNCHANGED <<gateway, order, payment, hooks, desk, events>>

GrantWrite(r) ==
  /\ req[r].at = "write"
  /\ LET j == req[r] IN
     /\ subs' = Append([i \in DOMAIN subs |-> IF i \in j.rows THEN [subs[i] EXCEPT !.status = "EXPIRED"]
                                              ELSE subs[i]],
                       [user |-> j.user, plan |-> j.plan, tier |-> Tier(j.plan), source |-> j.source,
                        status |-> "ACTIVE", expiresAt |-> j.start + j.days,
                        order |-> j.order, mode |-> j.mode, days |-> j.days])
     /\ allowance' = [allowance EXCEPT ![j.user] = Max({@, Devices[j.plan]})]
     /\ IF j.promo THEN Proceed(r, [at |-> "redeem", order |-> j.order, hook |-> j.hook])
                        /\ UNCHANGED <<hooks, events>>
        ELSE Finish(r)
  /\ UNCHANGED <<gateway, order, payment, redeemed, offer, now>>

\* The redemption row, unique per order, and the code's counter: one transaction
Redeem(r) ==
  /\ req[r].at = "redeem"
  /\ redeemed' = redeemed \union {req[r].order}
  /\ Finish(r)
  /\ UNCHANGED <<gateway, order, payment, subs, allowance, offer, now>>

-----------------------------------------------------------------------------
(* Administrators.                                                         *)

MarkPaid(r, o) ==
  /\ req[r] = Idle /\ order[o] # None /\ Happens("admin")
  /\ Proceed(r, [at |-> "read", order |-> o, revive |-> FALSE, hook |-> None])
  /\ UNCHANGED <<gateway, order, payment, hooks, desk>>

CancelOrder(o) ==
  /\ order[o] # None /\ order[o].status = "PENDING" /\ Quiet(o) /\ Happens("admin")
  /\ order' = [order EXCEPT ![o].status = "CANCELLED"]
  /\ UNCHANGED <<gateway, payment, hooks, desk, req>>

Grant(r, u, p, mode) ==
  /\ req[r] = Idle /\ Happens("admin_grant")
  /\ Proceed(r, [at |-> "grant", order |-> None, hook |-> None, user |-> u, plan |-> p, days |-> Term(p),
                 mode |-> mode, source |-> "manual", promo |-> FALSE])
  /\ UNCHANGED <<gateway, order, payment, hooks, desk>>

Revoke(r, u) ==
  /\ req[r] = Idle /\ Happens("admin_revoke")
  /\ subs' = [i \in DOMAIN subs |-> IF subs[i].user = u /\ subs[i].status = "ACTIVE"
                                    THEN [subs[i] EXCEPT !.status = "DISABLED"] ELSE subs[i]]
  /\ Proceed(r, [at |-> "downgrade", users |-> {u}])
  /\ UNCHANGED <<gateway, order, payment, hooks, allowance, redeemed, offer, now>>

\* updateTrialSettings and ensureTrialPlan: the settings and the plan row that follows them
EditOffer(on, days) ==
  /\ Happens("offer")
  /\ offer' = [on |-> on, days |-> days]
  /\ UNCHANGED <<gateway, order, payment, hooks, subs, allowance, redeemed, req, now>>

-----------------------------------------------------------------------------
(* The monitor: subscriptions that ran out, the allowance they had raised, *)
(* and checkouts nobody finished.                                          *)

Lapsed == {i \in DOMAIN subs : subs[i].status = "ACTIVE" /\ subs[i].expiresAt <= now}

\* Mutant: the accounts are looked up after their rows were expired
FindLapsedNobody ==
  /\ req[Monitor] = Idle /\ Lapsed # {}
  /\ Proceed(Monitor, [at |-> "expire", users |-> {subs[i].user : i \in {k \in Lapsed : subs[k].status # "ACTIVE"}}])
  /\ UNCHANGED <<gateway, order, payment, hooks, desk, events>>

FindLapsed ==
  /\ req[Monitor] = Idle /\ Lapsed # {}
  /\ Proceed(Monitor, [at |-> "expire", users |-> {subs[i].user : i \in Lapsed}])
  /\ UNCHANGED <<gateway, order, payment, hooks, desk, events>>

Expire ==
  /\ req[Monitor].at = "expire"
  /\ subs' = [i \in DOMAIN subs |-> IF i \in Lapsed THEN [subs[i] EXCEPT !.status = "EXPIRED"] ELSE subs[i]]
  /\ Proceed(Monitor, [req[Monitor] EXCEPT !.at = "downgrade"])
  /\ UNCHANGED <<gateway, order, payment, hooks, allowance, redeemed, offer, now, events>>

\* Mutant: every downgrade is to Free
DowngradeToFree(r) ==
  /\ req[r].at = "downgrade"
  /\ \E u \in req[r].users :
       Proceed(r, [at |-> "lower", user |-> u, devices |-> Devices["free"], users |-> req[r].users \ {u}])
  /\ UNCHANGED <<gateway, order, payment, hooks, desk, events>>

\* downgradeToPlanAllowance: read the best plan left, then write its limits
Downgrade(r) ==
  /\ req[r].at = "downgrade"
  /\ \E u \in req[r].users :
       /\ Alone(r, u)
       /\ Proceed(r, [at |-> "lower", user |-> u, devices |-> Devices[Best(u)], users |-> req[r].users \ {u}])
  /\ UNCHANGED <<gateway, order, payment, hooks, desk, events>>

Lower(r) ==
  /\ req[r].at = "lower"
  /\ allowance' = [allowance EXCEPT ![req[r].user] = req[r].devices]
  /\ Proceed(r, IF req[r].users = {} THEN Idle ELSE [at |-> "downgrade", users |-> req[r].users])
  /\ UNCHANGED <<gateway, order, payment, hooks, subs, redeemed, offer, now, events>>

Stale == {o \in OrderIds : order[o] # None /\ order[o].status = "PENDING" /\ now - order[o].born > StaleAfter}
CancelStale ==
  /\ Stale # {} /\ \A o \in Stale : Quiet(o)
  /\ order' = [o \in OrderIds |-> IF o \in Stale THEN [order[o] EXCEPT !.status = "CANCELLED"] ELSE order[o]]
  /\ UNCHANGED <<gateway, payment, hooks, desk, req, events>>

\* A term may run out between the monitor's two queries: only where Events has "overlap"
Tick ==
  /\ now < MaxTime /\ now' = now + 1
  /\ "overlap" \in Events \/ req[Monitor].at # "expire"
  /\ UNCHANGED <<gateway, order, payment, hooks, subs, allowance, redeemed, offer, req, events>>

\* The process stops: its requests and the monitor's round are gone.  Between a claim and
\* the subscription it buys only where Events has "crash_in_grant"
Crash ==
  /\ \E r \in Workers : req[r] # Idle
  /\ "crash_in_grant" \in Events \/ \A r \in Requests : req[r].at \notin {"grant", "write"}
  /\ Happens("crash")
  /\ req' = [r \in Workers |-> Idle]
  /\ UNCHANGED <<gateway, order, payment, hooks, desk>>

-----------------------------------------------------------------------------
Serve(r) == \/ LookUp(r) \/ Insert(r) \/ Checkout(r) \/ CheckoutFails(r) \/ SaveLink(r)
            \/ ReadOrder(r) \/ Claim(r) \/ GrantRead(r) \/ GrantWrite(r) \/ Redeem(r)
Round == FindLapsed \/ Expire \/ (\E r \in Workers : Downgrade(r)) \/ (\E r \in Workers : Lower(r))

Next ==
  \/ \E r \in Requests : Serve(r)
  \/ \E r \in Requests, u \in Users, c \in Carts : BeginOrder(r, u, c[1], c[2])
  \/ \E r \in Requests, u \in Users : ClaimTrial(r, u) \/ Revoke(r, u)
  \/ \E r \in Requests, u \in Users, c \in Carts, mode \in {"extend", "replace"} : Grant(r, u, c[1], mode)
  \/ \E r \in Requests, o \in OrderIds : Sync(r, o) \/ MarkPaid(r, o)
  \/ \E r \in Requests, h \in hooks : Deliver(r, h)
  \/ \E o \in OrderIds : Pay(o) \/ Close(o) \/ LateSuccess(o) \/ Refund(o) \/ CancelOrder(o)
  \/ \E on \in BOOLEAN, days \in 1..2 : EditOffer(on, days)
  \/ Round
  \/ CancelStale \/ Tick \/ Crash

Spec == Init /\ [][Next]_vars

\* A request that is under way goes on, the gateway delivers again until it is
\* answered, and the monitor runs on a timer
Fairness == /\ \A r \in Requests : WF_vars(Serve(r))
            /\ \A o \in OrderIds : SF_vars(\E r \in Requests, h \in hooks : h.order = o /\ Deliver(r, h))
            /\ WF_vars(Round)
FairSpec == Spec /\ Fairness
-----------------------------------------------------------------------------
(* What billing promises.                                                  *)

\* Every variable has its type.
TypeOK ==
  /\ gateway \in Gateways
  /\ order \in [OrderIds -> {None} \union OrderRows]
  /\ payment \in [OrderIds -> {"NONE", "CREATED", "SUCCESS", "FAILED", "EXPIRED", "CANCELED", "REFUNDED"}]
  /\ hooks \subseteq [order : OrderIds, status : {"SUCCESS", "FAILED", "EXPIRED", "CANCELED", "REFUNDED"}]
  /\ \A i \in DOMAIN subs : /\ subs[i].status \in {"ACTIVE", "EXPIRED", "DISABLED"}
                            /\ subs[i].source \in {"order", "trial", "manual"}
  /\ allowance \in [Users -> {Devices[p] : p \in DOMAIN Devices}]
  /\ redeemed \subseteq OrderIds

\* markOrderPaid "does so exactly once": however many webhooks, polls and
\* administrators settle an order at the same time, it is one subscription.
GrantedOnce == \A o \in OrderIds : Cardinality({i \in DOMAIN subs : subs[i].order = o}) <= 1

\* An order that was paid has its subscription, or a request is about to
\* write it: no webhook, verdict or late success stops between the two
\* (no crash between the two in the run: see README).
PaidIsGranted ==
  \A o \in OrderIds : Paid(o) => \/ Granted(o)
                                 \/ \E r \in Requests : req[r].at \in {"grant", "write"} /\ req[r].order = o

\* A promo code is used up by a payment, never by a checkout that came to nothing.
PromoOfPaid == \A o \in redeemed : Granted(o)

\* Nobody's device allowance is below that of the best plan running, whatever
\* expires, is granted or is revoked (grants and downgrades of one account
\* not overlapping in the run: see README).
AllowanceCoversPlan == \A u \in Users : \/ allowance[u] >= Devices[Best(u)]
                                        \/ \E r \in Workers : req[r].at = "lower" /\ req[r].user = u

\* The tables of orders, subscriptions and redemptions, seen as an OrderLedger
FromOrders == {i \in DOMAIN subs : subs[i].order # None}
Ledger == INSTANCE OrderLedger WITH
  Nothing <- None,
  status <- [o \in OrderIds |-> IF order[o] = None THEN "NONE" ELSE order[o].status],
  terms <- [o \in OrderIds |-> IF order[o] = None THEN None ELSE <<order[o].user, order[o].plan>>],
  bought <- {<<subs[i].order, <<subs[i].user, subs[i].plan>>>> : i \in FromOrders},
  used <- redeemed

\* Billing keeps the ledger of orders: once paid, an order is never failed or
\* cancelled, not by a refusal that is delivered late, nor by an administrator,
\* nor by the sweep; what it buys is one subscription of its plan for its
\* customer, after the money came in, whoever else settles it at that time.
KeepsLedger == Ledger!Spec

\* "Paying early never loses days": a term that extends starts no earlier than
\* the end of every running term of the same or a lower tier.
StacksTerms ==
  [][\A i \in DOMAIN subs' \ DOMAIN subs : subs'[i].mode = "extend" =>
       \A k \in RunningOf(subs'[i].user) :
         subs[k].tier <= subs'[i].tier => subs'[i].expiresAt >= subs[k].expiresAt + subs'[i].days]_vars

\* Money that TabPay has reaches the account: a payment that succeeded, late or
\* after the order was given up, becomes a subscription unless it is refunded.
MoneyGetsPlan ==
  gateway = "tabpay" =>
    \A o \in OrderIds : payment[o] = "SUCCESS" ~> (Granted(o) \/ payment[o] = "REFUNDED")

\* An account whose last plan ran out comes back to the free allowance.
LapsedIsLowered ==
  \A u \in Users : (RunningOf(u) = {} /\ \E i \in DOMAIN subs : subs[i].user = u)
                     ~> (allowance[u] = Devices["free"] \/ RunningOf(u) # {})

\* What a customer paid for is his, once, with its promo code and its devices,
\* whoever settles the order and whatever else happens to the account.
OrdersSound == TypeOK /\ GrantedOnce /\ PaidIsGranted /\ PromoOfPaid /\ AllowanceCoversPlan

\* No step takes back what was paid, nor a day of it.
TermsHold == KeepsLedger /\ StacksTerms

\* Money becomes a plan in the end, and a plan that is over takes its allowance along.
PaymentsSettle == MoneyGetsPlan /\ LapsedIsLowered
=============================================================================
