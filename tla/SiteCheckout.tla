---------------------------- MODULE SiteCheckout ----------------------------
(***************************************************************************)
(* The pages that sell (billing.js, trial.js): buttons pressed before the  *)
(* session is known, the promo code that goes with an order, the trial     *)
(* whose block is drawn anew with every answer, so that a button disabled  *)
(* while its request is under way is replaced by one that is not.          *)
(***************************************************************************)
EXTENDS Happenings

CONSTANTS
    Codes,      \* promo codes
    Buttons,    \* of the trial: on its banner, strip and page
    MaxClicks   \* bound of the model: presses and codes tried, in all

VARIABLES
    login,      \* GlukAuth.state.status
    sells,      \* billing.js state.enabled
    promoCode, promoView,
    probes,     \* codes the server is asked about
    ordering,   \* the order button: where its press is
    carried,    \* the code that went with the last order
    trialBusy,  \* trial.js state.busy
    waits,      \* trial buttons that wait for gluk:auth
    grey,       \* trial buttons that are disabled
    claims,     \* trial claims under way, by button
    returned,   \* back from the gateway's page: where the reconciliation is
    offer,      \* state.offer: the status it was answered to
    authSeen,   \* state.authStatus
    offerAsks,  \* the statuses under which the offer was asked for
    clicks

promoVars == <<sells, promoCode, promoView, probes>>
orderVars == <<ordering, carried>>
claimVars == <<trialBusy, waits, grey, claims>>
offerVars == <<returned, offer, authSeen, offerAsks>>
checkoutVars == <<login, promoVars, orderVars, claimVars, offerVars, clicks>>

CheckoutInit ==
    /\ login = "loading" /\ sells = FALSE
    /\ promoCode = None /\ promoView = None /\ probes = <<>>
    /\ ordering = "idle" /\ carried = None
    /\ trialBusy = FALSE /\ waits = {} /\ grey = {} /\ claims = {}
    /\ returned \in {"no", "waits"}
    /\ offer = None /\ authSeen = "loading" /\ offerAsks = <<"loading">>
    /\ clicks = 0

Clicks == clicks < MaxClicks /\ clicks' = clicks + 1

----------------------------------------------------------------------------
\* load, of the trial.
AsksOffer(as) == authSeen' = as /\ offerAsks' = Append(offerAsks, as)

AnyClaim == TRUE
NotClaiming == ~trialBusy

\* claim, of someone signed in: the other buttons find it under way.
Claims(some) ==
    \E b \in some :
        /\ trialBusy' = TRUE /\ claims' = claims \cup {b}
        /\ grey' = (grey \ some) \cup {b}

\* emit, after every way a check of the session ends.
OnlyIn(found) == found = "in"
Tells(found) == TRUE
OnlyGuests(found) == found = "out"
Changed(found) == found # authSeen

LoginIs(found) ==
    /\ found # login
    /\ login' = found
    /\ IF ordering = "waits" /\ Tells(found)
       THEN IF found = "in" THEN ordering' = "asked" /\ carried' = promoCode
            ELSE ordering' = "idle" /\ UNCHANGED carried    \* goLogin
       ELSE UNCHANGED orderVars
    /\ IF Tells(found) THEN waits' = {} ELSE UNCHANGED waits
    /\ IF waits # {} /\ Tells(found) /\ found = "in" /\ NotClaiming
       THEN Claims(waits)
       ELSE /\ grey' = IF Tells(found) THEN grey \ waits ELSE grey
            /\ UNCHANGED <<trialBusy, claims>>
    /\ returned' = IF returned = "waits" /\ Tells(found)
                   THEN IF found = "in" THEN "asked" ELSE "answered"
                   ELSE returned
    /\ IF Changed(found) THEN AsksOffer(found) ELSE UNCHANGED <<authSeen, offerAsks>>
    /\ UNCHANGED <<promoVars, offer, clicks>>

\* boot, of auth.js; and signing in or out on this page, or a renewal without a network.
LoginKnown ==
    /\ login = "loading"
    /\ \E found \in {"in", "out"} : LoginIs(found)
    /\ Quiet
LoginChanges ==
    /\ login # "loading" /\ Happens("switch")
    /\ LoginIs(IF login = "in" THEN "out" ELSE "in")

----------------------------------------------------------------------------
\* disabledMode until the server says that it sells.
PlansArrive ==
    /\ ~sells
    /\ sells' = TRUE
    /\ UNCHANGED <<login, promoCode, promoView, probes, orderVars, claimVars, offerVars, clicks>>
    /\ Quiet

\* A form is not submitted while its button is disabled.
AnyTime == TRUE
FormOpen == probes = <<>>

\* usePromo: the code is kept at once, to be dropped when the server refuses it.
UsesPromo(c) ==
    /\ FormOpen /\ Clicks
    /\ promoCode' = c
    /\ promoView' = IF c = None THEN None ELSE promoView
    /\ probes' = IF c # None /\ sells THEN Append(probes, c) ELSE probes
    /\ UNCHANGED <<login, sells, orderVars, claimVars, offerVars>> /\ Quiet

PromoChecked(i) ==
    /\ i \in 1..Len(probes)
    /\ probes' = SubSeq(probes, 1, i - 1) \o SubSeq(probes, i + 1, Len(probes))
    /\ \/ promoView' = probes[i] /\ UNCHANGED promoCode
       \/ promoView' = None /\ promoCode' = None
    /\ UNCHANGED <<login, sells, orderVars, claimVars, offerVars, clicks>> /\ Quiet

\* buy
Buys ==
    /\ sells /\ ordering = "idle" /\ Clicks
    /\ CASE login = "loading" -> ordering' = "waits" /\ UNCHANGED carried
         [] login = "in" -> ordering' = "asked" /\ carried' = promoCode
         [] login = "out" -> UNCHANGED orderVars
    /\ UNCHANGED <<login, promoVars, claimVars, offerVars>> /\ Quiet

\* To the gateway's page, or back to the button.
Ordered ==
    /\ ordering = "asked"
    /\ ordering' \in {"left", "idle"}
    /\ UNCHANGED <<login, promoVars, carried, claimVars, offerVars, clicks>> /\ Quiet

----------------------------------------------------------------------------
PressesClaim(b) ==
    /\ b \notin grey /\ Clicks
    /\ CASE login = "loading" -> waits' = waits \cup {b} /\ grey' = grey \cup {b}
                                 /\ UNCHANGED <<trialBusy, claims>>
         [] login = "in" /\ NotClaiming -> Claims({b}) /\ UNCHANGED waits
         [] OTHER -> UNCHANGED claimVars
    /\ UNCHANGED <<login, promoVars, orderVars, offerVars>> /\ Quiet

\* To the gateway's page; or an order without one, or a refusal, after which the offer
\* is asked for again.
Claimed(b) ==
    /\ claims' = claims \ {b}
    /\ UNCHANGED <<login, promoVars, orderVars, waits, returned, offer, clicks>>
    /\ \/ UNCHANGED <<trialBusy, grey, authSeen, offerAsks>>
       \/ trialBusy' = FALSE /\ grey' = grey \ {b} /\ AsksOffer(login)
    /\ Quiet

\* syncOrders: the server reconciles the open orders, then the offer is asked for again.
Reconciles ==
    /\ returned = "asked" /\ returned' = "answered" /\ UNCHANGED <<offer, authSeen, offerAsks>>
    /\ UNCHANGED <<login, promoVars, orderVars, claimVars, clicks>> /\ Quiet
ShowsReturn ==
    /\ returned = "answered" /\ returned' = "shown" /\ AsksOffer(login) /\ UNCHANGED offer
    /\ UNCHANGED <<login, promoVars, orderVars, claimVars, clicks>> /\ Quiet

\* The answer draws the block anew.
OfferArrives(i) ==
    /\ i \in 1..Len(offerAsks)
    /\ IF i = 1 THEN Quiet ELSE Happens("late_answer")
    /\ offerAsks' = SubSeq(offerAsks, 1, i - 1) \o SubSeq(offerAsks, i + 1, Len(offerAsks))
    /\ offer' = offerAsks[i] /\ grey' = {}
    /\ UNCHANGED <<login, promoVars, orderVars, trialBusy, waits, claims, returned, authSeen, clicks>>

CheckoutNext ==
    \/ LoginKnown \/ LoginChanges
    \/ PlansArrive
    \/ \E c \in Codes \cup {None} : UsesPromo(c)
    \/ \E i \in 1..MaxClicks : PromoChecked(i)
    \/ Buys \/ Ordered
    \/ \E b \in Buttons : PressesClaim(b)
    \/ \E b \in claims : Claimed(b)
    \/ Reconciles \/ ShowsReturn
    \/ \E i \in 1..(MaxClicks + MaxEvents + 2) : OfferArrives(i)

\* Every request ends in an answer or in its timeout.
CheckoutFairness ==
    /\ WF_checkoutVars(Runs("checkout") /\ LoginKnown)
    /\ WF_checkoutVars(Runs("checkout") /\ (Reconciles \/ ShowsReturn))
    /\ WF_checkoutVars(Runs("checkout") /\ OfferArrives(1))

----------------------------------------------------------------------------
\* The discount on the cards is of the code that an order would take with it, once the
\* server has answered for every code that was tried (usePromo, buy).
PriceIsAsShown == probes = <<>> => promoView \in {None, promoCode}

\* The trial is claimed once at a time, from whichever of its buttons, however often
\* they were drawn anew and whatever waited for the session (claim, state.busy).
ClaimsOnce == Cardinality(claims) <= 1

\* A press that came before the session was known is taken up, also when the visitor
\* turns out to be a guest or the server cannot be reached; so is the return from the
\* gateway's page.
PressesTaken == []<>(waits = {} /\ ordering # "waits" /\ returned \in {"no", "shown"})

\* The offer on the page comes to be the one for who the visitor is now: a guest is
\* invited to register, one who is signed in is not (load).
OfferFits == \A s \in {"in", "out"} : []<>(offer # None /\ login = s => offer = s)

\* The price list: the price is that of the code shown, and a trial is claimed once however
\* often it is pressed.
CheckoutHolds == PriceIsAsShown /\ ClaimsOnce
=============================================================================
