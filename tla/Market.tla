------------------------------- MODULE Market -------------------------------
(***************************************************************************)
(* The market a visitor belongs to and the price he is quoted: the edge    *)
(* header, GeoIP with its cache of answers, good and empty, the time zone  *)
(* and the language; the catalogue, and the gateway that settles in one    *)
(* currency.                                                               *)
(***************************************************************************)
EXTENDS Happenings, Functions

CONSTANTS
    Shoppers,   \* pages that show prices
    Signs,      \* Signs[v]: edge, addr, zone and lang (a country or None), chosen
    CountryOf,  \* CountryOf[addr]: what GeoIP answers when it does
    Priced,     \* countries with a currency of their own, and that currency
    Base,       \* the plan's own currency
    Catalogues, \* what a plan may cost: minor units, by currency
    MaxCached,  \* addresses that are remembered
    KeepHours   \* hours an answer is remembered

ASSUME MarketAssumption == \A prices \in Catalogues : Base \in DOMAIN prices

VARIABLES
    settle,     \* the currency the gateway settles in, or None
    prices,     \* the catalogue
    cache,      \* cache[addr]: the country and the age of the answer
    lookups,    \* whose request waits for GeoIP
    geo,        \* does the provider answer?
    quote,      \* quote[v]: what the page shows
    charge      \* charge[v]: the order it has made

marketVars == <<settle, prices, cache, lookups, geo, quote, charge>>

MarketInit ==
    /\ settle \in {None, "RUB"} /\ prices \in Catalogues
    /\ cache = <<>> /\ lookups = {} /\ geo = TRUE
    /\ quote = [v \in Shoppers |-> None] /\ charge = quote

-----------------------------------------------------------------------------
\* marketFor: a country that is priced pays in its currency; another in dollars, or in
\* roubles when Russian was chosen by hand.
CurrencyIn(country, v) ==
    IF country \in DOMAIN Priced THEN Priced[country]
    ELSE IF Signs[v].chosen = "ru" THEN "RUB" ELSE "USD"

\* resolveMarket: without GeoIP, the first that says anything.
Guess(v) ==
    IF Signs[v].edge # None THEN Signs[v].edge
    ELSE IF Signs[v].zone # None THEN Signs[v].zone ELSE Signs[v].lang

\* Fault: the number is the plan's own, whatever the currency.
Reinterpreted(wanted) ==
    [minor |-> IF wanted \in DOMAIN prices THEN prices[wanted] ELSE prices[Base], in |-> wanted]
\* resolvePlanPrice: an unpriced currency gets the plan's own price, and its currency.
PriceIn(wanted) ==
    IF wanted \in DOMAIN prices THEN [minor |-> prices[wanted], in |-> wanted]
    ELSE [minor |-> prices[Base], in |-> Base]

\* GET /api/billing/plans: the price, and what the gateway will take when that differs.
Quoted(v, country) ==
    LET asked == CurrencyIn(country, v)
    IN quote' = [quote EXCEPT ![v] =
        [from |-> country, currency |-> asked, price |-> PriceIn(asked),
         taken |-> IF settle = None THEN PriceIn(asked) ELSE PriceIn(settle)]]

\* Fault: an answer is kept, the empty one too.
KeptForGood(addr) == addr \in DOMAIN cache
StillKnown(addr) == addr \in DOMAIN cache /\ cache[addr].age < KeepHours

ByAddress(v, country) == Quoted(v, IF country # None THEN country ELSE Guess(v))

\* resolveMarketByIp: at once by the edge or from the cache, or GeoIP is asked.
AsksPlans(v) ==
    /\ v \notin lookups /\ Quiet
    /\ \/ /\ Signs[v].edge # None
          /\ Quoted(v, Signs[v].edge) /\ UNCHANGED lookups
       \/ /\ Signs[v].edge = None /\ StillKnown(Signs[v].addr)
          /\ ByAddress(v, cache[Signs[v].addr].country) /\ UNCHANGED lookups
       \/ /\ Signs[v].edge = None /\ ~StillKnown(Signs[v].addr)
          /\ lookups' = lookups \union {v} /\ UNCHANGED quote
    /\ UNCHANGED <<settle, prices, cache, geo, charge>>

\* A full cache is emptied before it takes an answer in.
Remembered(addr, country) ==
    LET kept == IF Cardinality(DOMAIN cache) >= MaxCached THEN {} ELSE DOMAIN cache
    IN [x \in kept \union {addr} |-> IF x = addr THEN [country |-> country, age |-> 0] ELSE cache[x]]

\* countryForAddress, after lookupOrigin: no answer is one as well.
GeoAnswers(v) ==
    LET country == IF geo THEN CountryOf[Signs[v].addr] ELSE None
    IN /\ v \in lookups
       /\ lookups' = lookups \ {v}
       /\ cache' = Remembered(Signs[v].addr, country)
       /\ ByAddress(v, country)
       /\ UNCHANGED <<settle, prices, geo, charge>> /\ Quiet

\* Fault: the market is resolved again for the order.
Anew(v) == CurrencyIn(Guess(v), v)
\* The page sends back the currency it was quoted in.
Echoed(v) == quote[v].currency

\* createOrder: the gateway's currency wins, and a plan that is not priced in it is refused.
Orders(v) ==
    LET price == PriceIn(IF settle = None THEN Echoed(v) ELSE settle)
    IN /\ quote[v] # None /\ charge[v] = None
       /\ settle # None => price.in = settle
       /\ charge' = [charge EXCEPT ![v] = price]
       /\ UNCHANGED <<settle, prices, cache, lookups, geo, quote>> /\ Quiet

AnHourPasses ==
    /\ \E x \in DOMAIN cache : cache[x].age < KeepHours
    /\ cache' = [x \in DOMAIN cache |->
                    [cache[x] EXCEPT !.age = IF @ < KeepHours THEN @ + 1 ELSE @]]
    /\ UNCHANGED <<settle, prices, lookups, geo, quote, charge>> /\ Quiet

GeoFails ==
    /\ geo /\ Happens("geo_down")
    /\ geo' = FALSE
    /\ UNCHANGED <<settle, prices, cache, lookups, quote, charge>>

GeoReturns ==
    /\ ~geo /\ geo' = TRUE
    /\ UNCHANGED <<settle, prices, cache, lookups, quote, charge>> /\ Quiet

MarketNext ==
    \/ AnHourPasses \/ GeoFails \/ GeoReturns
    \/ \E v \in Shoppers : AsksPlans(v) \/ GeoAnswers(v) \/ Orders(v)

\* Pages are loaded again and again, GeoIP answers or times out, outages end.
MarketFairness ==
    /\ WF_marketVars(Runs("market") /\ AnHourPasses) /\ WF_marketVars(Runs("market") /\ GeoReturns)
    /\ \A v \in Shoppers :
        /\ WF_marketVars(Runs("market") /\ AsksPlans(v))
        /\ WF_marketVars(Runs("market") /\ GeoAnswers(v))

-----------------------------------------------------------------------------
\* A number is charged in the currency it was written for, and in the gateway's if it has
\* one: no 790 tenge become 790 roubles on any path.
NeverReinterpreted ==
    \A v \in Shoppers : charge[v] # None =>
        /\ charge[v].in \in DOMAIN prices /\ charge[v].minor = prices[charge[v].in]
        /\ settle # None => charge[v].in = settle

\* A visitor pays what the page last said would be taken, though GeoIP, its cache and the
\* other signals may say something else by then.
PaysWhatWasShown ==
    [][\A v \in Shoppers : charge'[v] # charge[v] => charge'[v] = quote[v].taken]_marketVars

\* An outage of GeoIP does not place a visitor by what his browser says for good: who keeps
\* asking is placed by his address again and again.
PlacedAgain ==
    Runs("market") => \A v \in Shoppers :
        (Signs[v].edge = None /\ CountryOf[Signs[v].addr] # None) =>
            []<>(quote[v] # None /\ quote[v].from = CountryOf[Signs[v].addr])

\* Prices: of the plan in that currency, and charged as shown.
MarketHolds == []NeverReinterpreted /\ PaysWhatWasShown
=============================================================================
