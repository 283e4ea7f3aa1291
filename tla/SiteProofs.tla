----------------------------- MODULE SiteProofs -----------------------------
(***************************************************************************)
(* What the site shows and sells, for every set of accounts, rows, codes,  *)
(* buttons, shoppers and catalogues: the dashboard lists what the account  *)
(* it shows asked for, prices are those of the code shown and are charged  *)
(* as quoted, and a trial is claimed once at a time.                       *)
(***************************************************************************)
EXTENDS MCNode, FiniteSetTheorems, TLAPS

\* A step of the whole is a step of the dashboard, or leaves it alone.
LEMMA SiteSteps == ASSUME [MCNext]_nodeVars PROVE [SiteNext]_siteVars
<1>1. CASE MCNext BY <1>1 DEF MCNext, Only
<1>2. CASE UNCHANGED nodeVars BY <1>2 DEF nodeVars, partVars
<1>3. QED BY <1>1, <1>2

\* What a load may be.
LoadRows == [version : Nat, asker : Visitors \union {None}, at : {"asked", "read", "shown"},
             of : Visitors \union {None}, rows : SUBSET Rows]

\* The variables of the dashboard have their types.
SiteTypeOK ==
    /\ savedToken \in Visitors \union {None} /\ access \in Visitors \union {None}
    /\ visitor \in Visitors \union {None} /\ status \in {"loading", "in", "out"}
    /\ checks \subseteq Visitors /\ leaving \in BOOLEAN
    /\ epoch \in Nat /\ inflight \in BOOLEAN /\ loads \subseteq LoadRows
    /\ owned \in [Visitors -> SUBSET Rows] /\ removals \subseteq Rows

\* The lists belong to the page's account (accountKey), and somebody is signed in exactly
\* when there is one.
ShowsIts == shownFor = visitor /\ (status = "in" <=> visitor # None)

\* A load of the present epoch was asked for by the present account, and none is of a
\* later one: an account's change begins an epoch.
EpochsFit == \A l \in loads : l.version <= epoch /\ (l.version = epoch => l.asker = visitor)

\* The inductive invariant of the dashboard: the property itself, and why an answer of another
\* account is dropped.
SiteInv == SiteTypeOK /\ ShowsIts /\ EpochsFit /\ PageIsMine

\* The dashboard begins with its invariant.
LEMMA SiteInitial == SiteInit => SiteInv
<1> SUFFICES ASSUME SiteInit PROVE SiteInv OBVIOUS
<1>1. \A v \in Visitors : Rows \in SUBSET Rows OBVIOUS
<1>2. owned \in [Visitors -> SUBSET Rows] BY <1>1 DEF SiteInit
<1>3. SiteTypeOK BY <1>2 DEF SiteInit, SiteTypeOK
<1>4. ShowsIts /\ EpochsFit /\ PageIsMine BY DEF SiteInit, ShowsIts, EpochsFit, PageIsMine
<1>5. QED BY <1>3, <1>4 DEF SiteInv

\* apply, whoever the page belongs to now: its lists go, and a new epoch begins, when that
\* is somebody else.
LEMMA ShowsKeeps ==
    ASSUME SiteInv, Shows, visitor' \in Visitors \union {None}, status' \in {"in", "out"},
           status' = "in" <=> visitor' # None
    PROVE  /\ ShowsIts' /\ EpochsFit' /\ PageIsMine'
           /\ epoch' \in Nat /\ inflight' \in BOOLEAN /\ loads' \subseteq LoadRows
<1> USE DEF SiteInv, SiteTypeOK, ShowsIts, EpochsFit
<1>1. CASE visitor' = shownFor
  <2>1. UNCHANGED <<inflight, loads, shownFor, epoch, listed>> BY <1>1 DEF Shows, loadVars
  <2>2. visitor' = visitor /\ (status' = "in" <=> status = "in") BY <1>1
  <2>3. PageIsMine' BY <2>1, <2>2 DEF PageIsMine
  <2>4. QED BY <2>1, <2>2, <2>3
<1>2. CASE visitor' # shownFor
  <2>1. shownFor' = visitor' /\ epoch' = epoch + 1 /\ listed' = None BY <1>2 DEF Shows
  <2>2. PageIsMine' BY <2>1 DEF PageIsMine
  <2>3. inflight' \in BOOLEAN /\ loads' \subseteq loads \union {Load(epoch + 1, visitor')}
    BY <1>2 DEF Shows, StartsLoad, NotBusy, loadVars
  <2>4. Load(epoch + 1, visitor') \in LoadRows
        /\ Load(epoch + 1, visitor').version = epoch + 1 /\ Load(epoch + 1, visitor').asker = visitor'
    BY DEF Load, LoadRows
  <2>5. \A l \in loads : l.version \in Nat /\ l.version <= epoch BY DEF LoadRows
  <2>6. EpochsFit' BY <2>1, <2>3, <2>4, <2>5
  <2>7. QED BY <2>1, <2>2, <2>3, <2>4, <2>6
<1>3. QED BY <1>1, <1>2

\* Asking once more for the account the page shows.
LEMMA StartsKeeps ==
    ASSUME SiteInv, NEW already, StartsLoad(epoch, already, loads), UNCHANGED <<shownVars, listed>>
    PROVE  /\ ShowsIts' /\ EpochsFit' /\ PageIsMine'
           /\ epoch' \in Nat /\ inflight' \in BOOLEAN /\ loads' \subseteq LoadRows
<1> USE DEF SiteInv, SiteTypeOK, ShowsIts, EpochsFit, shownVars
<1>1. visitor' = visitor /\ epoch' = epoch /\ inflight' = TRUE
      /\ loads' \subseteq loads \union {Load(epoch, visitor)}
  BY DEF StartsLoad
<1>2. Load(epoch, visitor) \in LoadRows
      /\ Load(epoch, visitor).version = epoch /\ Load(epoch, visitor).asker = visitor
  BY DEF Load, LoadRows
<1>3. EpochsFit' BY <1>1, <1>2
<1>4. PageIsMine' /\ ShowsIts' BY DEF PageIsMine
<1>5. QED BY <1>1, <1>2, <1>3, <1>4

\* Nothing of what the lists depend on changes.
LEMMA PageStays ==
    ASSUME SiteInv, UNCHANGED <<shownVars, loadVars, listed>>
    PROVE  /\ ShowsIts' /\ EpochsFit' /\ PageIsMine'
           /\ epoch' \in Nat /\ inflight' \in BOOLEAN /\ loads' \subseteq LoadRows
BY DEF SiteInv, SiteTypeOK, ShowsIts, EpochsFit, PageIsMine, shownVars, loadVars

\* refresh of a signed-in page asks once more, and of any other shows a guest.
LEMMA RefreshesKeeps == ASSUME SiteInv, Refreshes, removals' \subseteq Rows PROVE SiteInv'
<1> USE DEF SiteInv, SiteTypeOK
<1>1. UNCHANGED <<savedToken, access, leaving, owned>> BY DEF Refreshes
<1>2. CASE savedToken = None
  <2>1. Leaves /\ checks' = checks BY <1>2 DEF Refreshes
  <2>2. visitor' = None /\ status' = "out" /\ Shows BY <2>1 DEF Leaves
  <2>3. QED BY <1>1, <2>1, <2>2, ShowsKeeps
<1>3. CASE savedToken # None
  <2>1. checks' \subseteq Visitors /\ UNCHANGED <<shownVars, listed>> BY <1>3 DEF Refreshes
  <2>2. visitor' = visitor /\ status' = status BY <2>1 DEF shownVars
  <2>3. CASE status = "in"
    <3>1. StartsLoad(epoch, inflight, loads) BY <1>3, <2>3 DEF Refreshes
    <3>2. QED BY <1>1, <2>1, <2>2, <3>1, StartsKeeps
  <2>4. CASE status # "in"
    <3>1. UNCHANGED loadVars BY <1>3, <2>4 DEF Refreshes
    <3>2. QED BY <1>1, <2>1, <2>2, <3>1, PageStays
  <2>5. QED BY <2>3, <2>4
<1>4. QED BY <1>2, <1>3

\* Every step of the dashboard keeps it.
LEMMA SiteStep == ASSUME SiteInv, [SiteNext]_siteVars PROVE SiteInv'
<1> USE DEF SiteInv, SiteTypeOK
<1>1. ASSUME NEW v \in checks, Checked(v) PROVE SiteInv'
  <2>1. /\ checks' \subseteq Visitors /\ savedToken' \in Visitors \union {None}
        /\ access' \in Visitors \union {None} /\ UNCHANGED <<owned, removals, leaving>>
    BY <1>1 DEF Checked, rowVars
  <2>2. Enters(v) \/ Leaves BY <1>1 DEF Checked
  <2>3. Shows /\ visitor' \in Visitors \union {None} /\ status' \in {"in", "out"}
        /\ (status' = "in" <=> visitor' # None)
    BY <2>2, SiteAssumption DEF SiteAssumption, Enters, Leaves
  <2>4. QED BY <2>1, <2>3, ShowsKeeps
<1>2. ASSUME NEW v \in Visitors \union {None}, OtherTab(v) PROVE SiteInv'
  <2>1. UNCHANGED <<shownVars, loadVars, listed, owned, removals, access, leaving, checks>> /\ savedToken' = v
    BY <1>2 DEF OtherTab, rowVars
  <2>2. QED BY <2>1, PageStays DEF shownVars
<1>3. ASSUME LogsOut PROVE SiteInv'
  <2>1. UNCHANGED <<shownVars, loadVars, listed, owned, removals, access, checks>>
        /\ savedToken' = None /\ leaving' = TRUE
    BY <1>3 DEF LogsOut, rowVars
  <2>2. QED BY <2>1, PageStays DEF shownVars
<1>4. ASSUME SignedOff PROVE SiteInv'
  <2>1. UNCHANGED <<owned, removals, savedToken, checks>> /\ access' = None /\ leaving' = FALSE
        /\ visitor' = None /\ status' = "out" /\ Shows
    BY <1>4 DEF SignedOff, Leaves, rowVars
  <2>2. QED BY <2>1, ShowsKeeps
<1>5. ASSUME PressesRefresh PROVE SiteInv'
  BY <1>5, RefreshesKeeps DEF PressesRefresh
<1>6. ASSUME Reloads PROVE SiteInv'
  <2>1. UNCHANGED <<shownVars, listed, savedToken, access, leaving, checks, owned, removals>>
        /\ StartsLoad(epoch, inflight, loads)
    BY <1>6 DEF Reloads, sessionVars, rowVars
  <2>2. QED BY <2>1, StartsKeeps DEF shownVars
<1>7. ASSUME NEW l \in loads, ReadsRows(l) PROVE SiteInv'
  <2> DEFINE m == [l EXCEPT !.at = "read", !.of = Caller,
                            !.rows = IF Caller = None THEN {} ELSE owned[Caller]]
  <2>1. /\ loads' = (loads \ {l}) \cup {m} /\ access' = IF Caller = None THEN access ELSE Caller
        /\ UNCHANGED <<shownVars, listed, savedToken, leaving, checks, inflight, owned, removals>>
    BY <1>7 DEF ReadsRows, rowVars
  <2>2. Caller \in Visitors \union {None} BY DEF Caller
  <2>3. l \in LoadRows /\ (IF Caller = None THEN {} ELSE owned[Caller]) \subseteq Rows BY <2>2
  <2>4. m \in LoadRows /\ m.version = l.version /\ m.asker = l.asker BY <2>2, <2>3 DEF LoadRows
  <2>5. EpochsFit' BY <2>1, <2>4 DEF EpochsFit, shownVars
  <2>6. ShowsIts' /\ PageIsMine' BY <2>1 DEF ShowsIts, PageIsMine, shownVars
  <2>7. QED BY <2>1, <2>2, <2>4, <2>5, <2>6 DEF shownVars
<1>8. ASSUME NEW l \in loads, RowsArrive(l) PROVE SiteInv'
  <2> DEFINE m == [l EXCEPT !.at = "shown", !.rows = {}]
  <2>1. /\ loads' = (loads \ {l}) \cup {m}
        /\ UNCHANGED <<shownVars, inflight, savedToken, access, leaving, checks, owned, removals>>
    BY <1>8 DEF RowsArrive, sessionVars, rowVars
  <2>2. l \in LoadRows OBVIOUS
  <2>3. m \in LoadRows /\ m.version = l.version /\ m.asker = l.asker BY <2>2 DEF LoadRows
  <2>4. EpochsFit' BY <2>1, <2>3 DEF EpochsFit, shownVars
  <2>5. \E rows \in {l.rows, {}} :
            listed' = IF Mine(l) THEN [asker |-> l.asker, of |-> l.of, rows |-> rows] ELSE listed
    BY <1>8 DEF RowsArrive
  <2>6. CASE Mine(l)
    <3>1. status = "in" /\ l.asker = visitor BY <2>6 DEF Mine, EpochsFit
    <3>2. listed'.asker = l.asker BY <2>5, <2>6
    <3>3. PageIsMine' BY <2>1, <3>1, <3>2 DEF PageIsMine, shownVars
    <3>4. QED BY <2>1, <2>3, <2>4, <3>3 DEF ShowsIts, shownVars
  <2>7. CASE ~Mine(l)
    <3>1. listed' = listed BY <2>5, <2>7
    <3>2. QED BY <2>1, <2>3, <2>4, <3>1 DEF ShowsIts, PageIsMine, shownVars
  <2>8. QED BY <2>6, <2>7
<1>9. ASSUME NEW l \in loads, LoadEnds(l) PROVE SiteInv'
  BY <1>9 DEF LoadEnds, sessionVars, shownVars, rowVars, ShowsIts, EpochsFit, PageIsMine
<1>10. ASSUME NEW r \in Rows, Removes(r) PROVE SiteInv'
  <2>1. UNCHANGED <<shownVars, loadVars, listed, savedToken, leaving, checks>>
        /\ access' = Caller /\ removals' = removals \cup {r} /\ owned' = [owned EXCEPT ![Caller] = @ \ {r}]
    BY <1>10 DEF Removes
  <2>2. Caller \in Visitors \union {None} BY DEF Caller
  <2>3. owned' \in [Visitors -> SUBSET Rows] BY <2>1, <2>2
  <2>4. QED BY <2>1, <2>2, <2>3, PageStays DEF shownVars
<1>11. ASSUME NEW r \in removals, HearsRemoval(r) PROVE SiteInv'
  <2>1. removals' \subseteq Rows BY <1>11 DEF HearsRemoval
  <2>2. CASE Refreshes BY <2>1, <2>2, RefreshesKeeps
  <2>3. CASE UNCHANGED <<sessionVars, shownVars, loadVars, listed, owned>>
    BY <2>1, <2>3, PageStays DEF sessionVars, shownVars
  <2>4. QED BY <1>11, <2>2, <2>3 DEF HearsRemoval
<1>12. CASE UNCHANGED siteVars
  BY <1>12, PageStays DEF siteVars, sessionVars, shownVars, rowVars
<1>13. QED BY <1>1, <1>2, <1>3, <1>4, <1>5, <1>6, <1>7, <1>8, <1>9, <1>10, <1>11, <1>12 DEF SiteNext

\* Whatever the dashboard lists was asked for by the account it shows, however answers,
\* renewals, other tabs and changes of the account follow each other (app.js, epoch and
\* resetAccount).
THEOREM PageKept == MCSpec => []PageIsMine
<1>1. MCInit => SiteInv BY SiteInitial DEF MCInit
<1>2. SiteInv /\ [MCNext]_nodeVars => SiteInv' BY SiteSteps, SiteStep
<1>3. SiteInv => PageIsMine BY DEF SiteInv
<1>4. QED BY <1>1, <1>2, <1>3, PTL DEF MCSpec

-----------------------------------------------------------------------------
\* A step of the whole is a step of the selling pages, or leaves them alone.
LEMMA CheckoutSteps == ASSUME [MCNext]_nodeVars PROVE [CheckoutNext]_checkoutVars
<1>1. CASE MCNext BY <1>1 DEF MCNext, Only
<1>2. CASE UNCHANGED nodeVars BY <1>2 DEF nodeVars, partVars
<1>3. QED BY <1>1, <1>2

\* At most one code is being asked about, and it is the one an order would take; before the
\* server sells there is none.
OneProbe ==
    /\ probes \in Seq(Codes) /\ Len(probes) <= 1
    /\ Len(probes) = 1 => probes[1] = promoCode
    /\ ~sells => promoView = None /\ probes = <<>>

\* A claim under way marks the page busy, and there is one.
OneClaim ==
    /\ claims # {} => trialBusy
    /\ \A b1, b2 \in claims : b1 = b2

\* The inductive invariant of the checkout page.
CheckoutInv == OneProbe /\ PriceIsAsShown /\ OneClaim

\* The code with its price is left alone by every step that is not about codes.
LEMMA PriceStays ==
    ASSUME OneProbe, PriceIsAsShown, UNCHANGED promoVars PROVE OneProbe' /\ PriceIsAsShown'
BY DEF OneProbe, PriceIsAsShown, promoVars

\* So are the claims.
LEMMA ClaimStays ==
    ASSUME OneClaim, UNCHANGED <<trialBusy, claims>> PROVE OneClaim'
BY DEF OneClaim

\* A claim is made only by a page that is not busy with one.
LEMMA ClaimBegins ==
    ASSUME OneClaim, NotClaiming, NEW some, Claims(some) PROVE OneClaim'
<1>1. claims = {} BY DEF OneClaim, NotClaiming
<1>2. PICK bt \in some : trialBusy' = TRUE /\ claims' = claims \cup {bt} BY DEF Claims
<1>3. claims' = {bt} BY <1>1, <1>2
<1>4. QED BY <1>2, <1>3 DEF OneClaim

\* The session becomes known or another one.
LEMMA LoginKeeps == ASSUME CheckoutInv, NEW found, LoginIs(found) PROVE CheckoutInv'
<1>1. UNCHANGED promoVars BY DEF LoginIs
<1>2. OneProbe' /\ PriceIsAsShown' BY <1>1, PriceStays DEF CheckoutInv
<1>3. (NotClaiming /\ Claims(waits)) \/ UNCHANGED <<trialBusy, claims>> BY DEF LoginIs
<1>4. OneClaim' BY <1>3, ClaimBegins, ClaimStays DEF CheckoutInv
<1>5. QED BY <1>2, <1>4 DEF CheckoutInv

\* Every step of the selling pages keeps it.
LEMMA CheckoutStep == ASSUME CheckoutInv, [CheckoutNext]_checkoutVars PROVE CheckoutInv'
<1> USE DEF CheckoutInv
<1>1. ASSUME LoginKnown \/ LoginChanges PROVE CheckoutInv'
  BY <1>1, LoginKeeps DEF LoginKnown, LoginChanges
<1>2. ASSUME PlansArrive PROVE CheckoutInv'
  <2>1. sells' = TRUE /\ UNCHANGED <<promoCode, promoView, probes, trialBusy, claims>>
    BY <1>2 DEF PlansArrive, claimVars
  <2>2. QED BY <2>1, ClaimStays DEF OneProbe, PriceIsAsShown
<1>3. ASSUME NEW c \in Codes \union {None}, UsesPromo(c) PROVE CheckoutInv'
  <2>1. /\ probes = <<>> /\ promoCode' = c /\ sells' = sells
        /\ promoView' = IF c = None THEN None ELSE promoView
        /\ probes' = IF c # None /\ sells THEN Append(probes, c) ELSE probes
        /\ UNCHANGED <<trialBusy, claims>>
    BY <1>3 DEF UsesPromo, FormOpen, claimVars
  <2>2. CASE c # None /\ sells
    <3>1. c \in Codes /\ probes' = <<c>> BY <2>1, <2>2
    <3>2. OneProbe' /\ PriceIsAsShown' BY <2>1, <2>2, <3>1 DEF OneProbe, PriceIsAsShown
    <3>3. QED BY <2>1, <3>2, ClaimStays
  <2>3. CASE ~(c # None /\ sells)
    <3>1. probes' = <<>> /\ promoView' = None BY <2>1, <2>3 DEF OneProbe
    <3>2. OneProbe' /\ PriceIsAsShown' BY <2>1, <3>1 DEF OneProbe, PriceIsAsShown
    <3>3. QED BY <2>1, <3>2, ClaimStays
  <2>4. QED BY <2>2, <2>3
<1>4. ASSUME NEW i \in 1..MaxClicks, PromoChecked(i) PROVE CheckoutInv'
  <2>1. /\ i \in 1..Len(probes) /\ UNCHANGED <<sells, trialBusy, claims>>
        /\ probes' = SubSeq(probes, 1, i - 1) \o SubSeq(probes, i + 1, Len(probes))
        /\ \/ promoView' = probes[i] /\ promoCode' = promoCode
           \/ promoView' = None /\ promoCode' = None
    BY <1>4 DEF PromoChecked, claimVars
  <2>3. probes \in Seq(Codes) /\ Len(probes) \in Nat /\ Len(probes) <= 1 BY DEF OneProbe
  <2>10. i \in 1..Len(probes) BY <2>1
  <2>9. Len(probes) = 1 /\ i = 1
    <3> DEFINE n == Len(probes)
    <3>1. n \in Nat /\ n <= 1 BY <2>3
    <3>2. i \in 1..n BY <2>10
    <3> HIDE DEF n
    <3>3. n = 1 /\ i = 1 BY <3>1, <3>2
    <3>4. QED BY <3>3 DEF n
  <2>2. Len(probes) = 1 /\ i = 1 /\ probes[i] = promoCode BY <2>9 DEF OneProbe
  <2>4. SubSeq(probes, 1, 0) = <<>> /\ SubSeq(probes, 2, 1) = <<>> BY <2>3
  <2>5. probes' = <<>> BY <2>1, <2>2, <2>4
  <2>6. sells' BY <2>1, <2>2 DEF OneProbe
  <2>7. OneProbe' /\ PriceIsAsShown' BY <2>1, <2>2, <2>5, <2>6 DEF OneProbe, PriceIsAsShown
  <2>8. QED BY <2>1, <2>7, ClaimStays
<1>5. ASSUME Buys \/ Ordered PROVE CheckoutInv'
  BY <1>5, PriceStays, ClaimStays DEF Buys, Ordered, claimVars
<1>6. ASSUME NEW bt \in Buttons, PressesClaim(bt) PROVE CheckoutInv'
  <2>1. UNCHANGED promoVars BY <1>6 DEF PressesClaim
  <2>2. (NotClaiming /\ Claims({bt})) \/ UNCHANGED <<trialBusy, claims>>
    BY <1>6 DEF PressesClaim, claimVars
  <2>3. QED BY <2>1, <2>2, PriceStays, ClaimBegins, ClaimStays
<1>7. ASSUME NEW bt \in claims, Claimed(bt) PROVE CheckoutInv'
  <2>1. UNCHANGED promoVars /\ claims' = claims \ {bt} BY <1>7 DEF Claimed
  <2>2. claims' = {} BY <2>1 DEF OneClaim
  <2>3. QED BY <2>1, <2>2, PriceStays DEF OneClaim
<1>8. ASSUME Reconciles \/ ShowsReturn PROVE CheckoutInv'
  BY <1>8, PriceStays, ClaimStays DEF Reconciles, ShowsReturn, claimVars
<1>9. ASSUME NEW i \in 1..(MaxClicks + MaxEvents + 2), OfferArrives(i) PROVE CheckoutInv'
  BY <1>9, PriceStays, ClaimStays DEF OfferArrives
<1>10. CASE UNCHANGED checkoutVars
  BY <1>10, PriceStays, ClaimStays DEF checkoutVars, claimVars
<1>11. QED BY <1>1, <1>2, <1>3, <1>4, <1>5, <1>6, <1>7, <1>8, <1>9, <1>10 DEF CheckoutNext

\* The discount shown is that of the code an order would take, once the server has
\* answered for it, and the trial is claimed once at a time, from however many buttons,
\* drawn anew or waiting for the session (usePromo, buy, claim).
THEOREM CheckoutKept == MCSpec => []CheckoutHolds
<1>1. MCInit => CheckoutInv
  BY DEF MCInit, CheckoutInit, CheckoutInv, OneProbe, OneClaim, PriceIsAsShown
<1>2. CheckoutInv /\ [MCNext]_nodeVars => CheckoutInv' BY CheckoutSteps, CheckoutStep
<1>3. CheckoutInv => CheckoutHolds
  <2> SUFFICES ASSUME CheckoutInv PROVE CheckoutHolds OBVIOUS
  <2>1. PriceIsAsShown BY DEF CheckoutInv
  <2>2. claims = {} \/ \E b1 : claims = {b1} BY DEF CheckoutInv, OneClaim
  <2>3. Cardinality({}) = 0 BY FS_EmptySet
  <2>4. \A b1 : Cardinality({b1}) = 1 BY FS_Singleton
  <2>5. CASE claims = {}
    <3>1. Cardinality(claims) = 0 BY <2>3, <2>5
    <3>2. QED BY <2>1, <3>1 DEF CheckoutHolds, ClaimsOnce
  <2>7. ASSUME NEW b1, claims = {b1} PROVE CheckoutHolds
    <3>1. Cardinality(claims) = 1 BY <2>4, <2>7
    <3>2. QED BY <2>1, <3>1 DEF CheckoutHolds, ClaimsOnce
  <2>8. QED BY <2>2, <2>5, <2>7
<1>4. QED BY <1>1, <1>2, <1>3, PTL DEF MCSpec

-----------------------------------------------------------------------------
\* A step of the whole is a step of the market, or leaves it alone.
LEMMA MarketSteps == ASSUME [MCNext]_nodeVars PROVE [MarketNext]_marketVars
<1>1. CASE MCNext BY <1>1 DEF MCNext, Only
<1>2. CASE UNCHANGED nodeVars BY <1>2 DEF nodeVars, partVars
<1>3. QED BY <1>1, <1>2

\* A price is the catalogue's number in the currency it names (resolvePlanPrice).
LEMMA PriceOfCatalogue ==
    ASSUME prices \in Catalogues, NEW wanted
    PROVE  PriceIn(wanted).in \in DOMAIN prices /\ PriceIn(wanted).minor = prices[PriceIn(wanted).in]
BY MarketAssumption DEF MarketAssumption, PriceIn

\* The variables of the market have their types.
MarketTypeOK ==
    /\ settle \in {None, "RUB"} /\ prices \in Catalogues
    /\ DOMAIN quote = Shoppers /\ DOMAIN charge = Shoppers

\* What a page says will be taken is what an order that echoes its currency would take.
TakenFits ==
    \A v \in Shoppers : quote[v] # None =>
        quote[v].taken = PriceIn(IF settle = None THEN quote[v].currency ELSE settle)

\* The inductive invariant of the market.
MarketInv == MarketTypeOK /\ TakenFits /\ NeverReinterpreted

\* A new quote fits the market as the others do.
LEMMA QuoteFits ==
    ASSUME MarketInv, NEW v \in Shoppers, NEW country, Quoted(v, country), UNCHANGED <<settle, prices, charge>>
    PROVE  MarketInv'
<1> DEFINE asked == CurrencyIn(country, v)
           page == [from |-> country, currency |-> asked, price |-> PriceIn(asked),
                    taken |-> IF settle = None THEN PriceIn(asked) ELSE PriceIn(settle)]
<1>1. quote' = [quote EXCEPT ![v] = page] BY DEF Quoted
<1>2. page.taken = PriceIn(IF settle = None THEN page.currency ELSE settle) OBVIOUS
<1> HIDE DEF page
<1>3. \A u \in Shoppers : quote'[u] = IF u = v THEN page ELSE quote[u]
  BY <1>1 DEF MarketInv, MarketTypeOK
<1>4. \A wanted : PriceIn(wanted)' = PriceIn(wanted) BY DEF PriceIn
<1>5. TakenFits' BY <1>2, <1>3, <1>4 DEF TakenFits, MarketInv
<1>6. QED BY <1>1, <1>5 DEF MarketInv, MarketTypeOK, NeverReinterpreted

\* Every step of the market keeps it, and charges what was shown.
LEMMA MarketStep ==
    ASSUME MarketInv, [MarketNext]_marketVars
    PROVE  MarketInv' /\ \A v \in Shoppers : charge'[v] # charge[v] => charge'[v] = quote[v].taken
<1> DEFINE AsShown == \A v \in Shoppers : charge'[v] # charge[v] => charge'[v] = quote[v].taken
<1>1. ASSUME UNCHANGED <<settle, prices, quote, charge>> PROVE MarketInv' /\ AsShown
  <2>1. \A wanted : PriceIn(wanted)' = PriceIn(wanted) BY <1>1 DEF PriceIn
  <2>2. TakenFits' BY <1>1, <2>1 DEF TakenFits, MarketInv
  <2>3. QED BY <1>1, <2>2 DEF MarketInv, MarketTypeOK, NeverReinterpreted
<1>2. ASSUME NEW v \in Shoppers, AsksPlans(v) PROVE MarketInv' /\ AsShown
  <2>1. UNCHANGED <<settle, prices, charge>> BY <1>2 DEF AsksPlans
  <2>2. (\E country : Quoted(v, country)) \/ quote' = quote BY <1>2 DEF AsksPlans, ByAddress
  <2>3. QED BY <1>1, <2>1, <2>2, QuoteFits
<1>3. ASSUME NEW v \in Shoppers, GeoAnswers(v) PROVE MarketInv' /\ AsShown
  <2>1. UNCHANGED <<settle, prices, charge>> /\ \E country : Quoted(v, country)
    BY <1>3 DEF GeoAnswers, ByAddress
  <2>2. QED BY <2>1, QuoteFits
<1>4. ASSUME NEW v \in Shoppers, Orders(v) PROVE MarketInv' /\ AsShown
  <2> DEFINE price == PriceIn(IF settle = None THEN Echoed(v) ELSE settle)
  <2>1. /\ quote[v] # None /\ (settle # None => price.in = settle)
        /\ charge' = [charge EXCEPT ![v] = price] /\ UNCHANGED <<settle, prices, quote>>
    BY <1>4 DEF Orders
  <2>2. price = quote[v].taken BY <2>1 DEF Echoed, MarketInv, TakenFits
  <2>3. price.in \in DOMAIN prices /\ price.minor = prices[price.in]
    BY PriceOfCatalogue DEF MarketInv, MarketTypeOK
  <2> HIDE DEF price
  <2>4. \A u \in Shoppers : charge'[u] = IF u = v THEN price ELSE charge[u]
    BY <2>1 DEF MarketInv, MarketTypeOK
  <2>5. AsShown BY <2>2, <2>4
  <2>6. NeverReinterpreted' BY <2>1, <2>3, <2>4 DEF NeverReinterpreted, MarketInv
  <2>7. \A wanted : PriceIn(wanted)' = PriceIn(wanted) BY <2>1 DEF PriceIn
  <2>8. TakenFits' BY <2>1, <2>7 DEF TakenFits, MarketInv
  <2>9. QED BY <2>1, <2>5, <2>6, <2>8 DEF MarketInv, MarketTypeOK
<1>5. ASSUME AnHourPasses \/ GeoFails \/ GeoReturns PROVE MarketInv' /\ AsShown
  BY <1>1, <1>5 DEF AnHourPasses, GeoFails, GeoReturns
<1>6. CASE UNCHANGED marketVars BY <1>1, <1>6 DEF marketVars
<1>7. QED BY <1>2, <1>3, <1>4, <1>5, <1>6 DEF MarketNext

\* No number is charged in a currency it was not written for, and a visitor pays what his
\* page last said would be taken, for every catalogue, currency of the gateway and order of
\* look-ups, cached answers and outages (resolvePlanPrice, createOrder).
THEOREM MarketKept == MCSpec => MarketHolds
<1>1. MCInit => MarketInv
  BY DEF MCInit, MarketInit, MarketInv, MarketTypeOK, TakenFits, NeverReinterpreted
<1>2. MarketInv /\ [MCNext]_nodeVars => MarketInv' BY MarketSteps, MarketStep
<1>3. MarketInv /\ [MCNext]_nodeVars =>
        [\A v \in Shoppers : charge'[v] # charge[v] => charge'[v] = quote[v].taken]_marketVars
  BY MarketSteps, MarketStep
<1>4. MarketInv => NeverReinterpreted BY DEF MarketInv
<1>5. QED BY <1>1, <1>2, <1>3, <1>4, PTL DEF MCSpec, MarketHolds, PaysWhatWasShown
=============================================================================
