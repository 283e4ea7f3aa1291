------------------------------- MODULE MCNode -------------------------------
(***************************************************************************)
(* The node and its server, and the site that shows and sells it, one      *)
(* machine at a time: a behaviour picks its part in the beginning, and the *)
(* others stay as they are.                                                *)
(***************************************************************************)
EXTENDS UsageAccounting, PolicySync, SharedBudget, PeerShaping, Deployment, EgressBudget,
    SiteDashboard, SiteCheckout, Market, TLC

CONSTANTS
    Parts,      \* the machines to run
    a, b

March == <<3, 2>>
\* One panel for everything, and one that only promotes.
TwoPanels == (1 :> {"DEPLOY_BETA", "PROMOTE", "ROLLBACK", "START", "STOP"}) @@ (2 :> {"PROMOTE"})
\* Each way of a device's traffic, beside another.
TwoMixes == {(a :> "vless") @@ (b :> "peer"), (a :> "proxy") @@ (b :> "vless")}
\* An address abroad behind a Russian browser, and one in a country without a currency here.
TwoSigns == (a :> [edge |-> None, addr |-> 1, zone |-> None, lang |-> "RU", chosen |-> None])
         @@ (b :> [edge |-> None, addr |-> 2, zone |-> "DE", lang |-> None, chosen |-> "ru"])
TwoPlaces == (1 :> "KZ") @@ (2 :> "US")
HomePrices == ("KZ" :> "KZT") @@ ("RU" :> "RUB")
TwoCatalogues == {("KZT" :> 3) @@ ("RUB" :> 2), ("KZT" :> 3) @@ ("USD" :> 1)}

partVars == <<usageVars, policyVars, budgetVars, shapingVars, deployVars, egressVars,
              siteVars, checkoutVars, marketVars>>
nodeVars == <<part, events, partVars>>

MCInit ==
    /\ part \in Parts /\ events = 0
    /\ UsageInit /\ PolicyInit /\ BudgetInit /\ ShapingInit /\ DeployInit /\ EgressInit
    /\ SiteInit /\ CheckoutInit /\ MarketInit
    \* a machine that does not run is in one of its initial states
    /\ Runs("usage") \/ plane = CHOOSE p \in Mixes : TRUE
    /\ Runs("budget") \/ rate = Max(Rates)
    /\ Runs("site") \/ savedToken = CHOOSE v \in Visitors : TRUE
    /\ Runs("checkout") \/ returned = "no"
    /\ Runs("market") \/ (settle = None /\ prices = CHOOSE c \in Catalogues : TRUE)

Only(machine, vars) == Runs(machine) /\ UNCHANGED <<part, vars>>

MCNext ==
    \/ UsageNext /\ Only("usage", <<policyVars, budgetVars, shapingVars, deployVars,
            egressVars, siteVars, checkoutVars, marketVars>>)
    \/ PolicyNext /\ Only("policy", <<usageVars, budgetVars, shapingVars, deployVars,
            egressVars, siteVars, checkoutVars, marketVars>>)
    \/ BudgetNext /\ Only("budget", <<usageVars, policyVars, shapingVars, deployVars,
            egressVars, siteVars, checkoutVars, marketVars>>)
    \/ ShapingNext /\ Only("shaping", <<usageVars, policyVars, budgetVars, deployVars,
            egressVars, siteVars, checkoutVars, marketVars>>)
    \/ DeployNext /\ Only("deploy", <<usageVars, policyVars, budgetVars, shapingVars,
            egressVars, siteVars, checkoutVars, marketVars>>)
    \/ EgressNext /\ Only("egress", <<usageVars, policyVars, budgetVars, shapingVars,
            deployVars, siteVars, checkoutVars, marketVars>>)
    \/ SiteNext /\ Only("site", <<usageVars, policyVars, budgetVars, shapingVars,
            deployVars, egressVars, checkoutVars, marketVars>>)
    \/ CheckoutNext /\ Only("checkout", <<usageVars, policyVars, budgetVars, shapingVars,
            deployVars, egressVars, siteVars, marketVars>>)
    \/ MarketNext /\ Only("market", <<usageVars, policyVars, budgetVars, shapingVars,
            deployVars, egressVars, siteVars, checkoutVars>>)

MCSpec == MCInit /\ [][MCNext]_nodeVars
MCFairSpec ==
    /\ MCSpec /\ UsageFairness /\ PolicyFairness /\ DeployFairness /\ EgressFairness
    /\ SiteFairness /\ CheckoutFairness /\ MarketFairness

\* What a tick of the node, of the server or of a page has to bring in the end: traffic into
\* its account and a spent account's end, a policy onto its gateway, a job's outcome, the
\* news of a threshold, and pages that load, forget what was removed, take every press and
\* show the offer and the place that fit.
NodeSettles ==
    /\ SampledIsCharged /\ SpentIsCut /\ PolicyArrives /\ BarredIsCut /\ JobEnds /\ Told
    /\ LoadingEnds /\ RemovedLeaves /\ PressesTaken /\ OfferFits /\ PlacedAgain
=============================================================================
