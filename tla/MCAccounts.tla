------------------------------ MODULE MCAccounts ------------------------------
(***************************************************************************)
(* Accounts, one machine at a time: tokens, sign-in links, device slots,   *)
(* sign-up, the staff and the traffic of a plan.  See Happenings.          *)
(***************************************************************************)
EXTENDS RefreshTokens, LinkAuth, DeviceSlots, SignUp, Administration, TrafficWindow, TLC

CONSTANTS
    Parts,      \* the machines to run
    k1, k2, k3

\* Two phones and a laptop.
OneLaptop == (k1 :> "phone") @@ (k2 :> "phone") @@ (k3 :> "laptop")

\* Two plans and Free.
RankOf == ("basic" :> 1) @@ ("pro" :> 2)
DaysOf == ("basic" :> 2) @@ ("pro" :> 2)
UnitsOf == ("free" :> 1) @@ ("basic" :> 1) @@ ("pro" :> 2)

partVars == <<tokenVars, linkVars, slotVars, signUpVars, adminVars, windowVars>>
accountVars == <<part, events, partVars>>

MCInit ==
    /\ part \in Parts /\ events = 0
    /\ TokensInit /\ LinkInit /\ SlotsInit /\ SignUpInit /\ AdminInit /\ WindowInit
    \* a machine that does not run is in one of its initial states
    /\ Runs("links") \/ workers = {}

Only(machine, vars) == Runs(machine) /\ UNCHANGED <<part, vars>>

MCNext ==
    \/ TokensNext /\ Only("tokens", <<linkVars, slotVars, signUpVars, adminVars, windowVars>>)
    \/ LinkNext /\ Only("links", <<tokenVars, slotVars, signUpVars, adminVars, windowVars>>)
    \/ SlotsNext /\ Only("slots", <<tokenVars, linkVars, signUpVars, adminVars, windowVars>>)
    \/ SignUpNext /\ Only("signup", <<tokenVars, linkVars, slotVars, adminVars, windowVars>>)
    \/ AdminNext /\ Only("staff", <<tokenVars, linkVars, slotVars, signUpVars, windowVars>>)
    \/ WindowNext /\ Only("window", <<tokenVars, linkVars, slotVars, signUpVars, adminVars>>)

MCSpec == MCInit /\ [][MCNext]_accountVars
MCFairSpec ==
    MCSpec /\ TokensFairness /\ LinkFairness /\ SlotsFairness /\ SignUpFairness /\ AdminFairness

\* No page is stuck: one whose token is refused drops it, one that waits for the bot learns
\* that the account is there or stops asking, one whose link was approved signs in, and the
\* panel of a member of staff closes or comes to show what is.
PagesSettle == ClientSettles /\ PageLearns /\ ApprovalSignsIn /\ LosesPanel /\ PanelCatchesUp
=============================================================================
