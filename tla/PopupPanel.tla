----------------------------- MODULE PopupPanel -----------------------------
(***************************************************************************)
(* The popup of the browser extension: the settings form, which is saved   *)
(* through the worker while the worker's state is polled into it, the      *)
(* switch between the two control planes, and the map of the account's     *)
(* devices, asked for under one account and shown under another.           *)
(*                                                                         *)
(* The setting stands for all those the form holds; the worker is its      *)
(* storage and its tokens, and answers messages in their order.            *)
(***************************************************************************)
EXTENDS Happenings

CONSTANTS
    People,      \* accounts somebody signs in with
    MaxChanges   \* bound of the model: changes to the form

VARIABLES
    form,      \* settings: what the popup holds and shows
    stored,    \* what the worker has in storage
    chosen,    \* the last choice the person made of the setting
    changes,   \* choices made so far
    timer,     \* saveTimer: a change waits for its save
    pending,   \* savePending
    guard,     \* saveGuardUntil lies ahead
    saves,     \* patches on their way to the worker, in order
    saved,     \* the answer to a save on its way back
    answer,    \* an answer to getState on its way: settings and account
    account,   \* state.user
    tokens,    \* the worker's tokens: whose, and of which control plane
    switching, \* switchChannel: where it is, and where to
    shownMap,  \* activeMapData: whose devices are on the map
    mapAsked,  \* the map on its way: asked for whom, its contents, and in the current revision
    lost       \* a save was lost

popupVars == <<form, stored, chosen, changes, timer, pending, guard, saves, saved, answer,
               account, tokens, switching, shownMap, mapAsked, lost>>

Channels == {"prod", "beta"}
NoMap == [who |-> None, of |-> None, current |-> FALSE]
NotSwitching == [pc |-> "idle", to |-> None]

PopupInit ==
    /\ \E p \in People :
         /\ account = p
         /\ tokens = [who |-> p, plane |-> "prod"]
    /\ form = [channel |-> "prod", choice |-> 0]
    /\ stored = form /\ chosen = 0 /\ changes = 0
    /\ timer = FALSE /\ pending = FALSE /\ guard = FALSE
    /\ saves = <<>> /\ saved = None /\ answer = None
    /\ switching = NotSwitching
    /\ shownMap = None /\ mapAsked = NoMap
    /\ lost = FALSE

NoTokens == [who |-> None, plane |-> None]
savingVars == <<timer, pending, guard, saves, saved>>
peopleVars == <<account, tokens, switching>>
mapVars == <<shownMap, mapAsked>>

-----------------------------------------------------------------------------
\* A control of the form, and queueSave.
Changes ==
    /\ changes < MaxChanges /\ account # None /\ switching.pc = "idle"
    /\ changes' = changes + 1
    /\ chosen' = 1 - form.choice
    /\ form' = [form EXCEPT !.choice = 1 - @]
    /\ timer' = TRUE /\ guard' = TRUE
    /\ lost' = FALSE
    /\ UNCHANGED <<stored, pending, saves, saved, answer, peopleVars, mapVars>> /\ Quiet

\* saveSettings, when the timer fires or the popup loses the focus.
Send(patch) ==
    /\ saves' = Append(saves, patch)
    /\ pending' = TRUE

SavesForm ==
    /\ timer /\ Len(saves) < 2 /\ saved = None
    /\ timer' = FALSE
    /\ Send(form)
    /\ UNCHANGED <<form, stored, chosen, changes, guard, saved, answer, peopleVars, mapVars,
                   lost>> /\ Quiet

\* A popup that was closed hears no answer.
Told(outcome) == IF pending THEN outcome ELSE None

WorkerStores ==
    /\ saves # <<>> /\ saved = None
    /\ saves' = Tail(saves)
    /\ \/ stored' = Head(saves) /\ saved' = Told("ok") /\ UNCHANGED lost /\ Quiet
       \/ Happens("save_lost") /\ saved' = Told("bad") /\ lost' = TRUE /\ UNCHANGED stored
       \/ Happens("reply_lost") /\ stored' = Head(saves) /\ saved' = Told("bad") /\ UNCHANGED lost
    /\ UNCHANGED <<form, chosen, changes, timer, pending, guard, answer, peopleVars, mapVars>>

\* The answer to a save: the form is kept from the polls for a while longer.
SaveEnds ==
    /\ saved # None
    /\ pending' = FALSE /\ guard' = TRUE
    /\ saved' = None
    /\ IF switching.pc # "save" THEN UNCHANGED <<form, switching>>
       ELSE IF saved = "ok" THEN switching' = [switching EXCEPT !.pc = "sign_out"] /\ UNCHANGED form
       ELSE /\ switching' = NotSwitching
            /\ form' = [form EXCEPT !.channel = CHOOSE c \in Channels : c # switching.to]
    /\ UNCHANGED <<stored, chosen, changes, timer, saves, answer, account, tokens, mapVars,
                   lost>> /\ Quiet

\* The guard outlasts the answers that were asked for before the save was stored; an answer
\* that takes longer than that is an event of its own.
GuardEnds ==
    /\ guard /\ ~timer /\ saves = <<>> /\ saved = None
    /\ IF answer = None \/ answer.settings = stored THEN Quiet ELSE Happens("late_answer")
    /\ guard' = FALSE
    /\ UNCHANGED <<form, stored, chosen, changes, timer, pending, saves, saved, answer,
                   peopleVars, mapVars, lost>>

-----------------------------------------------------------------------------
\* getState, every five seconds and after most actions.
AsksState ==
    /\ answer = None /\ saves = <<>>
    /\ answer' = [settings |-> stored, who |-> tokens.who]
    /\ UNCHANGED <<form, stored, chosen, changes, savingVars, peopleVars, mapVars, lost>>
    /\ Quiet

\* Fault: the form takes what the worker says at any time.
AlwaysAccepts == TRUE
Accepts == ~pending /\ ~guard

AppliesState ==
    /\ answer # None
    /\ answer' = None
    /\ form' = IF Accepts THEN answer.settings ELSE form
    /\ account' = answer.who
    /\ UNCHANGED <<stored, chosen, changes, savingVars, tokens, switching, mapVars, lost>>
    /\ Quiet

-----------------------------------------------------------------------------
\* switchChannel: the other plane is tried first, and nothing changes unless it answers.
BeginsSwitch ==
    /\ Happens("switch")
    /\ account # None /\ switching = NotSwitching /\ ~timer /\ Len(saves) < 2
    /\ switching' = [pc |-> "probe", to |-> CHOOSE c \in Channels : c # form.channel]
    /\ shownMap' = None
    /\ mapAsked' = [mapAsked EXCEPT !.current = FALSE]
    /\ UNCHANGED <<form, stored, chosen, changes, savingVars, answer, account, tokens, lost>>

ProbesPlane ==
    /\ switching.pc = "probe"
    /\ \/ /\ switching' = NotSwitching
          /\ UNCHANGED <<form, saves, pending>>
       \/ /\ switching' = [switching EXCEPT !.pc = "save"]
          /\ form' = [form EXCEPT !.channel = switching.to]
          /\ Send(form')
    /\ UNCHANGED <<stored, chosen, changes, timer, guard, saved, answer, account, tokens,
                   mapVars, lost>> /\ Quiet

\* signOut: the tokens are forgotten whatever the server says. Within a switch it is the
\* new plane that is told, and knows nothing of them.
SignsOutHere ==
    /\ \/ switching.pc = "sign_out" /\ Quiet
       \/ switching.pc = "idle" /\ account # None /\ Happens("sign_out")
    /\ tokens' = NoTokens /\ account' = None
    /\ switching' = NotSwitching
    /\ shownMap' = None
    /\ mapAsked' = [mapAsked EXCEPT !.current = FALSE]
    /\ answer' = None
    /\ UNCHANGED <<form, stored, chosen, changes, savingVars, lost>>

\* Fault: the timer goes with the popup.
TimerDropped == <<>>
\* When the popup loses the focus a waiting change is saved at once.
Flushed == IF timer THEN <<form>> ELSE <<>>

\* The popup closes: a change that waits is sent, and a switch is left where it is.
PopupCloses ==
    /\ Happens("popup_closes")
    /\ saved = None /\ saves = <<>>
    /\ saves' = Flushed
    /\ timer' = FALSE /\ pending' = FALSE /\ guard' = FALSE
    /\ switching' = NotSwitching
    /\ answer' = None /\ shownMap' = None /\ mapAsked' = NoMap
    /\ UNCHANGED <<form, stored, chosen, changes, saved, account, tokens, lost>>

\* Fault: a refused refresh is taken for an outage.
KeepsRefused == tokens
\* The other plane refuses the access token, and then the refresh token.
DropsRefused == NoTokens

\* A request of the worker, or a restart: the tokens are tried on the plane of the settings.
TriesTokens ==
    /\ tokens.who # None /\ tokens.plane # stored.channel
    /\ tokens' = DropsRefused
    /\ UNCHANGED <<form, stored, chosen, changes, savingVars, answer, account, switching,
                   mapVars, lost>> /\ Quiet

\* A sign-in takes a person longer than an answer, and than the popup to its next round.
SignsInAs(p) ==
    /\ tokens.who = None /\ account = None /\ switching.pc = "idle" /\ shownMap = None /\ answer = None
    /\ tokens' = [who |-> p, plane |-> stored.channel]
    /\ UNCHANGED <<form, stored, chosen, changes, savingVars, answer, account, switching,
                   mapVars, lost>> /\ Quiet

-----------------------------------------------------------------------------
\* refreshServiceAndMap: the worker answers for the tokens it has then.
AsksMap ==
    /\ mapAsked = NoMap
    /\ account # None
    /\ mapAsked' = [who |-> account, of |-> tokens.who, current |-> TRUE]
    /\ UNCHANGED <<form, stored, chosen, changes, savingVars, answer, peopleVars, shownMap,
                   lost>> /\ Quiet

\* Fault: only the revision is compared.
SameRevision == mapAsked.current
StillCurrent == mapAsked.current /\ mapAsked.who = account /\ switching.pc = "idle"

ShowsMap ==
    /\ mapAsked # NoMap
    /\ mapAsked' = NoMap
    /\ shownMap' = IF StillCurrent THEN mapAsked.of ELSE shownMap
    /\ UNCHANGED <<form, stored, chosen, changes, savingVars, answer, peopleVars, lost>> /\ Quiet

\* Nobody is signed in any more: the next round of the popup takes the map away.
HidesMap ==
    /\ account = None /\ shownMap # None
    /\ shownMap' = None
    /\ UNCHANGED <<form, stored, chosen, changes, savingVars, answer, peopleVars, mapAsked,
                   lost>> /\ Quiet

PopupNext ==
    \/ Changes \/ SavesForm \/ WorkerStores \/ SaveEnds \/ GuardEnds
    \/ AsksState \/ AppliesState
    \/ BeginsSwitch \/ ProbesPlane \/ SignsOutHere \/ PopupCloses \/ TriesTokens
    \/ \E p \in People : SignsInAs(p)
    \/ AsksMap \/ ShowsMap \/ HidesMap

\* Timers fire, messages are answered, and the popup polls the worker.
PopupFairness ==
    /\ WF_popupVars(Runs("popup") /\ SavesForm) /\ WF_popupVars(Runs("popup") /\ WorkerStores) /\ WF_popupVars(Runs("popup") /\ SaveEnds)
    /\ WF_popupVars(Runs("popup") /\ GuardEnds) /\ WF_popupVars(Runs("popup") /\ AsksState) /\ SF_popupVars(Runs("popup") /\ AppliesState)
    /\ WF_popupVars(Runs("popup") /\ TriesTokens)

-----------------------------------------------------------------------------
\* What the person chose stays in the form: no poll puts an older value back, unless its
\* save was lost.
ChoiceStays == lost \/ form.choice = chosen

\* Every choice is stored in the end, unless the person chose again or the save was lost.
ChoiceIsStored ==
    \A c \in {0, 1} : []<>(chosen = c => stored.choice = c \/ lost)

\* Tokens of one control plane are not kept under the settings of the other, even when
\* the popup is closed in the middle of a switch.
TokensFitPlane ==
    []<>(tokens.who # None => tokens.plane = stored.channel)

\* The map shows the devices of the account that is signed in, or nothing.
MapIsMine == shownMap # None /\ account # None => shownMap = account
=============================================================================
