---------------------------- MODULE TelegramDesk ----------------------------
(***************************************************************************)
(* The bot's account desk (telegramBot, telegramAccount) and its daily     *)
(* digest to the administrators (telegramAdmin).  Updates wait at Telegram *)
(* until a getUpdates confirms them by its offset, which lives in the bot's*)
(* memory; buttons of cards that were not redrawn stay in the chat.        *)
(***************************************************************************)
EXTENDS Happenings, SequencesExt

CONSTANTS
    Chats,      \* people who write to the bot
    Accounts,
    Gear,       \* devices
    HolderOf,   \* the account of each device
    MaxTaps,    \* bound of the model: buttons tapped in all
    Processes,  \* control servers whose monitors run: two while a deploy overlaps
    MaxDays     \* bound of the model: local days

\* A day is a number, and none of them is nothing.
ASSUME DeskAssumption == MaxDays \in Nat \ {0} /\ None \notin Nat

VARIABLES
    sent,       \* the taps, in the order Telegram numbers them
    confirmed,  \* updates up to this one are gone from Telegram
    offset,     \* in the bot's memory: the next update it asks for
    batch,      \* updates it holds and has not begun
    begun,      \* updates it has begun since it started
    serving,    \* the tap in hand and the account read for it
    served,     \* the taps that were answered, or whose handler failed
    buttons,    \* what each chat can tap besides the menu
    linked,     \* the account each chat is linked to
    present,    \* devices that are ACTIVE
    tunnels,    \* devices with a live session
    order,      \* each account's order
    settled,    \* accounts whose payment the gateway has
    day, noted, \* the calendar; refused sign-ups noted in all
    counter, lastDigestDay, \* the row of TelegramAdminState
    tick,       \* each monitor's progress: what it read
    digests, told  \* digests sent each day; refused sign-ups they told of

deskVars == <<sent, confirmed, offset, batch, begun, serving, served, buttons, linked, present, tunnels, order, settled>>
digestVars == <<day, noted, counter, lastDigestDay, tick, digests, told>>

Button(do, on) == [do |-> do, on |-> on]
\* The sections, asked for by a command or by a button of any card.
Menu == {Button("devices", None), Button("vpn", None), Button("buy", None)}
Idle == [step |-> "idle", day |-> None, counter |-> 0]

DeskInit ==
    /\ sent = <<>> /\ confirmed = 0 /\ offset = 0 /\ batch = <<>> /\ begun = {} /\ serving = None
    /\ served = {}
    /\ buttons = [c \in Chats |-> {}]
    /\ linked \in [Chats -> Accounts]
    /\ \A c1, c2 \in Chats : linked[c1] = linked[c2] => c1 = c2
    /\ present = Gear /\ tunnels = Gear
    /\ order = [a \in Accounts |-> "none"] /\ settled = {}

DigestInit ==
    /\ day = 1 /\ noted = 0 /\ counter = 0 /\ lastDigestDay = None
    /\ tick = [p \in Processes |-> Idle]
    /\ digests = [d \in 1..MaxDays |-> 0] /\ told = 0

----------------------------------------------------------------------------
(* What a card offers, from the rows of the account.                       *)

DevicesOf(a, gear) == {d \in gear : HolderOf[d] = a}
DevicesCard(a, gear) == {Button("ask", d) : d \in DevicesOf(a, gear)}
ConfirmCard(a, d, gear) ==
    IF HolderOf[d] = a THEN {Button("rm", d)} ELSE DevicesCard(a, gear)
VpnCard(a, live) == {Button("stop", None) : d \in DevicesOf(a, live)}
PlansCard(a, orders) ==
    {Button("order", None)} \cup IF orders[a] = "pending" THEN {Button("pay", None)} ELSE {}

Card(a, tap, gear, live, orders) ==
    CASE tap.do = "ask" -> ConfirmCard(a, tap.on, gear)
      [] tap.do \in {"devices", "rm"} -> DevicesCard(a, gear)
      [] tap.do \in {"vpn", "stop"} -> VpnCard(a, live)
      [] OTHER -> PlansCard(a, orders)

SendsCard(c, card) == buttons' = [buttons EXCEPT ![c] = @ \cup card]

\* The card is edited in place, or sent anew under the old one when the edit fails.
Draws(c, card) ==
    \/ buttons' = [buttons EXCEPT ![c] = card] /\ Quiet
    \/ SendsCard(c, card) /\ Happens("edit_fails")

----------------------------------------------------------------------------
(* The polling loop.                                                       *)

Asks(c, b) ==
    /\ Len(sent) < MaxTaps
    /\ b \in buttons[c] \cup Menu
    /\ sent' = Append(sent, [chat |-> c, tap |-> b])
    /\ Quiet
    /\ UNCHANGED <<confirmed, offset, batch, begun, serving, served, buttons, linked, present, tunnels, order, settled>>

Polls ==
    /\ serving = None /\ batch = <<>>
    /\ LET gone == IF offset = 0 THEN confirmed ELSE offset - 1
       IN /\ gone < Len(sent)
          /\ confirmed' = gone
          /\ \/ batch' = [i \in 1..(Len(sent) - gone) |-> gone + i] /\ Quiet
             \/ batch' = <<>> /\ Happens("updates_lost")
    /\ UNCHANGED <<sent, offset, begun, serving, served, buttons, linked, present, tunnels, order, settled>>

\* The offset moves before the handler runs.
AfterSuccess(id) == offset
Advanced(id) == id + 1

Begins ==
    /\ serving = None /\ batch # <<>>
    /\ LET id == Head(batch) IN
       /\ offset' = Advanced(id) /\ begun' = begun \cup {id}
       /\ IF linked[sent[id].chat] = None
          THEN served' = served \cup {id} /\ serving' = None
          ELSE serving' = [id |-> id, account |-> linked[sent[id].chat]] /\ UNCHANGED served
    /\ batch' = Tail(batch)
    /\ Quiet
    /\ UNCHANGED <<sent, confirmed, buttons, linked, present, tunnels, order, settled>>

\* revokeDeviceAccess looks the device up among the account's own.
RevocableAny(a, d) == TRUE
Revocable(a, d) == HolderOf[d] = a

Effect(a, tap) ==
    /\ present' = IF tap.do = "rm" /\ Revocable(a, tap.on) THEN present \ {tap.on} ELSE present
    /\ tunnels' =
        CASE tap.do = "rm" /\ Revocable(a, tap.on) -> tunnels \ {tap.on}
          [] tap.do = "stop" -> tunnels \ DevicesOf(a, Gear)
          [] OTHER -> tunnels
    /\ order' =
        CASE tap.do = "order" /\ order[a] # "pending" -> [order EXCEPT ![a] = "pending"]
          [] tap.do = "pay" /\ order[a] = "pending" /\ a \in settled -> [order EXCEPT ![a] = "paid"]
          [] OTHER -> order

\* A refused removal and an order still unpaid answer with a toast alone.
Redraws(a, tap) ==
    /\ tap.do = "rm" => Revocable(a, tap.on)
    /\ tap.do = "pay" => order'[a] # "pending"

Handles ==
    /\ serving # None
    /\ Effect(serving.account, sent[serving.id].tap)
    /\ LET c == sent[serving.id].chat
           tap == sent[serving.id].tap
           who == serving.account
           card == Card(who, tap, present', tunnels', order')
       IN CASE tap \in Menu -> SendsCard(c, card) /\ Quiet
            [] Redraws(who, tap) -> Draws(c, card)
            [] OTHER -> UNCHANGED buttons /\ Quiet
    /\ served' = served \cup {serving.id} /\ serving' = None
    /\ UNCHANGED <<sent, confirmed, offset, batch, begun, linked, settled>>

\* A handler that throws leaves the loop where it is.
LeavesTheLoop(updates) == [left |-> <<>>, next |-> Len(sent) + 1]
AfterError(updates) == [left |-> updates, next |-> offset]

HandlerFails ==
    /\ serving # None /\ Happens("handler_fails")
    /\ served' = served \cup {serving.id} /\ serving' = None
    /\ batch' = AfterError(batch).left /\ offset' = AfterError(batch).next
    /\ UNCHANGED <<sent, confirmed, begun, buttons, linked, present, tunnels, order, settled>>

BotRestarts ==
    /\ Happens("bot_restarts")
    /\ offset' = 0 /\ batch' = <<>> /\ begun' = {} /\ serving' = None
    /\ UNCHANGED <<sent, confirmed, served, buttons, linked, present, tunnels, order, settled>>

----------------------------------------------------------------------------
(* What happens around the chat.                                           *)

Relinks(c, a) ==
    /\ \A c2 \in Chats \ {c} : linked[c2] # a
    /\ linked[c] # a /\ Happens("relink")
    /\ linked' = [linked EXCEPT ![c] = a]
    /\ UNCHANGED <<sent, confirmed, offset, batch, begun, serving, served, buttons, present, tunnels, order, settled>>

DeviceReturns(d) ==
    /\ d \notin present /\ Happens("device_back")
    /\ present' = present \cup {d} /\ tunnels' = tunnels \cup {d}
    /\ UNCHANGED <<sent, confirmed, offset, batch, begun, serving, served, buttons, linked, order, settled>>

PaymentSettles(a) ==
    /\ order[a] = "pending" /\ a \notin settled
    /\ settled' = settled \cup {a}
    /\ Quiet
    /\ UNCHANGED <<sent, confirmed, offset, batch, begun, serving, served, buttons, linked, present, tunnels, order>>

DeskNext ==
    \/ \E c \in Chats, b \in UNION {buttons[k] \cup Menu : k \in Chats} : Asks(c, b)
    \/ Polls \/ Begins \/ Handles \/ HandlerFails \/ BotRestarts
    \/ \E c \in Chats, a \in Accounts \cup {None} : Relinks(c, a)
    \/ \E d \in Gear : DeviceReturns(d)
    \/ \E a \in Accounts : PaymentSettles(a)

----------------------------------------------------------------------------
(* The digest: a monitor's tick reads the row, claims the day, sends.      *)

NotesRefusal ==
    /\ Happens("refusal")
    /\ noted' = noted + 1 /\ counter' = counter + 1
    /\ UNCHANGED <<day, lastDigestDay, tick, digests, told>>

DigestDue(last) == last # day

\* loadState: a failed query reads as nothing counted and no digest sent.
LoadsState(p) ==
    /\ tick[p] = Idle
    /\ \/ /\ DigestDue(lastDigestDay) /\ Quiet
          /\ tick' = [tick EXCEPT ![p] = [step |-> "read", day |-> day, counter |-> counter]]
       \/ /\ Happens("state_unread")
          /\ tick' = [tick EXCEPT ![p] = [step |-> "read", day |-> day, counter |-> 0]]
    /\ UNCHANGED <<day, noted, counter, lastDigestDay, digests, told>>

DueWhenRead(d) == TRUE
Unclaimed(d) == lastDigestDay # d

\* The statement that claims the day zeroes the counters too.
NotZeroed(n) == n
Zeroed(n) == 0

ClaimsDay(p) ==
    /\ tick[p].step = "read"
    /\ IF Unclaimed(tick[p].day)
       THEN /\ lastDigestDay' = tick[p].day /\ counter' = Zeroed(counter)
            /\ tick' = [tick EXCEPT ![p].step = "claimed"]
       ELSE tick' = [tick EXCEPT ![p] = Idle] /\ UNCHANGED <<counter, lastDigestDay>>
    /\ Quiet
    /\ UNCHANGED <<day, noted, digests, told>>

SendsDigest(p) ==
    /\ tick[p].step = "claimed"
    /\ digests' = [digests EXCEPT ![tick[p].day] = @ + 1]
    /\ told' = told + tick[p].counter
    /\ tick' = [tick EXCEPT ![p] = Idle]
    /\ Quiet
    /\ UNCHANGED <<day, noted, counter, lastDigestDay>>

\* A tick takes less than a day.
NextDay ==
    /\ day < MaxDays /\ \A p \in Processes : tick[p] = Idle
    /\ day' = day + 1
    /\ Quiet
    /\ UNCHANGED <<noted, counter, lastDigestDay, tick, digests, told>>

DigestNext ==
    \/ NotesRefusal \/ NextDay
    \/ \E p \in Processes : LoadsState(p) \/ ClaimsDay(p) \/ SendsDigest(p)

DeskFairness ==
    /\ WF_<<deskVars, events>>(Runs("desk") /\ Polls)
    /\ WF_<<deskVars, events>>(Runs("desk") /\ Begins)
    /\ WF_<<deskVars, events>>(Runs("desk") /\ Handles)

----------------------------------------------------------------------------
\* A tap is answered or its handler failed: a handler that throws, a reply that
\* is lost and a restart take no other tap with them.
TapsServed == \A id \in 1..MaxTaps : []<>(Len(sent) >= id => id \in served)

\* An update whose handler throws is not asked for again: no update is begun
\* twice but after a restart.
BegunOnce == [][serving' \notin {None, serving} => serving'.id \notin begun]_deskVars

\* A button that stayed in a chat across a change of accounts removes nothing
\* of the former account.
OnlyOwnRemoved ==
    [][\A d \in present \ present' : serving # None /\ HolderOf[d] = serving.account]_deskVars

\* Two control servers whose ticks overlap send one digest a day.
DigestOnce == \A d \in 1..MaxDays : digests[d] <= 1

\* No refused sign-up is told of twice.
ToldOnce == told <= noted

\* The bot: each tap is begun once and served, removes only what is its chat's, and the
\* digest goes out once with what nobody was told of before.
DeskHolds == []DigestOnce /\ []ToldOnce /\ TapsServed /\ BegunOnce /\ OnlyOwnRemoved
=============================================================================
