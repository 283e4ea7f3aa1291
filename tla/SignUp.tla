------------------------------- MODULE SignUp -------------------------------
(***************************************************************************)
(* Sign-up in three steps (address and password, mailed code, Telegram     *)
(* contact), the bot that takes the last one and confirms sign-ins, the    *)
(* re-binding of Telegram, and the page that waits for the bot.            *)
(*                                                                         *)
(* A start of a sign-up has a number, which stands for the password it     *)
(* chose and for the Telegram token of its row.                            *)
(***************************************************************************)
EXTENDS Happenings

CONSTANTS
    Addresses,   \* e-mail addresses
    Chats,       \* Telegram users, each with a phone
    MaxStarts,   \* bound of the model: tokens minted
    MaxPolls,    \* how often the page asks
    LoginChats   \* those of the chats that are asked to allow a sign-in

\* None is no start of a sign-up.
ASSUME NumberAssumption == None \notin Nat

VARIABLES
    registers,   \* registrationEnabled
    starts,      \* tokens minted so far
    pending,     \* pending[e]: PendingRegistration
    mailed,      \* mailed[e]: the newest code of an address
    confirming,  \* POST /verify-email between the burnt code and the row
    member,     \* member[e]: the user with that address
    identity,    \* identity[c]: the IdentityLink TELEGRAM of c
    rebinds,     \* unconsumed TELEGRAM_LINK tokens
    chatToken,   \* chatTokens of the bot
    chatLogin,   \* chatLogins of the bot
    prompted,    \* prompted[c]: the sign-in that c was last shown
    allowed,     \* what c allowed, and what it had been shown
    page         \* the page that started the sign-up

signUpVars == <<registers, starts, pending, mailed, confirming, member, identity, rebinds,
                chatToken, chatLogin, prompted, allowed, page>>
rowVars == <<registers, starts, pending, mailed, confirming, member, identity, rebinds>>
botVars == <<chatToken, chatLogin, prompted, allowed>>

NoCode == [for |-> None, alive |-> FALSE]
ByGoogle == 0 \* no start has this number
NoPage == [at |-> "form", of |-> None, polls |-> 0]

SignUpInit ==
    /\ registers = TRUE /\ starts = 0
    /\ pending = [e \in Addresses |-> None]
    /\ mailed = [e \in Addresses |-> NoCode]
    /\ confirming = None
    /\ member = [e \in Addresses |-> None]
    /\ identity = [c \in Chats |-> None]
    /\ rebinds = {}
    /\ chatToken = [c \in Chats |-> None]
    /\ chatLogin = [c \in Chats |-> None]
    /\ prompted = [c \in Chats |-> None]
    /\ allowed = [c \in Chats |-> None]
    /\ page = NoPage

Free(e) == member[e] = None
NextToken == starts + 1

-----------------------------------------------------------------------------
\* Fault: an address once confirmed stays so.
VerifiedKept(e) == IF pending[e] = None THEN None ELSE pending[e].verified
\* startRegistration makes the row anew: an address confirmed for another password is
\* not confirmed for this one.
Unverified(e) == None

\* The mail may not get out; a second request may come while a confirmation runs.
Start(e) ==
    /\ registers /\ Free(e) /\ starts < MaxStarts
    /\ \/ confirming = None /\ Quiet
       \/ confirming # None /\ Happens("overlap")
    /\ starts' = NextToken
    /\ pending' = [pending EXCEPT ![e] = [pass |-> NextToken, token |-> NextToken, verified |-> Unverified(e)]]
    /\ mailed' = [mailed EXCEPT ![e] = [for |-> NextToken, alive |-> TRUE]]
    /\ page' = [at |-> "code", of |-> e, polls |-> 0]
    /\ UNCHANGED <<registers, confirming, member, identity, rebinds, botVars>>

\* A new code; the earlier one is dead.
Resend(e) ==
    /\ registers /\ pending[e] # None /\ pending[e].verified = None
    /\ mailed' = [mailed EXCEPT ![e] = [for |-> pending[e].pass, alive |-> TRUE]]
    /\ UNCHANGED <<registers, starts, pending, confirming, member, identity, rebinds, botVars, page>> /\ Quiet

\* startGoogleRegistration: Google vouches for the address. A row that is there keeps
\* its password and its token.
StartGoogle(e) ==
    /\ registers /\ Free(e) /\ confirming = None /\ page.at # "telegram"
    /\ IF pending[e] = None
       THEN /\ starts < MaxStarts /\ starts' = NextToken
            /\ pending' = [pending EXCEPT ![e] = [pass |-> NextToken, token |-> NextToken, verified |-> ByGoogle]]
       ELSE /\ pending' = [pending EXCEPT ![e].verified = ByGoogle] /\ UNCHANGED starts
    /\ page' = [at |-> "telegram", of |-> e, polls |-> 0]
    /\ UNCHANGED <<registers, mailed, confirming, member, identity, rebinds, botVars>> /\ Quiet

\* confirmRegistrationEmail: the newest code is burnt, then the row is marked.
BurnCode(e) ==
    /\ registers /\ confirming = None
    /\ pending[e] # None /\ pending[e].verified = None
    /\ mailed[e].alive
    /\ mailed' = [mailed EXCEPT ![e].alive = FALSE]
    /\ confirming' = [of |-> e, for |-> mailed[e].for]
    /\ UNCHANGED <<registers, starts, pending, member, identity, rebinds, botVars, page>> /\ Quiet

\* A row that is gone by now is an error, and changes nothing.
MarkVerified ==
    /\ confirming # None
    /\ LET e == confirming.of IN
       /\ pending' = IF pending[e] = None THEN pending ELSE [pending EXCEPT ![e].verified = confirming.for]
       /\ page' = IF page.of = e THEN [at |-> "telegram", of |-> e, polls |-> 0] ELSE page
    /\ confirming' = None
    /\ UNCHANGED <<registers, starts, mailed, member, identity, rebinds, botVars>> /\ Quiet

\* Too many wrong guesses, or five minutes: the code is dead.
CodeDies(e) ==
    /\ mailed[e].alive
    /\ mailed' = [mailed EXCEPT ![e].alive = FALSE]
    /\ UNCHANGED <<registers, starts, pending, confirming, member, identity, rebinds, botVars, page>> /\ Quiet

\* loadPending, the sweep: half an hour is over.
Lapses(e) ==
    /\ pending[e] # None
    /\ pending' = [pending EXCEPT ![e] = None]
    /\ UNCHANGED <<registers, starts, mailed, confirming, member, identity, rebinds, botVars, page>> /\ Quiet

SwitchesSignUp ==
    /\ Happens("sign_up_switch")
    /\ registers' = ~registers
    /\ UNCHANGED <<starts, pending, mailed, confirming, member, identity, rebinds, botVars, page>>

-----------------------------------------------------------------------------
\* POST /api/auth/telegram/link: another token for the account; earlier ones stay.
AskRebind(e) ==
    /\ ~Free(e) /\ starts < MaxStarts /\ Happens("rebind")
    /\ starts' = NextToken
    /\ rebinds' = rebinds \cup {[token |-> NextToken, of |-> e]}
    /\ UNCHANGED <<registers, pending, mailed, confirming, member, identity, botVars, page>>

TokensOut == {r.token : r \in rebinds} \cup {pending[e].token : e \in {x \in Addresses : pending[x] # None}}

\* handleStart: whoever opens the link is asked for the contact.
OpensLink(c, k) ==
    /\ k \in TokensOut
    /\ chatToken' = [chatToken EXCEPT ![c] = k]
    /\ UNCHANGED <<rowVars, chatLogin, prompted, allowed, page>> /\ Quiet

\* Ten minutes, /cancel, or a restart of the bot.
ChatForgets(c) ==
    /\ chatToken[c] # None \/ chatLogin[c] # None
    /\ chatToken' = [chatToken EXCEPT ![c] = None]
    /\ chatLogin' = [chatLogin EXCEPT ![c] = None]
    /\ UNCHANGED <<rowVars, prompted, allowed, page>> /\ Quiet

Elsewhere(c, e) == \E x \in Addresses \ {e} : member[x] # None /\ member[x].telegram = c

\* Fault: the link is written at the sign-up only.
LinkLeft(c, e) == identity
\* The link of c goes to e, whoever had it.
LinkMoved(c, e) == [identity EXCEPT ![c] = e]

\* attachTelegram for an account: the user first, then the token, then the link.
Rebinds(c) ==
    \E r \in rebinds :
       /\ chatToken[c] = r.token
       /\ ~Free(r.of) /\ ~Elsewhere(c, r.of)
       /\ member' = [member EXCEPT ![r.of].telegram = c]
       /\ rebinds' = rebinds \ {r}
       /\ identity' = LinkMoved(c, r.of)
       /\ chatToken' = [chatToken EXCEPT ![c] = None]
       /\ UNCHANGED <<registers, starts, pending, mailed, confirming, chatLogin, prompted, allowed, page>> /\ Quiet

\* The same for a sign-up: one account for a phone and an address, and one link for a
\* Telegram user: a link that an account moved away from is in the way, and the insert
\* fails. A process that stops after the account leaves the row.
Finishes(c) ==
    \E e \in Addresses :
       /\ pending[e] # None /\ chatToken[c] = pending[e].token
       /\ pending[e].verified # None
       /\ registers /\ Free(e) /\ ~Elsewhere(c, e) /\ identity[c] = None
       /\ member' = [member EXCEPT ![e] = [pass |-> pending[e].pass, telegram |-> c, verified |-> pending[e].verified]]
       /\ identity' = [identity EXCEPT ![c] = e]
       /\ \/ pending' = [pending EXCEPT ![e] = None] /\ Quiet
          \/ Happens("server_crash") /\ UNCHANGED pending
       /\ chatToken' = [chatToken EXCEPT ![c] = None]
       /\ UNCHANGED <<registers, starts, mailed, confirming, rebinds, chatLogin, prompted, allowed, page>>

\* finishDeletion and deleteUser: the address and the Telegram user are free again.
ClosesAccount(e) ==
    /\ ~Free(e) /\ Happens("close_account")
    /\ member' = [member EXCEPT ![e] = None]
    /\ identity' = [c \in Chats |-> IF identity[c] = e THEN None ELSE identity[c]]
    /\ rebinds' = {r \in rebinds : r.of # e}
    /\ UNCHANGED <<registers, starts, pending, mailed, confirming, botVars, page>>

-----------------------------------------------------------------------------
\* Sign-ins waiting for a decision are told apart by number.
SignIns == 1 .. 2

\* Fault: the first sign-in that a chat was asked about stays.
FirstAsked(c, l) == IF chatLogin[c] = None THEN l ELSE chatLogin[c]
\* rememberLogin: the decision will be about the newest one.
LastAsked(c, l) == l

\* handleLoginStart: the code is remembered, then the prompt is sent.
OpensLogin(c, l) ==
    /\ c \in LoginChats
    /\ chatLogin' = [chatLogin EXCEPT ![c] = LastAsked(c, l)]
    /\ \/ Happens("login") /\ prompted' = [prompted EXCEPT ![c] = l]
       \/ Happens("prompt_lost") /\ UNCHANGED prompted
    /\ UNCHANGED <<rowVars, chatToken, allowed, page>>

\* handleLoginDecision: allowed, or denied, once.
Decides(c, allow) ==
    /\ chatLogin[c] # None
    /\ allowed' = IF allow THEN [allowed EXCEPT ![c] = [what |-> chatLogin[c], shown |-> prompted[c]]] ELSE allowed
    /\ chatLogin' = [chatLogin EXCEPT ![c] = None]
    /\ UNCHANGED <<rowVars, chatToken, prompted, page>> /\ Quiet

-----------------------------------------------------------------------------
\* Fault: a request that fails is the last one.
OnlyAnswers(ok) == ok
\* pollStatus asks again after an answer and after a failure.
AsksAgain(ok) == TRUE

Polls ==
    /\ page.at = "telegram" /\ page.polls <= MaxPolls
    /\ \/ /\ Quiet
          /\ page' = IF ~Free(page.of) THEN [page EXCEPT !.at = "done"]
                     ELSE [page EXCEPT !.polls = @ + 1]
       \/ /\ Happens("reply_lost")
          /\ page' = IF AsksAgain(FALSE) THEN [page EXCEPT !.polls = @ + 1] ELSE [page EXCEPT !.at = "hanging"]
    /\ UNCHANGED <<rowVars, botVars>>

GivesUp ==
    /\ page.at = "telegram" /\ page.polls > MaxPolls
    /\ page' = [page EXCEPT !.at = "stopped"]
    /\ UNCHANGED <<rowVars, botVars>> /\ Quiet

SignUpNext ==
    \/ \E e \in Addresses :
          \/ Start(e) \/ Resend(e) \/ StartGoogle(e) \/ BurnCode(e) \/ CodeDies(e)
          \/ Lapses(e) \/ AskRebind(e) \/ ClosesAccount(e)
    \/ MarkVerified \/ SwitchesSignUp \/ Polls \/ GivesUp
    \/ \E c \in Chats :
          \/ ChatForgets(c) \/ Rebinds(c) \/ Finishes(c)
          \/ \E k \in 1 .. MaxStarts : OpensLink(c, k)
          \/ \E l \in SignIns : OpensLogin(c, l)
          \/ \E allow \in BOOLEAN : Decides(c, allow)

\* A request that runs ends, and the page's timer fires.
SignUpFairness ==
    /\ WF_signUpVars(Runs("signup") /\ MarkVerified)
    /\ WF_signUpVars(Runs("signup") /\ Polls) /\ WF_signUpVars(Runs("signup") /\ GivesUp)

-----------------------------------------------------------------------------
\* An address that a mailed code confirmed was confirmed for the password of its row: no
\* restart of the sign-up, with whatever password, lives on an earlier confirmation.
VerifiedByItsCode ==
    \A e \in Addresses : \A r \in {pending[e], member[e]} \ {None} :
        r.verified \in {None, ByGoogle, r.pass}

\* The Telegram user of an account has a link to that account and to no other, after any
\* re-binding, closing and signing up again.
LinkFollowsUser ==
    \A e \in Addresses : member[e] # None => identity[member[e].telegram] = e

\* What a chat allows is what it was shown last.
AllowsWhatItSaw ==
    \A c \in Chats : allowed[c] # None => allowed[c].what = allowed[c].shown

\* A page that waits for the bot learns that the account is there, or says that it has
\* stopped asking: a lost answer does not leave it waiting for ever.
PageLearns == (page.at = "telegram") ~> (page.at \in {"done", "stopped", "code", "form"})

\* Sign-up: what was confirmed was confirmed for this password, the Telegram link
\* follows its account, and a chat allows what it was shown.
SignUpSafe == VerifiedByItsCode /\ LinkFollowsUser /\ AllowsWhatItSaw
=============================================================================
