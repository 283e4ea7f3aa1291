------------------------------- MODULE LinkAuth -------------------------------
(***************************************************************************)
(* Signing in by link: a client starts a request and polls it, somebody    *)
(* signed in elsewhere (the site, the Telegram bot) approves or denies it, *)
(* and the poll that collects the approval gets the tokens.                *)
(*                                                                         *)
(* The background worker of the extension may have several polls in flight *)
(* and picks up a reply whenever it comes; the login page has one, and     *)
(* drops its reply once the countdown has ended or the user has cancelled. *)
(***************************************************************************)
EXTENDS Happenings

CONSTANTS
    Links,      \* sign-in requests, each of a client of its own
    Users,      \* accounts that may approve
    Jobs        \* HTTP requests in service at once

VARIABLES
    link,       \* link[l]: the row of link_requests
    waiter,     \* waiter[l]: the client that started it
    workers,    \* the requests started by the extension; the others by the login page
    job,        \* job[j]: a request between its reading and its writing
    barred      \* the accounts that were disabled

linkVars == <<link, waiter, workers, job, barred>>

TTL == 1    \* ticks of five minutes

\* told: what approvers were answered (an account, or "denied").  minted: the accounts
\* tokens were issued for, in order.  hit: a fault came between approval and sign-in.
NoLink == [status |-> "none", user |-> None, age |-> 0, told |-> {}, minted |-> <<>>, hit |-> FALSE]
NoJob == [pc |-> "idle", link |-> None, user |-> None]

LinkInit ==
    /\ link = [l \in Links |-> NoLink]
    /\ waiter = [l \in Links |-> "idle"]
    /\ job = [j \in Jobs |-> NoJob]
    /\ barred = {}
    /\ workers \in SUBSET Links

Late(l) == link[l].age >= TTL
Open(l) == link[l].status = "PENDING" /\ ~Late(l)
InService(l) == {j \in Jobs : job[j].pc # "idle" /\ job[j].link = l}
PollsOf(l) == {j \in InService(l) : job[j].pc \in {"poll", "flip", "mint", "tokens", "refused"}}

To(j, pc) == job' = [job EXCEPT ![j].pc = pc]
Begin(j, l, u, pc) ==
    /\ job[j].pc = "idle"
    /\ job' = [job EXCEPT ![j] = [pc |-> pc, link |-> l, user |-> u]]
Done(j) == job' = [job EXCEPT ![j] = NoJob]

\* Every step of a request in service has its link at hand.
At(j, pc) == job[j].pc = pc
Row(j) == link[job[j].link]

-----------------------------------------------------------------------------
\* startLink.
StartLink(l) ==
    /\ link[l].status = "none"
    /\ link' = [link EXCEPT ![l].status = "PENDING"]
    /\ waiter' = [waiter EXCEPT ![l] = "waiting"]
    /\ UNCHANGED <<job, barred, workers>> /\ Quiet

\* describeLink, approveLink and pollLink read the row; one that finds it late
\* will mark it, whatever it has become by then.
ReadLate(j, l) ==
    /\ link[l].status = "PENDING" /\ Late(l)
    /\ Begin(j, l, None, "settle")
    /\ UNCHANGED <<link, waiter, barred, workers>> /\ Quiet

Ended(r) == [r EXCEPT !.status = "EXPIRED", !.hit = r.hit \/ r.told # {}]

SettleExpiry(j) ==
    /\ At(j, "settle")
    /\ link' = IF Row(j).status = "purged" THEN link
               ELSE [link EXCEPT ![job[j].link] = Ended(Row(j))]
    /\ Done(j)
    /\ UNCHANGED <<waiter, barred, workers>> /\ Quiet

\* The site and the bot ask for an account that is active.
AskApproval(j, l, u) ==
    /\ Open(l)
    /\ u \notin barred
    /\ Begin(j, l, u, "approve")
    /\ UNCHANGED <<link, waiter, barred, workers>> /\ Quiet

AskDenial(j, l) ==
    /\ Open(l)
    /\ Begin(j, l, None, "deny")
    /\ UNCHANGED <<link, waiter, barred, workers>> /\ Quiet

\* Fault: the answer of the update is not looked at.
Unclaimed(j) == Row(j).status # "purged"
\* The conditional update matched: the row is still pending.
Claimed(j) == Row(j).status = "PENDING"

ApprovedBy(r, u) ==
    [r EXCEPT !.status = "APPROVED", !.user = u, !.told = r.told \cup {u}, !.hit = r.hit \/ u \in barred]
Refusal(r) == [r EXCEPT !.status = "DENIED", !.told = r.told \cup {"denied"}]

Approve(j) ==
    /\ At(j, "approve")
    /\ link' = IF Claimed(j)
               THEN [link EXCEPT ![job[j].link] = ApprovedBy(Row(j), job[j].user)]
               ELSE link
    /\ Done(j)
    /\ UNCHANGED <<waiter, barred, workers>> /\ Quiet

Deny(j) ==
    /\ At(j, "deny")
    /\ link' = IF Claimed(j)
               THEN [link EXCEPT ![job[j].link] = Refusal(Row(j))]
               ELSE link
    /\ Done(j)
    /\ UNCHANGED <<waiter, barred, workers>> /\ Quiet

-----------------------------------------------------------------------------
\* A worker may poll while it polls; a page waits for its reply.
Poll(j, l) ==
    /\ waiter[l] = "waiting"
    /\ ~Late(l)
    /\ l \notin workers => PollsOf(l) = {}
    /\ Begin(j, l, None, "poll")
    /\ UNCHANGED <<link, waiter, barred, workers>> /\ Quiet

\* pollLink reads the row.  A pending one makes the client wait on.
ReadPoll(j) ==
    /\ At(j, "poll")
    /\ \/ /\ Row(j).status = "PENDING" /\ ~Late(job[j].link)
          /\ Done(j)
       \/ /\ Row(j).status = "APPROVED"
          /\ To(j, "flip")
       \/ /\ Row(j).status \in {"DENIED", "EXPIRED", "USED", "purged"}
          /\ To(j, "refused")
       \/ /\ Row(j).status = "PENDING" /\ Late(job[j].link)
          /\ To(j, "settle")
    /\ UNCHANGED <<link, waiter, barred, workers>> /\ Quiet

\* Fault: any poll that saw the approval collects it.
SawApproval(j) == Row(j).status # "purged"
\* APPROVED becomes USED once.
WinsFlip(j) == Row(j).status = "APPROVED"

Flip(j) ==
    /\ At(j, "flip")
    /\ IF WinsFlip(j)
       THEN /\ link' = [link EXCEPT ![job[j].link].status = "USED"]
            /\ job' = [job EXCEPT ![j] = [pc |-> "mint", link |-> job[j].link, user |-> Row(j).user]]
       ELSE UNCHANGED link /\ To(j, "refused")
    /\ UNCHANGED <<waiter, barred, workers>> /\ Quiet

\* Fault: the account is taken as it was when it approved.
OnceActive(u) == TRUE
StillActive(u) == u \notin barred

IssuedTo(r, u) == [r EXCEPT !.minted = Append(r.minted, [user |-> u, barred |-> u \in barred])]

Mint(j) ==
    /\ At(j, "mint")
    /\ IF StillActive(job[j].user)
       THEN /\ link' = [link EXCEPT ![job[j].link] = IssuedTo(Row(j), job[j].user)]
            /\ To(j, "tokens")
       ELSE UNCHANGED link /\ To(j, "refused")
    /\ UNCHANGED <<waiter, barred, workers>> /\ Quiet

\* Fault: a refused poll ends the wait for the reply of another.
OnlyWhileWaiting(l) == waiter[l] = "waiting"
\* The worker stores tokens whenever they come, the page while it still waits.
TakesTokens(l) == l \in workers \/ waiter[l] = "waiting"

Collect(j) ==
    /\ At(j, "tokens")
    /\ waiter' = IF TakesTokens(job[j].link) THEN [waiter EXCEPT ![job[j].link] = "signed_in"] ELSE waiter
    /\ Done(j)
    /\ UNCHANGED <<link, barred, workers>> /\ Quiet

\* The client gives the request up; one that has signed in stays so.
Refused(j) ==
    /\ At(j, "refused")
    /\ waiter' = [waiter EXCEPT ![job[j].link] = IF @ = "waiting" THEN "stopped" ELSE @]
    /\ Done(j)
    /\ UNCHANGED <<link, barred, workers>> /\ Quiet

\* The deadline ends the wait of a client: of the page even while a poll is in flight.
WaitEnds(l) ==
    /\ waiter[l] = "waiting"
    /\ Late(l)
    /\ l \in workers => PollsOf(l) = {}
    /\ waiter' = [waiter EXCEPT ![l] = "stopped"]
    /\ link' = [link EXCEPT ![l].hit = link[l].hit \/ link[l].told # {}]
    /\ UNCHANGED <<job, barred, workers>> /\ Quiet

-----------------------------------------------------------------------------
CancelWait(l) ==
    /\ Happens("cancel")
    /\ l \notin workers
    /\ waiter[l] = "waiting"
    /\ waiter' = [waiter EXCEPT ![l] = "stopped"]
    /\ link' = [link EXCEPT ![l].hit = TRUE]
    /\ UNCHANGED <<job, barred, workers>>

\* The reply is lost, or the worker is suspended with its poll; or the server stops
\* before it has answered.
PollLost(j) ==
    /\ Happens("reply_lost")
    /\ job[j].pc \in {"mint", "tokens", "refused"}
    /\ link' = [link EXCEPT ![job[j].link].hit = TRUE]
    /\ Done(j)
    /\ UNCHANGED <<waiter, barred, workers>>

Bar(u) ==
    /\ Happens("disable")
    /\ barred' = barred \cup {u}
    /\ link' = [l \in Links |-> IF u \in link[l].told THEN [link[l] EXCEPT !.hit = TRUE] ELSE link[l]]
    /\ UNCHANGED <<waiter, job, workers>>

Older == [l \in Links |-> IF link[l].status \notin {"none", "purged"} /\ link[l].age < 3 * TTL
                          THEN [link[l] EXCEPT !.age = @ + 1] ELSE link[l]]

\* Five minutes pass.  Requests take less, and a client polls every two seconds.
LinksAge ==
    /\ Older # link
    /\ \A j \in Jobs : job[j].pc = "idle"
    /\ \A l \in Links : waiter[l] = "waiting" => link[l].status = "PENDING" /\ ~Late(l)
    /\ link' = Older
    /\ UNCHANGED <<waiter, job, barred, workers>> /\ Quiet

\* The deadline falls into the middle of something.
DeadlineBetween ==
    /\ Happens("deadline")
    /\ Older # link
    /\ link' = [l \in Links |-> [Older[l] EXCEPT !.hit = link[l].hit \/ link[l].told # {} \/ InService(l) # {}]]
    /\ UNCHANGED <<waiter, job, barred, workers>>

\* purgeLinkRequests: a finished request goes after one more TTL, an open one after two.
PurgeLinks ==
    /\ \A j \in Jobs : job[j].pc = "idle"
    /\ link' = [l \in Links |->
                  IF \/ link[l].status \in {"USED", "DENIED", "EXPIRED"} /\ link[l].age >= 2 * TTL
                     \/ link[l].status \in {"PENDING", "APPROVED"} /\ link[l].age >= 3 * TTL
                  THEN [link[l] EXCEPT !.status = "purged"] ELSE link[l]]
    /\ link' # link
    /\ UNCHANGED <<waiter, job, barred, workers>> /\ Quiet

ServeLink(j) ==
    \/ SettleExpiry(j) \/ Approve(j) \/ Deny(j) \/ ReadPoll(j)
    \/ Flip(j) \/ Mint(j) \/ Collect(j) \/ Refused(j)

LinkNext ==
    \/ \E l \in Links : StartLink(l) \/ WaitEnds(l) \/ CancelWait(l)
    \/ \E j \in Jobs, l \in Links : ReadLate(j, l) \/ AskDenial(j, l) \/ Poll(j, l)
    \/ \E j \in Jobs, l \in Links, u \in Users : AskApproval(j, l, u)
    \/ \E j \in Jobs : ServeLink(j) \/ PollLost(j)
    \/ \E u \in Users : Bar(u)
    \/ LinksAge \/ DeadlineBetween \/ PurgeLinks

\* Requests are served, and a waiting client polls on and notices its deadline.
LinkFairness ==
    /\ \A j \in Jobs : WF_linkVars(Runs("links") /\ ServeLink(j))
    /\ \A l \in Links : SF_linkVars(Runs("links") /\ \E j \in Jobs : Poll(j, l)) /\ WF_linkVars(Runs("links") /\ WaitEnds(l))

-----------------------------------------------------------------------------
\* Of all the people who answered a request one is told that it worked, and tokens are
\* issued at most once, for the account that was told so: none after a denial.
OneVerdict ==
    \A l \in Links :
        /\ Cardinality(link[l].told) <= 1
        /\ Len(link[l].minted) <= 1
        /\ \A i \in 1 .. Len(link[l].minted) : link[l].told = {link[l].minted[i].user}

\* No tokens are issued for an account that was disabled since it approved.
MintedForActive == \A l \in Links : \A i \in 1 .. Len(link[l].minted) : ~link[l].minted[i].barred

\* An approval that was confirmed signs the client in, whichever of its polls collects
\* it, unless a fault came between: a lost reply, a disabled account, the deadline.
ApprovalSignsIn ==
    \A l \in Links : link[l].told \cap Users # {} ~> waiter[l] = "signed_in" \/ link[l].hit

\* Sign-in links: one verdict for a request, tokens for an account that is active.
LinksSafe == OneVerdict /\ MintedForActive
=============================================================================
