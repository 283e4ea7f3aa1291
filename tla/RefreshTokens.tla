---------------------------- MODULE RefreshTokens ----------------------------
(***************************************************************************)
(* The refresh tokens of one account: sign-in, rotation with its grace     *)
(* window, the alarm on a token used again after it, revocation.           *)
(*                                                                         *)
(* A client is an app, whose tokens belong to a device row and carry that  *)
(* row's version, or a browser, whose tokens belong to no device.  The     *)
(* pages of a browser share one stored token and may refresh at once.      *)
(***************************************************************************)
EXTENDS Happenings

CONSTANTS
    Clients,    \* the clients that sign in to the account
    Apps,       \* those that register a device; the rest are browsers
    Tokens,     \* rows of the refresh_tokens table
    Requests,   \* refreshes that may be in progress at once
    Depth       \* how many successors a rotation looks at

ASSUME TokensAssumption == None \notin Tokens /\ None \notin Clients /\ Apps \subseteq Clients

VARIABLES
    token,      \* the refresh_tokens table
    device,     \* device[c]: the row of app c in the devices table
    held,       \* held[c]: the token in the storage of client c
    refresh     \* refresh[r]: how far refresh r has come

tokenVars == <<token, device, held, refresh>>

\* state: live while revokedAt is not set; rotated once it is, with replacedById;
\* revoked without it; deleted when the row went with its device.  age: half grace
\* windows since revokedAt.  lost: the reply that carried it did not arrive.
NoToken == [client |-> None, state |-> "free", next |-> None, age |-> 0, version |-> 0,
            login |-> 0, lost |-> FALSE]
NoRefresh == [pc |-> "idle", client |-> None, tok |-> None, new |-> None, version |-> 0]

TokensInit ==
    /\ token = [t \in Tokens |-> NoToken]
    /\ device = [c \in Clients |-> [status |-> "none", version |-> 0, login |-> 0]]
    /\ held = [c \in Clients |-> None]
    /\ refresh = [r \in Requests |-> NoRefresh]

FreeTokens == {t \in Tokens : token[t].state = "free"}
Busy == {r \in Requests : refresh[r].pc # "idle"}
BusyFor(c) == {r \in Busy : refresh[r].client = c}
\* The table has a row left for every refresh in progress and one more.
RoomForOne == Cardinality(FreeTokens) > Cardinality(Busy)

-----------------------------------------------------------------------------
\* issueTokens: the new row carries the version of the device as the caller read it.
Created(c, version, login) ==
    [NoToken EXCEPT !.client = c, !.state = "live", !.version = version, !.login = login]

\* Fault: a device that changes hands keeps the version it had.
SameVersion(c) == device[c].version
\* A row in use or revoked gets a new version; one that was deleted starts anew.
NextVersion(c) == IF device[c].status = "none" THEN 0 ELSE device[c].version + 1

\* A user signs in, and an app registers its device; this takes longer than a request.
SignIn(c) ==
    /\ held[c] = None
    /\ BusyFor(c) = {}
    /\ RoomForOne
    /\ device[c].login < 2
    /\ device' = [device EXCEPT ![c] =
                    [status |-> IF c \in Apps THEN "active" ELSE "none",
                     version |-> NextVersion(c), login |-> @.login + 1]]
    /\ \E t \in FreeTokens :
         /\ token' = [token EXCEPT ![t] = Created(c, NextVersion(c), device[c].login + 1)]
         /\ held' = [held EXCEPT ![c] = t]
    /\ UNCHANGED refresh /\ Quiet

-----------------------------------------------------------------------------
\* Along the tokens that replaced t, each rotated within its own grace window, a
\* live one is found.
LiveSuccessor(t) ==
    \E n \in 1 .. Depth : \E path \in [1 .. n -> Tokens] :
        /\ path[1] = token[t].next
        /\ token[path[n]].state = "live"
        /\ \A i \in 1 .. n : token[path[i]].client = token[t].client
        /\ \A i \in 1 .. n - 1 : /\ token[path[i]].state = "rotated"
                                 /\ token[path[i]].age < 2
                                 /\ path[i + 1] = token[path[i]].next

\* Fault: a rotated token is good for nothing.
NoGrace(t) == FALSE
InGrace(t) == token[t].age < 2

\* The device of a token accepts it.
Fenced(t) ==
    token[t].client \in Apps =>
        LET d == device[token[t].client]
        IN  d.status = "active" /\ d.version = token[t].version

Usable(t) ==
    /\ Fenced(t)
    /\ \/ token[t].state = "live"
       \/ token[t].state = "rotated" /\ InGrace(t) /\ LiveSuccessor(t)

Stolen(t) == Fenced(t) /\ token[t].state = "rotated" /\ ~InGrace(t)

\* An app has one refresh in flight; the pages of a browser do not know of each other.
AskRefresh(r, c) ==
    /\ refresh[r].pc = "idle"
    /\ held[c] # None
    /\ c \in Apps => BusyFor(c) = {}
    /\ Usable(held[c]) => RoomForOne
    /\ refresh' = [refresh EXCEPT ![r] =
                    [NoRefresh EXCEPT !.pc = "sent", !.client = c, !.tok = held[c]]]
    /\ UNCHANGED <<token, device, held>> /\ Quiet

\* rotateRefreshToken reads the token, its device and its successors, and decides.
Admit(r) ==
    /\ refresh[r].pc = "sent"
    /\ Usable(refresh[r].tok)
    /\ refresh' = [refresh EXCEPT ![r].pc = "issue",
                                  ![r].version = device[refresh[r].client].version]
    /\ UNCHANGED <<token, device, held>> /\ Quiet

\* Fault: a refused client keeps its token.
KeptAnyway(r) == held' = held
\* A refused app forgets its token, unless another is in its place by now; the page of a
\* browser forgets whatever is stored.
Forgets(r) ==
    held' = [c \in Clients |-> IF c = refresh[r].client /\ (c \notin Apps \/ held[c] = refresh[r].tok)
                                THEN None ELSE held[c]]

Refuse(r) ==
    /\ refresh[r].pc = "sent"
    /\ ~Usable(refresh[r].tok)
    /\ ~Stolen(refresh[r].tok)
    /\ Forgets(r)
    /\ refresh' = [refresh EXCEPT ![r] = NoRefresh]
    /\ UNCHANGED <<token, device>> /\ Quiet

Suspect(r) ==
    /\ refresh[r].pc = "sent"
    /\ Stolen(refresh[r].tok)
    /\ refresh' = [refresh EXCEPT ![r].pc = "alarm"]
    /\ UNCHANGED <<token, device, held>> /\ Quiet

\* The live tokens of clients C are revoked.
Revoked(C) ==
    [t \in Tokens |-> IF token[t].client \in C /\ token[t].state = "live"
                      THEN [token[t] EXCEPT !.state = "revoked"] ELSE token[t]]

\* Unless the instance says so, the account's tokens without a device are not revoked
\* while a rotation of one of them is in service.
Undisturbed(C) ==
    "overlap" \in Events
        \/ \A r \in Busy : refresh[r].client \in C \ Apps => refresh[r].pc \in {"sent", "alarm"}

Alarm(r) ==
    /\ refresh[r].pc = "alarm"
    /\ Undisturbed(Clients)
    /\ token' = Revoked(Clients)
    /\ Forgets(r)
    /\ refresh' = [refresh EXCEPT ![r] = NoRefresh]
    /\ UNCHANGED device /\ Quiet

RowsLeft(r) == token[refresh[r].tok].state # "deleted"

Issue(r) ==
    /\ refresh[r].pc = "issue"
    /\ RowsLeft(r)
    /\ \E t \in FreeTokens :
         /\ token' = [token EXCEPT ![t] = Created(refresh[r].client, refresh[r].version,
                                                  token[refresh[r].tok].login)]
         /\ refresh' = [refresh EXCEPT ![r].pc = "mark", ![r].new = t]
    /\ UNCHANGED <<device, held>> /\ Quiet

Rotated(row, n) == [row EXCEPT !.state = "rotated", !.next = n, !.age = 0]

Replace(r) ==
    /\ refresh[r].pc = "mark"
    /\ RowsLeft(r)
    /\ token' = [token EXCEPT ![refresh[r].tok] = Rotated(token[refresh[r].tok], refresh[r].new)]
    /\ refresh' = [refresh EXCEPT ![r].pc = "reply"]
    /\ UNCHANGED <<device, held>> /\ Quiet

\* The rows went with their device: the statement fails, the client keeps what it has.
Abandon(r) ==
    /\ refresh[r].pc \in {"issue", "mark"}
    /\ ~RowsLeft(r)
    /\ refresh' = [refresh EXCEPT ![r] = NoRefresh]
    /\ UNCHANGED <<token, device, held>> /\ Quiet

ServerDies(r) ==
    /\ Happens("server_crash")
    /\ refresh[r].pc \in {"issue", "mark"}
    /\ refresh' = [refresh EXCEPT ![r] = NoRefresh]
    /\ UNCHANGED <<token, device, held>>

\* The reply to a former installation reaches nobody.
Store(r) ==
    /\ refresh[r].pc = "reply"
    /\ held' = IF token[refresh[r].new].login = device[refresh[r].client].login
               THEN [held EXCEPT ![refresh[r].client] = refresh[r].new] ELSE held
    /\ refresh' = [refresh EXCEPT ![r] = NoRefresh]
    /\ UNCHANGED <<token, device>> /\ Quiet

ReplyLost(r) ==
    /\ Happens("reply_lost")
    /\ refresh[r].pc = "reply"
    /\ token' = [token EXCEPT ![refresh[r].new].lost = TRUE]
    /\ refresh' = [refresh EXCEPT ![r] = NoRefresh]
    /\ UNCHANGED <<device, held>>

-----------------------------------------------------------------------------
\* Fault: a browser revokes the token it holds and no other.
OwnTokenOnly(c) == [token EXCEPT ![held[c]].state = "revoked"]
\* The tokens of an app go with its device row; a browser has no device, and every
\* token without one is revoked with its own.
SignedOut(c) ==
    IF c \in Apps
    THEN [t \in Tokens |-> IF token[t].client = c
                           THEN [token[t] EXCEPT !.state = "deleted"] ELSE token[t]]
    ELSE Revoked(Clients \ Apps)

SignOut(c) ==
    /\ Happens("sign_out")
    /\ held[c] # None
    /\ Fenced(held[c])
    /\ c \notin Apps => Undisturbed(Clients)
    /\ token' = SignedOut(c)
    /\ device' = [device EXCEPT ![c].status = "none"]
    /\ held' = [held EXCEPT ![c] = None]
    /\ UNCHANGED refresh

\* The device is removed from the account, from elsewhere.
Kick(c) ==
    /\ Happens("kick")
    /\ device[c].status = "active"
    /\ device' = [device EXCEPT ![c].status = "revoked", ![c].version = @ + 1]
    /\ token' = Revoked({c})
    /\ UNCHANGED <<held, refresh>>

\* The app is installed again on the same machine: it takes its former row, and a
\* request of the former installation may still be in service.
Reinstall(c) ==
    /\ device[c].status = "active"
    /\ RoomForOne
    /\ device[c].login < 2
    /\ device' = [device EXCEPT ![c].version = NextVersion(c), ![c].login = @ + 1]
    /\ \E t \in FreeTokens :
         /\ token' = [Revoked({c}) EXCEPT ![t] = Created(c, NextVersion(c), device[c].login + 1)]
         /\ held' = [held EXCEPT ![c] = t]
    /\ refresh' = [r \in Requests |-> IF refresh[r].client = c /\ refresh[r].pc \notin {"issue", "mark"}
                                      THEN NoRefresh ELSE refresh[r]]
    /\ Quiet

\* A new password, an administrator, the command line.
RevokeAll ==
    /\ Happens("revoke_all")
    /\ Undisturbed(Clients)
    /\ token' = Revoked(Clients)
    /\ UNCHANGED <<device, held, refresh>>

\* Half a grace window passes; a refresh takes less.
TokensAge ==
    /\ Busy = {}
    /\ \E t \in Tokens : token[t].state = "rotated" /\ token[t].age < 2
    /\ token' = [t \in Tokens |-> IF token[t].state = "rotated" /\ token[t].age < 2
                                  THEN [token[t] EXCEPT !.age = @ + 1] ELSE token[t]]
    /\ UNCHANGED <<device, held, refresh>> /\ Quiet

ServeRefresh(r) ==
    \/ Admit(r) \/ Refuse(r) \/ Suspect(r) \/ Alarm(r)
    \/ Issue(r) \/ Replace(r) \/ Abandon(r) \/ Store(r)

TokensNext ==
    \/ \E c \in Clients : SignIn(c) \/ Reinstall(c) \/ SignOut(c) \/ Kick(c)
    \/ \E r \in Requests, c \in Clients : AskRefresh(r, c)
    \/ \E r \in Requests : ServeRefresh(r) \/ ServerDies(r) \/ ReplyLost(r)
    \/ RevokeAll
    \/ TokensAge

\* Requests in progress end, time passes, and a client in use refreshes again.
TokensFairness ==
    /\ \A r \in Requests : WF_tokenVars(Runs("tokens") /\ ServeRefresh(r))
    /\ \A c \in Clients : SF_tokenVars(Runs("tokens") /\ \E r \in Requests : AskRefresh(r, c))
    /\ SF_tokenVars(Runs("tokens") /\ TokensAge)

-----------------------------------------------------------------------------
\* A token of a former life of a device is never accepted again, even one issued by
\* a rotation that had read the device before it was removed.
FormerLifeEnded ==
    \A t \in Tokens :
        token[t].client \in Apps /\ Usable(t) => token[t].login = device[token[t].client].login

\* The alarm that signs the whole account out is raised only by a token whose
\* successor never reached its owner, never by pages that refresh at once.
AlarmMeansLoss ==
    \A r \in Requests : refresh[r].pc = "alarm" => token[token[refresh[r].tok].next].lost

\* Once every browser is out, by signing out, a new password or the alarm, no token
\* without a device is accepted, not even one no browser ever saw.
NothingLeftBehind ==
    (\A c \in Clients \ Apps : held[c] = None /\ BusyFor(c) = {}) =>
        \A t \in Tokens : Usable(t) => token[t].client \in Apps

\* A client in use has, again and again, a token that is good or none at all: it
\* does not keep knocking with one the server refuses.
ClientSettles ==
    \A c \in Clients : []<>(held[c] = None \/ token[held[c]].state = "live")

\* Refresh tokens: no renewal outlives what its device or account has lost, honest
\* pages never set off the alarm, and signing out leaves no token behind.
TokensSafe == FormerLifeEnded /\ AlarmMeansLoss /\ NothingLeftBehind
=============================================================================
