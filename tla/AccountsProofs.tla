--------------------------- MODULE AccountsProofs ---------------------------
(***************************************************************************)
(* Accounts, for every number of people, sign-in links, requests and       *)
(* panels: what the runs of MCAccounts check on small instances.           *)
(***************************************************************************)
EXTENDS MCAccounts, NumberLemmas, FiniteSetTheorems, TLAPS

\* A step of the whole is a step of the staff, or leaves it alone.
LEMMA StaffSteps == ASSUME [MCNext]_accountVars PROVE [AdminNext]_adminVars
<1>1. CASE MCNext BY <1>1 DEF MCNext, Only
<1>2. CASE UNCHANGED accountVars BY <1>2 DEF accountVars, partVars
<1>3. QED BY <1>1, <1>2

\* A row of users, the settings, what a member of staff may ask for, and a panel.
People == [status : Statuses, admin : BOOLEAN, support : BOOLEAN]
\* The service settings with their version.
Settings == [on : [Switches -> BOOLEAN], version : Nat]
\* What a member of the staff may ask to be done to another: set a flag, or a lifecycle action.
Deeds == [what : Flags, whom : Staff, to : BOOLEAN]
         \union [what : {"disable", "block", "enable", "delete"}, whom : Staff, to : {None}]
\* An open panel of the staff.
Panels == [in : BOOLEAN, asAdmin : BOOLEAN, shows : Settings \union {None},
           answer : Settings \union {None}, saving : BOOLEAN]

\* The variables of the administration have their types.
StaffTypeOK ==
    /\ person \in [Staff -> People] /\ settings \in Settings
    /\ doing \in [Staff -> Deeds \union {NoRequest}]
    /\ panel \in [Staff -> Panels]

\* The one request on the server found what it needs, and finds it still.
StillPermitted ==
    \A p \in Staff : doing[p] # NoRequest =>
        /\ Permits(p, doing[p].what, doing[p].whom)
        /\ \A q \in Staff : doing[q] # NoRequest => q = p

\* What a panel has been told is of its version: the settings as they are, if that is
\* still the version.
OfItsVersion(told) ==
    told # None => told.version <= settings.version /\ (told.version = settings.version => told = settings)
\* What a panel shows, and the answer on its way to it, are settings there have been of that
\* version.
PanelsFit == \A p \in Staff : OfItsVersion(panel[p].shows) /\ OfItsVersion(panel[p].answer)

\* The inductive invariant of the administration.
StaffInv == StaffTypeOK /\ StillPermitted /\ PanelsFit /\ SomeAdmin /\ DeadHasNoRights

\* The administration begins with its invariant.
LEMMA StaffInitial == AdminInit => StaffInv
<1> SUFFICES ASSUME AdminInit PROVE StaffInv OBVIOUS
<1>1. \A p \in Staff : [status |-> "ACTIVE", admin |-> p = Founder, support |-> FALSE] \in People
  BY DEF People, Statuses
<1>2. person \in [Staff -> People] BY <1>1 DEF AdminInit
<1>3. settings \in Settings BY DEF AdminInit, Settings
<1>4. SignedOutPanel \in Panels BY DEF SignedOutPanel, Panels
<1>5. StaffTypeOK BY <1>2, <1>3, <1>4 DEF AdminInit, StaffTypeOK
<1>6. StillPermitted /\ DeadHasNoRights BY DEF AdminInit, StillPermitted, DeadHasNoRights
<1>7. PanelsFit BY DEF AdminInit, PanelsFit, OfItsVersion, SignedOutPanel
<1>8. SomeAdmin BY StaffAssumption DEF StaffAssumption, AdminInit, SomeAdmin, IsAdmin
<1>9. QED BY <1>5, <1>6, <1>7, <1>8 DEF StaffInv

\* What a request does to its target keeps it a row, and never leaves a right on a
\* tombstone, given what the routes look at.
LEMMA EffectFits ==
    ASSUME NEW r \in People, NEW d \in Deeds, r.status = "DELETED" => ~r.admin /\ ~r.support,
           d.what \in Flags => r.status # "DELETED"
    PROVE  /\ Effect(r, d.what, d.to) \in People
           /\ Effect(r, d.what, d.to).status = "DELETED" =>
                ~Effect(r, d.what, d.to).admin /\ ~Effect(r, d.what, d.to).support
<1>1. CASE d.what \in Flags
  <2>1. d.to \in BOOLEAN BY <1>1 DEF Deeds, Flags
  <2>2. QED BY <1>1, <2>1 DEF Flags, Effect, People
<1>2. CASE d.what = "delete"
  BY <1>2 DEF Effect, Tombstone, People, Statuses
<1>3. CASE d.what \in {"disable", "block", "enable"}
  BY <1>3 DEF Effect, People, Statuses
<1>4. QED BY <1>1, <1>2, <1>3 DEF Deeds

\* Every step of the administration keeps the invariant, and settings are only written over what
\* some panel shows, as long as no two requests of the staff overlap.
LEMMA StaffStep ==
    ASSUME "overlap" \notin Events, StaffInv, [AdminNext]_adminVars
    PROVE  StaffInv' /\ (settings' # settings => \E p \in Staff : panel[p].shows = settings)
<1> DEFINE Seen == settings' # settings => \E p \in Staff : panel[p].shows = settings
<1> USE DEF StaffInv, StaffTypeOK
<1>1. ASSUME NEW p \in Staff, NEW what, NEW t \in Staff, NEW to, Acts(p, what, t, to),
             [what |-> what, whom |-> t, to |-> to] \in Deeds
      PROVE  StaffInv' /\ Seen
  <2> DEFINE d == [what |-> what, whom |-> t, to |-> to]
  <2>1. /\ NobodyActs /\ Permits(p, what, t) /\ doing' = [doing EXCEPT ![p] = d]
        /\ UNCHANGED <<person, settings, panel>>
    BY <1>1 DEF Acts, Happens
  <2>2. doing' \in [Staff -> Deeds \union {NoRequest}] BY <1>1, <2>1
  <2>3. \A q \in Staff : doing'[q] # NoRequest => q = p /\ doing'[q] = d BY <2>1 DEF NobodyActs
  <2>4. d.what = what /\ d.whom = t OBVIOUS
  <2> HIDE DEF d
  <2>5. Permits(p, d.what, d.whom)' BY <2>1, <2>4 DEF Permits, IsAdmin, Other, NotDeleted
  <2>6. StillPermitted' BY <2>3, <2>5 DEF StillPermitted
  <2>7. PanelsFit' /\ SomeAdmin' /\ DeadHasNoRights'
    BY <2>1 DEF PanelsFit, OfItsVersion, SomeAdmin, IsAdmin, DeadHasNoRights
  <2>8. QED BY <2>1, <2>2, <2>6, <2>7
<1>2. ASSUME NEW p \in Staff, Performs(p) PROVE StaffInv' /\ Seen
  <2> DEFINE d == doing[p]
             t == d.whom
             new == Effect(person[t], d.what, d.to)
  <2>1. /\ doing[p] # NoRequest /\ person' = [person EXCEPT ![t] = new]
        /\ doing' = [doing EXCEPT ![p] = NoRequest] /\ UNCHANGED <<settings, panel>>
    BY <1>2 DEF Performs
  <2>2. d \in Deeds /\ t \in Staff BY <2>1 DEF Deeds
  <2>3. Permits(p, d.what, t) /\ IsAdmin(p) BY <2>1 DEF StillPermitted, Permits
  <2>4. d.what \in Flags => person[t].status # "DELETED"
    BY <2>3 DEF Permits, NotDeleted, Flags
  <2>5. /\ new \in People /\ (new.status = "DELETED" => ~new.admin /\ ~new.support)
    BY <2>2, <2>4, EffectFits DEF DeadHasNoRights
  <2>6. \A q \in Staff : person'[q] = IF q = t THEN new ELSE person[q] BY <2>1, <2>2
  <2>7. SomeAdmin'
    <3>1. CASE t # p
      <4>1. IsAdmin(p)' BY <2>3, <2>6, <3>1 DEF IsAdmin
      <4>2. QED BY <4>1 DEF SomeAdmin
    <3>2. CASE t = p
      <4>1. d.what \in {"support", "enable"}
        BY <2>2, <2>3, <3>2 DEF Permits, Other, Deeds, Flags
      <4>2. new.status = "ACTIVE" /\ new.admin = person[p].admin
        BY <2>2, <2>3, <3>2, <4>1 DEF Effect, IsAdmin, People
      <4>3. IsAdmin(p)' BY <2>3, <2>6, <3>2, <4>2 DEF IsAdmin
      <4>4. QED BY <4>3 DEF SomeAdmin
    <3>3. QED BY <3>1, <3>2
  <2>8. DeadHasNoRights' BY <2>5, <2>6 DEF DeadHasNoRights
  <2> HIDE DEF new
  <2>9. person' \in [Staff -> People] BY <2>1, <2>2, <2>5
  <2>10. \A q \in Staff : doing'[q] = NoRequest BY <2>1 DEF StillPermitted
  <2>11. doing' \in [Staff -> Deeds \union {NoRequest}] BY <2>1
  <2>12. PanelsFit' BY <2>1 DEF PanelsFit, OfItsVersion
  <2>13. StillPermitted' BY <2>10 DEF StillPermitted
  <2>14. QED BY <2>1, <2>7, <2>8, <2>9, <2>11, <2>12, <2>13
<1>3. ASSUME NEW p \in Staff, LeavesService(p) PROVE StaffInv' /\ Seen
  <2> DEFINE new == Tombstone(person[p])
  <2>1. /\ person[p].status = "ACTIVE" /\ ~person[p].admin /\ NobodyActs
        /\ person' = [person EXCEPT ![p] = new] /\ UNCHANGED <<settings, doing, panel>>
    BY <1>3 DEF LeavesService
  <2>2. new \in People /\ ~new.admin /\ ~new.support BY DEF Tombstone, People, Statuses
  <2> HIDE DEF new
  <2>3. \A q \in Staff : person'[q] = IF q = p THEN new ELSE person[q] BY <2>1
  <2>4. SomeAdmin'
    <3>1. PICK q \in Staff : IsAdmin(q) BY DEF SomeAdmin
    <3>2. q # p BY <2>1, <3>1 DEF IsAdmin
    <3>3. IsAdmin(q)' BY <2>3, <3>1, <3>2 DEF IsAdmin
    <3>4. QED BY <3>3 DEF SomeAdmin
  <2>5. DeadHasNoRights' BY <2>2, <2>3 DEF DeadHasNoRights
  <2>6. person' \in [Staff -> People] BY <2>1, <2>2
  <2>7. StillPermitted' BY <2>1 DEF NobodyActs, StillPermitted
  <2>8. PanelsFit' BY <2>1 DEF PanelsFit, OfItsVersion
  <2>9. QED BY <2>1, <2>4, <2>5, <2>6, <2>7, <2>8
<1>4. ASSUME UNCHANGED <<person, settings, doing>>, panel' \in [Staff -> Panels], PanelsFit'
      PROVE  StaffInv' /\ Seen
  <2>1. StillPermitted' BY <1>4 DEF StillPermitted, Permits, IsAdmin, Other, NotDeleted
  <2>2. SomeAdmin' /\ DeadHasNoRights' BY <1>4 DEF SomeAdmin, IsAdmin, DeadHasNoRights
  <2>3. QED BY <1>4, <2>1, <2>2
<1>5. SignedOutPanel \in Panels /\ SignedOutPanel.shows = None /\ SignedOutPanel.answer = None
  BY DEF SignedOutPanel, Panels
<1>6. ASSUME NEW p \in Staff, EntersPanel(p) PROVE StaffInv' /\ Seen
  <2> DEFINE new == [SignedOutPanel EXCEPT !.in = TRUE, !.asAdmin = person[p].admin]
  <2>1. UNCHANGED <<person, settings, doing>> /\ panel' = [panel EXCEPT ![p] = new]
    BY <1>6 DEF EntersPanel
  <2>2. person[p].admin \in BOOLEAN BY DEF People
  <2>3. \A ok \in BOOLEAN :
            /\ [SignedOutPanel EXCEPT !.in = TRUE, !.asAdmin = ok] \in Panels
            /\ [SignedOutPanel EXCEPT !.in = TRUE, !.asAdmin = ok].shows = None
            /\ [SignedOutPanel EXCEPT !.in = TRUE, !.asAdmin = ok].answer = None
    BY <1>5 DEF Panels
  <2>4. new \in Panels /\ new.shows = None /\ new.answer = None BY <2>2, <2>3
  <2> HIDE DEF new
  <2>5. panel' \in [Staff -> Panels] BY <2>1, <2>4
  <2>6. PanelsFit' BY <2>1, <2>4 DEF PanelsFit, OfItsVersion
  <2>7. QED BY <1>4, <2>1, <2>5, <2>6
<1>7. ASSUME NEW p \in Staff, Refreshes(p) PROVE StaffInv' /\ Seen
  <2>1. UNCHANGED <<person, settings, doing>> BY <1>7 DEF Refreshes
  <2>2. CASE panel' = panel
    BY <1>4, <2>1, <2>2 DEF PanelsFit, OfItsVersion
  <2>3. CASE panel' = [panel EXCEPT ![p] = SignedOutPanel]
    <3>1. panel' \in [Staff -> Panels] BY <1>5, <2>3
    <3>2. PanelsFit' BY <1>5, <2>1, <2>3 DEF PanelsFit, OfItsVersion
    <3>3. QED BY <1>4, <2>1, <3>1, <3>2
  <2>4. CASE panel' = [panel EXCEPT ![p].answer = settings]
    <3>1. panel' \in [Staff -> Panels] BY <2>4 DEF Panels
    <3>2. /\ \A q \in Staff \ {p} : panel'[q] = panel[q]
          /\ panel'[p].shows = panel[p].shows /\ panel'[p].answer = settings
      BY <2>4 DEF Panels
    <3>3. PanelsFit' BY <2>1, <3>2 DEF PanelsFit, OfItsVersion, Settings
    <3>4. QED BY <1>4, <2>1, <3>1, <3>3
  <2>5. QED BY <1>7, <2>2, <2>3, <2>4 DEF Refreshes
<1>8. ASSUME NEW p \in Staff, Shows(p) PROVE StaffInv' /\ Seen
  <2>1. /\ UNCHANGED <<person, settings, doing>>
        /\ panel' = [panel EXCEPT ![p].shows = panel[p].answer, ![p].answer = None]
    BY <1>8 DEF Shows
  <2> DEFINE new == [panel[p] EXCEPT !.shows = panel[p].answer, !.answer = None]
  <2>2. panel' = [panel EXCEPT ![p] = new] BY <2>1
  <2>3. new \in Panels /\ new.shows = panel[p].answer /\ new.answer = None
    BY DEF Panels
  <2> HIDE DEF new
  <2>4. panel' \in [Staff -> Panels] BY <2>2, <2>3
  <2>5. /\ \A q \in Staff \ {p} : panel'[q] = panel[q]
        /\ panel'[p].shows = panel[p].answer /\ panel'[p].answer = None
    BY <2>2, <2>3
  <2>6. PanelsFit' BY <2>1, <2>5 DEF PanelsFit, OfItsVersion
  <2>7. QED BY <1>4, <2>1, <2>4, <2>6
<1>9. ASSUME NEW p \in Staff, NEW sw \in Switches, Flips(p, sw) PROVE StaffInv' /\ Seen
  <2>1. /\ UNCHANGED <<person, doing>> /\ panel[p].shows # None
        /\ panel' = [panel EXCEPT ![p].shows = settings'] \/ panel' = [panel EXCEPT ![p].shows = None]
    BY <1>9 DEF Flips
  <2>2. panel[p].shows \in Settings BY <2>1 DEF Panels
  <2>3. ASSUME settings' \in Settings, \A told \in Settings : OfItsVersion(told) => OfItsVersion(told)',
               OfItsVersion(settings)'
        PROVE  StaffInv'
    <3>1. panel' \in [Staff -> Panels] BY <2>1, <2>3 DEF Panels
    <3>2. /\ \A q \in Staff \ {p} : panel'[q] = panel[q]
          /\ panel'[p].shows \in {settings', None} /\ panel'[p].answer = panel[p].answer
      BY <2>1 DEF Panels
    <3>3. \A q \in Staff : panel[q].shows \in Settings \union {None} /\ panel[q].answer \in Settings \union {None}
      BY DEF Panels
    <3>4. OfItsVersion(None)' BY DEF OfItsVersion
    <3>5. PanelsFit' BY <2>3, <3>2, <3>3, <3>4 DEF PanelsFit
    <3>6. StillPermitted' BY <2>1 DEF StillPermitted, Permits, IsAdmin, Other, NotDeleted
    <3>7. SomeAdmin' /\ DeadHasNoRights' BY <2>1 DEF SomeAdmin, IsAdmin, DeadHasNoRights
    <3>8. QED BY <2>1, <2>3, <3>1, <3>5, <3>6, <3>7
  <2>4. CASE VersionShown(panel[p].shows.version)
    <3>1. panel[p].shows = settings BY <2>1, <2>4 DEF VersionShown, PanelsFit, OfItsVersion
    <3>2. settings' = [on |-> [settings.on EXCEPT ![sw] = ~panel[p].shows.on[sw]],
                       version |-> settings.version + 1]
      BY <1>9, <2>4 DEF Flips
    <3>3. settings.on \in [Switches -> BOOLEAN] /\ settings.version \in Nat BY DEF Settings
    <3>4. (~panel[p].shows.on[sw]) \in BOOLEAN OBVIOUS
    <3>5. [settings.on EXCEPT ![sw] = ~panel[p].shows.on[sw]] \in [Switches -> BOOLEAN]
      BY <3>3, <3>4, Zenon
    <3>6. settings' \in Settings /\ settings'.version = settings.version + 1 BY <3>2, <3>3, <3>5 DEF Settings
    <3>7. \A told \in Settings : OfItsVersion(told) => OfItsVersion(told)'
      BY <3>3, <3>6 DEF OfItsVersion, Settings
    <3>8. StaffInv' BY <2>3, <3>6, <3>7 DEF OfItsVersion, Settings
    <3>9. QED BY <3>1, <3>8
  <2>5. CASE ~VersionShown(panel[p].shows.version)
    <3>1. settings' = settings BY <1>9, <2>5 DEF Flips
    <3>2. QED BY <2>3, <3>1 DEF OfItsVersion, Settings
  <2>6. QED BY <2>4, <2>5
<1>10. ASSUME NEW p \in Staff, LeavesPanel(p) PROVE StaffInv' /\ Seen
  <2>1. UNCHANGED <<person, settings, doing>> /\ panel' = [panel EXCEPT ![p] = SignedOutPanel]
    BY <1>10 DEF LeavesPanel
  <2>2. panel' \in [Staff -> Panels] BY <1>5, <2>1
  <2>3. PanelsFit' BY <1>5, <2>1 DEF PanelsFit, OfItsVersion
  <2>4. QED BY <1>4, <2>1, <2>2, <2>3
<1>11. CASE UNCHANGED adminVars
  BY <1>4, <1>11 DEF adminVars, PanelsFit, OfItsVersion
<1>12. ASSUME NEW p \in Staff, NEW t \in Staff, NEW what \in Flags, NEW to \in BOOLEAN, Acts(p, what, t, to)
       PROVE  StaffInv' /\ Seen
  <2>1. [what |-> what, whom |-> t, to |-> to] \in Deeds BY DEF Deeds
  <2>2. QED BY <1>1, <1>12, <2>1
<1>13. ASSUME NEW p \in Staff, NEW t \in Staff, NEW what \in {"disable", "block", "enable", "delete"},
              Acts(p, what, t, None)
       PROVE  StaffInv' /\ Seen
  <2>1. [what |-> what, whom |-> t, to |-> None] \in Deeds BY DEF Deeds
  <2>2. QED BY <1>1, <1>13, <2>1
<1>14. QED
  BY <1>2, <1>3, <1>6, <1>7, <1>8, <1>9, <1>10, <1>11, <1>12, <1>13 DEF AdminNext

\* Requests of the staff that do not run at the same time leave somebody in charge and no
\* right on a closed account, and a switch is flipped only from a panel that showed the
\* settings as they were (requireAdmin, deleteAccount, updateServiceSettings).
THEOREM StaffKept == "overlap" \notin Events => (MCSpec => StaffHolds)
<1>1. SUFFICES ASSUME "overlap" \notin Events PROVE MCSpec => StaffHolds OBVIOUS
<1>2. MCInit => StaffInv BY StaffInitial DEF MCInit
<1>3. StaffInv /\ [MCNext]_accountVars => StaffInv' BY <1>1, StaffSteps, StaffStep
<1>4. StaffInv /\ [MCNext]_accountVars =>
        [settings' # settings => \E p \in Staff : panel[p].shows = settings]_adminVars
  BY <1>1, StaffSteps, StaffStep
<1>5. StaffInv => SomeAdmin /\ DeadHasNoRights BY DEF StaffInv
<1>6. QED BY <1>2, <1>3, <1>4, <1>5, PTL DEF MCSpec, StaffHolds, NeverBlind

-----------------------------------------------------------------------------
\* A step of the whole is a step of the sign-in by link, or leaves it alone.
LEMMA LinkSteps == ASSUME [MCNext]_accountVars PROVE [LinkNext]_linkVars
<1>1. CASE MCNext BY <1>1 DEF MCNext, Only
<1>2. CASE UNCHANGED accountVars BY <1>2 DEF accountVars, partVars
<1>3. QED BY <1>1, <1>2

\* A row of link_requests with what came of it, and a request in service.
LinkStatuses == {"none", "PENDING", "APPROVED", "DENIED", "EXPIRED", "USED", "purged"}
\* An account that tokens were made for, and whether it was barred by then.
Issued == [user : Users, barred : BOOLEAN]
\* The rows of the table of link codes.
LinkRows == [status : LinkStatuses, user : Users \union {None}, age : Nat,
             told : SUBSET (Users \union {"denied"}), minted : Seq(Issued), hit : BOOLEAN]
\* What a request about a link code is doing.
LinkJobs == [pc : {"idle", "settle", "approve", "deny", "poll", "flip", "mint", "tokens", "refused"},
             link : Links \union {None}, user : Users \union {None}]

\* The variables of the link codes have their types.
LinkTypeOK ==
    /\ link \in [Links -> LinkRows] /\ job \in [Jobs -> LinkJobs]
    /\ \A j \in Jobs : job[j].pc # "idle" => job[j].link \in Links
    /\ \A j \in Jobs : job[j].pc = "approve" => job[j].user \in Users

\* A request is about to make the session of this code.
Minting(l, j) == job[j].pc = "mint" /\ job[j].link = l

\* An open request has had no answer, an approved one has one and has not been collected,
\* and of those that are being collected there is one, before tokens are issued.
Story(l) ==
    /\ link[l].status \in {"none", "PENDING"} => link[l].told = {}
    /\ link[l].status \in {"none", "PENDING", "APPROVED"} =>
           link[l].minted = <<>> /\ \A j \in Jobs : ~Minting(l, j)
    /\ link[l].status = "APPROVED" => link[l].user \in Users /\ link[l].told = {link[l].user}
    /\ \A v, w \in link[l].told : v = w
    /\ Len(link[l].minted) <= 1
    /\ Len(link[l].minted) = 1 =>
           /\ link[l].told = {link[l].minted[1].user} /\ ~link[l].minted[1].barred
           /\ \A j \in Jobs : ~Minting(l, j)
    /\ \A j \in Jobs : Minting(l, j) =>
           /\ link[l].minted = <<>> /\ job[j].user \in Users /\ link[l].told = {job[j].user}
           /\ \A k \in Jobs : Minting(l, k) => k = j

\* The inductive invariant of the link codes.
LinkInv == LinkTypeOK /\ \A l \in Links : Story(l)

\* There is no code, and nobody asks about one.
LEMMA LinkInitial == LinkInit => LinkInv
<1> SUFFICES ASSUME LinkInit PROVE LinkInv OBVIOUS
<1>1. NoLink \in LinkRows BY DEF NoLink, LinkRows, LinkStatuses
<1>2. NoJob \in LinkJobs BY DEF NoJob, LinkJobs
<1>3. LinkTypeOK BY <1>1, <1>2 DEF LinkInit, LinkTypeOK, NoJob
<1>4. ASSUME NEW l \in Links PROVE Story(l)
  <2>1. link[l] = NoLink /\ \A j \in Jobs : job[j] = NoJob BY DEF LinkInit
  <2>2. \A j \in Jobs : ~Minting(l, j) BY <2>1 DEF Minting, NoJob
  <2>3. QED BY <2>1, <2>2 DEF Story, NoLink
<1>5. QED BY <1>3, <1>4 DEF LinkInv

\* Whether a fault came between is nobody's concern here.
LEMMA HitOnly ==
    ASSUME NEW r \in LinkRows, NEW ok \in BOOLEAN
    PROVE  /\ [r EXCEPT !.hit = ok] \in LinkRows
           /\ [r EXCEPT !.hit = ok].status = r.status /\ [r EXCEPT !.hit = ok].user = r.user
           /\ [r EXCEPT !.hit = ok].told = r.told /\ [r EXCEPT !.hit = ok].minted = r.minted
BY DEF LinkRows

\* A request's story goes on as it was, though it ends, when nobody answers it and none
\* begins to collect it.
SameStory(l) ==
    /\ link'[l].told = link[l].told /\ link'[l].minted = link[l].minted /\ link'[l].user = link[l].user
    /\ \/ link'[l].status = link[l].status
       \/ link'[l].status \notin {"none", "PENDING", "APPROVED"}
       \/ link[l].status = "none" /\ link'[l].status = "PENDING"

\* No request begins to make a session of this code.
NoneBegins(l) ==
    \A j \in Jobs : Minting(l, j)' => Minting(l, j) /\ job'[j].user = job[j].user

\* A code whose row stays has the same story, if nobody begins to make its session.
LEMMA StoryGoesOn ==
    ASSUME LinkInv, LinkTypeOK', NEW l \in Links, NoneBegins(l), SameStory(l) PROVE Story(l)'
<1>1. Story(l) BY DEF LinkInv
<1>2. \A j \in Jobs : Minting(l, j)' => Minting(l, j) /\ job'[j].user = job[j].user BY DEF NoneBegins
<1>3. link[l].status = "none" => link[l].status \in {"none", "PENDING"} OBVIOUS
<1> QED BY <1>1, <1>2 DEF Story, SameStory

\* And so has the table.
LEMMA StoriesGoOn ==
    ASSUME LinkInv, LinkTypeOK', \A l \in Links : NoneBegins(l) /\ SameStory(l) PROVE LinkInv'
BY StoryGoesOn DEF LinkInv

\* Jobs that begin, go on to something else than collecting, or end.
LEMMA JobBegins ==
    ASSUME LinkInv, NEW j \in Jobs, NEW l \in Links, NEW u \in Users \union {None},
           NEW pc \in {"settle", "approve", "deny", "poll"}, pc = "approve" => u \in Users,
           Begin(j, l, u, pc), link' = link
    PROVE  LinkInv'
<1> USE DEF LinkInv, LinkTypeOK
<1> DEFINE new == [pc |-> pc, link |-> l, user |-> u]
<1>1. job' = [job EXCEPT ![j] = new] BY DEF Begin
<1>2. new \in LinkJobs /\ new.pc = pc /\ new.link = l /\ new.user = u BY DEF LinkJobs
<1> HIDE DEF new
<1>3. \A k \in Jobs : job'[k] = IF k = j THEN new ELSE job[k] BY <1>1
<1>4. LinkTypeOK' BY <1>1, <1>2, <1>3
<1>5. \A m \in Links : NoneBegins(m) BY <1>2, <1>3 DEF NoneBegins, Minting
<1>6. \A m \in Links : SameStory(m) BY DEF SameStory
<1>7. QED BY <1>4, <1>5, <1>6, StoriesGoOn

\* A request that goes on to a step other than making a session leaves the types and every code's
\* sessions alone.
LEMMA JobGoesOn ==
    ASSUME LinkInv, NEW j \in Jobs, NEW pc \in {"flip", "refused", "settle", "tokens"},
           job[j].pc # "idle", To(j, pc), link' \in [Links -> LinkRows]
    PROVE  LinkTypeOK' /\ \A l \in Links : NoneBegins(l) /\ ~Minting(l, j)'
<1> USE DEF LinkInv, LinkTypeOK
<1>1. \A k \in Jobs \ {j} : job'[k] = job[k] BY DEF To
<1>2. job'[j].pc = pc /\ job'[j].link = job[j].link /\ job'[j] \in LinkJobs BY DEF To, LinkJobs
<1>3. job' \in [Jobs -> LinkJobs] BY <1>2 DEF To
<1>4. LinkTypeOK' BY <1>1, <1>2, <1>3
<1>5. QED BY <1>1, <1>2, <1>4 DEF NoneBegins, Minting

\* So does one that ends.
LEMMA JobEndsHere ==
    ASSUME LinkInv, NEW j \in Jobs, Done(j), link' \in [Links -> LinkRows]
    PROVE  LinkTypeOK' /\ \A l \in Links : NoneBegins(l) /\ ~Minting(l, j)'
<1> USE DEF LinkInv, LinkTypeOK
<1>1. NoJob \in LinkJobs /\ NoJob.pc = "idle" BY DEF NoJob, LinkJobs
<1>2. \A k \in Jobs : job'[k] = IF k = j THEN NoJob ELSE job[k] BY DEF Done
<1>3. job' \in [Jobs -> LinkJobs] BY <1>1 DEF Done
<1>4. LinkTypeOK' BY <1>1, <1>2, <1>3
<1>5. QED BY <1>1, <1>2, <1>4 DEF NoneBegins, Minting

-----------------------------------------------------------------------------
\* So does a step that no request takes.
LEMMA JobsStay ==
    ASSUME LinkInv, job' = job, link' \in [Links -> LinkRows]
    PROVE  LinkTypeOK' /\ \A l \in Links : NoneBegins(l)
BY DEF LinkInv, LinkTypeOK, NoneBegins, Minting

\* A row that is written by the job at hand, and the others.
LEMMA OneRow ==
    ASSUME LinkInv, NEW l \in Links, NEW r \in LinkRows, link' = [link EXCEPT ![l] = r]
    PROVE  /\ link' \in [Links -> LinkRows] /\ link'[l] = r
           /\ \A m \in Links \ {l} : link'[m] = link[m] /\ SameStory(m)
BY DEF LinkInv, LinkTypeOK, SameStory

\* A fault, which is marked in one row.
LEMMA OneHit ==
    ASSUME LinkInv, NEW l \in Links, NEW ok \in BOOLEAN, link' = [link EXCEPT ![l].hit = ok]
    PROVE  link' \in [Links -> LinkRows] /\ \A m \in Links : SameStory(m)
<1> DEFINE new == [link[l] EXCEPT !.hit = ok]
<1>1. link[l] \in LinkRows BY DEF LinkInv, LinkTypeOK
<1>2. new \in LinkRows /\ new.status = link[l].status /\ new.user = link[l].user
      /\ new.told = link[l].told /\ new.minted = link[l].minted
  BY <1>1, HitOnly
<1>3. link' = [link EXCEPT ![l] = new] OBVIOUS
<1> HIDE DEF new
<1>4. link' \in [Links -> LinkRows] /\ link'[l] = new /\ \A m \in Links \ {l} : SameStory(m)
  BY <1>2, <1>3, OneRow
<1>5. SameStory(l) BY <1>2, <1>4 DEF SameStory
<1>6. QED BY <1>4, <1>5

\* Every step of the sign-in by link keeps it.
LEMMA LinkStep == ASSUME LinkInv, [LinkNext]_linkVars PROVE LinkInv'
<1> USE DEF LinkInv, LinkTypeOK
<1>0. \A l \in Links : link[l] \in LinkRows /\ Story(l) OBVIOUS
<1>1. ASSUME NEW l \in Links, StartLink(l) PROVE LinkInv'
  <2> DEFINE new == [link[l] EXCEPT !.status = "PENDING"]
  <2>1. job' = job /\ link[l].status = "none" /\ link' = [link EXCEPT ![l] = new] BY <1>1 DEF StartLink
  <2>2. new \in LinkRows /\ new.status = "PENDING" /\ new.user = link[l].user
        /\ new.told = link[l].told /\ new.minted = link[l].minted
    BY <1>0, ZenonT(30) DEF LinkRows, LinkStatuses
  <2> HIDE DEF new
  <2>3. link' \in [Links -> LinkRows] /\ link'[l] = new /\ \A m \in Links \ {l} : SameStory(m)
    BY <2>1, <2>2, OneRow
  <2>4. SameStory(l) BY <2>1, <2>2, <2>3 DEF SameStory
  <2>5. QED BY <2>1, <2>3, <2>4, JobsStay, StoriesGoOn
<1>2. ASSUME NEW j \in Jobs, NEW l \in Links, ReadLate(j, l) \/ AskDenial(j, l) \/ Poll(j, l) PROVE LinkInv'
  <2>1. link' = link /\ \E pc \in {"settle", "deny", "poll"} : Begin(j, l, None, pc)
    BY <1>2 DEF ReadLate, AskDenial, Poll
  <2>2. QED BY <2>1, JobBegins
<1>3. ASSUME NEW j \in Jobs, NEW l \in Links, NEW u \in Users, AskApproval(j, l, u) PROVE LinkInv'
  BY <1>3, JobBegins DEF AskApproval
<1>4. ASSUME NEW j \in Jobs, SettleExpiry(j) PROVE LinkInv'
  <2> DEFINE l == job[j].link
             r == link[l]
  <2>1. Done(j) /\ l \in Links /\ link' = IF r.status = "purged" THEN link ELSE [link EXCEPT ![l] = Ended(r)]
    BY <1>4 DEF SettleExpiry, At, Row
  <2>2. r \in LinkRows BY <2>1
  <2>3. \A ok \in BOOLEAN : [r EXCEPT !.status = "EXPIRED", !.hit = ok] \in LinkRows
        /\ [r EXCEPT !.status = "EXPIRED", !.hit = ok].status = "EXPIRED"
        /\ [r EXCEPT !.status = "EXPIRED", !.hit = ok].user = r.user
        /\ [r EXCEPT !.status = "EXPIRED", !.hit = ok].told = r.told
        /\ [r EXCEPT !.status = "EXPIRED", !.hit = ok].minted = r.minted
    BY <2>2 DEF LinkRows, LinkStatuses
  <2>4. (r.hit \/ r.told # {}) \in BOOLEAN OBVIOUS
  <2>5. Ended(r) \in LinkRows /\ Ended(r).status = "EXPIRED" /\ Ended(r).user = r.user
        /\ Ended(r).told = r.told /\ Ended(r).minted = r.minted
    BY <2>3, <2>4, Zenon DEF Ended
  <2>6. link' \in [Links -> LinkRows] /\ \A m \in Links : SameStory(m)
    <3>1. CASE link' = link BY <3>1 DEF SameStory
    <3>2. CASE link' = [link EXCEPT ![l] = Ended(r)]
      <4>1. link' \in [Links -> LinkRows] /\ link'[l] = Ended(r) /\ \A m \in Links \ {l} : SameStory(m)
        BY <2>1, <2>5, <3>2, OneRow
      <4>2. SameStory(l) BY <2>5, <4>1 DEF SameStory
      <4>3. QED BY <4>1, <4>2
    <3>3. QED BY <2>1, <3>1, <3>2
  <2>7. QED BY <2>1, <2>6, JobEndsHere, StoriesGoOn
<1>5. ASSUME NEW j \in Jobs, NEW l \in Links, NEW w \in Users \union {"denied"}, NEW r \in LinkRows,
             Done(j), link[l].status = "PENDING",
             link' = [link EXCEPT ![l] = r], r.told = {w}, r.minted = link[l].minted,
             r.status = "DENIED" \/ (r.status = "APPROVED" /\ w \in Users /\ r.user = w)
      PROVE  LinkInv'
  <2>1. link' \in [Links -> LinkRows] /\ link'[l] = r /\ \A m \in Links \ {l} : SameStory(m)
    BY <1>5, OneRow
  <2>2. LinkTypeOK' /\ \A m \in Links : NoneBegins(m) BY <1>5, <2>1, JobEndsHere
  <2>3. \A m \in Links \ {l} : Story(m)' BY <2>1, <2>2, StoryGoesOn
  <2>4. r.minted = <<>> /\ \A k \in Jobs : ~Minting(l, k) BY <1>0, <1>5 DEF Story
  <2>5. \A k \in Jobs : ~Minting(l, k)' BY <1>5, <2>2, <2>4 DEF NoneBegins
  <2>6. Story(l)' BY <1>5, <2>1, <2>4, <2>5 DEF Story
  <2>7. QED BY <2>2, <2>3, <2>6
<1>6. ASSUME NEW j \in Jobs, Approve(j) PROVE LinkInv'
  <2>9. PICK l \in Links : l = job[j].link BY <1>6 DEF Approve, At
  <2> DEFINE u == job[j].user
             r == link[l]
             new == ApprovedBy(r, u)
  <2>1. l \in Links /\ u \in Users /\ Done(j)
        /\ link' = IF Claimed(j) THEN [link EXCEPT ![l] = new] ELSE link
    BY <1>6, <2>9 DEF Approve, At, Row
  <2>2. CASE ~Claimed(j)
    <3>1. link' = link BY <2>1, <2>2
    <3>2. link' \in [Links -> LinkRows] /\ \A m \in Links : SameStory(m) BY <3>1 DEF SameStory
    <3>3. QED BY <2>1, <3>2, JobEndsHere, StoriesGoOn
  <2>3. CASE Claimed(j)
    <3>1. r.status = "PENDING" /\ r \in LinkRows /\ r.told = {}
      BY <1>0, <2>3, <2>9 DEF Claimed, Row, Story
    <3>2. \A ok \in BOOLEAN :
            LET s == [r EXCEPT !.status = "APPROVED", !.user = u, !.told = r.told \cup {u}, !.hit = ok]
            IN  s \in LinkRows /\ s.status = "APPROVED" /\ s.user = u /\ s.told = {u} /\ s.minted = r.minted
      BY <2>1, <3>1 DEF LinkRows, LinkStatuses
    <3>3. (r.hit \/ u \in barred) \in BOOLEAN OBVIOUS
    <3>4. new \in LinkRows /\ new.status = "APPROVED" /\ new.user = u /\ new.told = {u} /\ new.minted = r.minted
      BY <3>2, <3>3, Zenon DEF ApprovedBy
    <3>5. link' = [link EXCEPT ![l] = new] BY <2>1, <2>3
    <3>7. link[l].status = "PENDING" /\ new.minted = link[l].minted /\ Done(j) /\ u \in Users BY <2>1, <3>1, <3>4
    <3> HIDE DEF new, r, u
    <3>6. QED BY <1>5, <3>4, <3>5, <3>7
  <2>4. QED BY <2>2, <2>3
<1>7. ASSUME NEW j \in Jobs, Deny(j) PROVE LinkInv'
  <2>9. PICK l \in Links : l = job[j].link BY <1>7 DEF Deny, At
  <2> DEFINE r == link[l]
             new == Refusal(r)
  <2>1. l \in Links /\ Done(j)
        /\ link' = IF Claimed(j) THEN [link EXCEPT ![l] = new] ELSE link
    BY <1>7, <2>9 DEF Deny, At, Row
  <2>2. CASE ~Claimed(j)
    <3>1. link' = link BY <2>1, <2>2
    <3>2. link' \in [Links -> LinkRows] /\ \A m \in Links : SameStory(m) BY <3>1 DEF SameStory
    <3>3. QED BY <2>1, <3>2, JobEndsHere, StoriesGoOn
  <2>3. CASE Claimed(j)
    <3>1. r.status = "PENDING" /\ r \in LinkRows /\ r.told = {}
      BY <1>0, <2>3, <2>9 DEF Claimed, Row, Story
    <3>2. new \in LinkRows /\ new.status = "DENIED" /\ new.told = {"denied"} /\ new.minted = r.minted
      BY <3>1 DEF Refusal, LinkRows, LinkStatuses
    <3>3. link' = [link EXCEPT ![l] = new] BY <2>1, <2>3
    <3>5. link[l].status = "PENDING" /\ new.minted = link[l].minted /\ Done(j) BY <2>1, <3>1, <3>2
    <3> HIDE DEF new, r
    <3>4. QED BY <1>5, <3>2, <3>3, <3>5
  <2>4. QED BY <2>2, <2>3
<1>8. ASSUME NEW j \in Jobs, job[j].pc # "idle", link' = link,
             Done(j) \/ \E pc \in {"flip", "refused", "settle", "tokens"} : To(j, pc)
      PROVE  LinkInv'
  <2>1. link' \in [Links -> LinkRows] /\ \A m \in Links : SameStory(m) BY <1>8 DEF SameStory
  <2>2. QED BY <1>8, <2>1, JobEndsHere, JobGoesOn, StoriesGoOn
<1>9. ASSUME NEW j \in Jobs, ReadPoll(j) PROVE LinkInv' BY <1>8, <1>9 DEF ReadPoll, At
<1>10. ASSUME NEW j \in Jobs, Flip(j) PROVE LinkInv'
  <2>9. PICK l \in Links : l = job[j].link BY <1>10 DEF Flip, At
  <2> DEFINE r == link[l]
             new == [r EXCEPT !.status = "USED"]
             mint == [pc |-> "mint", link |-> l, user |-> r.user]
  <2>1. l \in Links /\ job[j].pc = "flip" BY <1>10 DEF Flip, At
  <2>2. CASE WinsFlip(j)
    <3>1. r.status = "APPROVED" /\ r \in LinkRows /\ r.user \in Users /\ r.told = {r.user} /\ r.minted = <<>>
          /\ \A k \in Jobs : ~Minting(l, k)
      BY <1>0, <2>2, <2>9 DEF WinsFlip, Row, Story
    <3>2. link' = [link EXCEPT ![l] = new] /\ job' = [job EXCEPT ![j] = mint]
      BY <1>10, <2>2, <2>9 DEF Flip, Row
    <3>3. new \in LinkRows /\ new.status = "USED" /\ new.told = r.told /\ new.minted = r.minted
      BY <3>1 DEF LinkRows, LinkStatuses
    <3>4. mint \in LinkJobs /\ mint.pc = "mint" /\ mint.link = l /\ mint.user = r.user
      BY <2>1, <3>1 DEF LinkJobs
    <3> HIDE DEF new, mint
    <3>5. link' \in [Links -> LinkRows] /\ link'[l] = new /\ \A m \in Links \ {l} : SameStory(m)
      BY <2>1, <3>2, <3>3, OneRow
    <3>6. \A k \in Jobs : job'[k] = IF k = j THEN mint ELSE job[k] BY <3>2
    <3>7. job' \in [Jobs -> LinkJobs] BY <3>2, <3>4
    <3>8. LinkTypeOK' BY <3>4, <3>5, <3>6, <3>7
    <3>9. \A m \in Links \ {l} : NoneBegins(m) BY <3>4, <3>6 DEF NoneBegins, Minting
    <3>10. \A m \in Links \ {l} : Story(m)' BY <3>5, <3>8, <3>9, StoryGoesOn
    <3>11. \A k \in Jobs : Minting(l, k)' => k = j BY <3>1, <3>6 DEF Minting
    <3>12. job'[j].user = r.user BY <3>4, <3>6
    <3>13. Story(l)' BY <3>1, <3>3, <3>5, <3>11, <3>12 DEF Story
    <3>14. QED BY <3>8, <3>10, <3>13
  <2>3. CASE ~WinsFlip(j) BY <1>8, <1>10, <2>1, <2>3 DEF Flip
  <2>4. QED BY <2>2, <2>3
<1>11. ASSUME NEW j \in Jobs, Mint(j) PROVE LinkInv'
  <2>9. PICK l \in Links : l = job[j].link BY <1>11 DEF Mint, At
  <2> DEFINE u == job[j].user
             r == link[l]
             entry == [user |-> u, barred |-> u \in barred]
             new == IssuedTo(r, u)
  <2>1. l \in Links /\ job[j].pc = "mint" BY <1>11 DEF Mint, At
  <2>2. CASE StillActive(u)
    <3>1. Minting(l, j) BY <2>1, <2>9 DEF Minting
    <3>2. /\ r.minted = <<>> /\ u \in Users /\ r.told = {u} /\ r \in LinkRows
          /\ \A k \in Jobs : Minting(l, k) => k = j
          /\ r.status \notin {"none", "PENDING", "APPROVED"}
      BY <1>0, <2>1, <3>1 DEF Story
    <3>3. (u \in barred) = FALSE BY <2>2 DEF StillActive
    <3>4. entry = [user |-> u, barred |-> FALSE] BY <3>3, Zenon
    <3>5. entry \in Issued /\ entry.user = u /\ ~entry.barred BY <3>2, <3>4 DEF Issued
    <3>6. new = [r EXCEPT !.minted = Append(r.minted, entry)] BY Zenon DEF IssuedTo
    <3>7. link' = [link EXCEPT ![l] = new] /\ To(j, "tokens") BY <1>11, <2>2, <2>9 DEF Mint, Row
    <3> HIDE DEF entry, new
    <3>8. Append(r.minted, entry) = <<entry>> /\ <<entry>> \in Seq(Issued) BY <3>2, <3>5
    <3>9. /\ new \in LinkRows /\ new.status = r.status /\ new.told = r.told /\ new.minted = <<entry>>
      BY <3>2, <3>6, <3>8 DEF LinkRows
    <3>10. link' \in [Links -> LinkRows] /\ link'[l] = new /\ \A m \in Links \ {l} : SameStory(m)
      BY <2>1, <3>7, <3>9, OneRow
    <3>11. LinkTypeOK' /\ \A m \in Links : NoneBegins(m) /\ ~Minting(m, j)'
      BY <2>1, <3>7, <3>10, JobGoesOn
    <3>12. \A m \in Links \ {l} : Story(m)' BY <3>10, <3>11, StoryGoesOn
    <3>13. \A k \in Jobs : ~Minting(l, k)' BY <2>1, <3>2, <3>11 DEF NoneBegins
    <3>14. Len(<<entry>>) = 1 /\ <<entry>>[1] = entry OBVIOUS
    <3>17. /\ link'[l].status \notin {"none", "PENDING", "APPROVED"} /\ link'[l].told = {u}
           /\ Len(link'[l].minted) = 1 /\ link'[l].minted[1] = entry
      BY <3>2, <3>9, <3>10, <3>14
    <3>15. Story(l)' BY <3>5, <3>13, <3>17 DEF Story
    <3>16. QED BY <3>11, <3>12, <3>15
  <2>3. CASE ~StillActive(u) BY <1>8, <1>11, <2>1, <2>3 DEF Mint
  <2>4. QED BY <2>2, <2>3
<1>12. ASSUME NEW j \in Jobs, Collect(j) \/ Refused(j) PROVE LinkInv'
  BY <1>8, <1>12 DEF Collect, Refused, At
<1>13. ASSUME NEW l \in Links, WaitEnds(l) \/ CancelWait(l) PROVE LinkInv'
  <2>1. (link[l].hit \/ link[l].told # {}) \in BOOLEAN OBVIOUS
  <2>2. job' = job /\ \E ok \in BOOLEAN : link' = [link EXCEPT ![l].hit = ok]
    BY <1>13, <2>1, Zenon DEF WaitEnds, CancelWait
  <2>3. link' \in [Links -> LinkRows] /\ \A m \in Links : SameStory(m) BY <2>2, OneHit
  <2>4. QED BY <2>2, <2>3, JobsStay, StoriesGoOn
<1>14. ASSUME NEW j \in Jobs, PollLost(j) PROVE LinkInv'
  <2>1. job[j].pc # "idle" /\ Done(j) /\ link' = [link EXCEPT ![job[j].link].hit = TRUE]
    BY <1>14 DEF PollLost
  <2>2. job[j].link \in Links BY <2>1
  <2>3. link' \in [Links -> LinkRows] /\ \A m \in Links : SameStory(m) BY <2>1, <2>2, OneHit
  <2>4. QED BY <2>1, <2>3, JobEndsHere, StoriesGoOn
<1>15. ASSUME job' = job, link' \in [Links -> LinkRows],
              \A l \in Links : /\ link'[l].told = link[l].told /\ link'[l].minted = link[l].minted
                               /\ link'[l].user = link[l].user
                               /\ link'[l].status = link[l].status \/ link'[l].status = "purged"
       PROVE  LinkInv'
  <2>1. \A l \in Links : SameStory(l) BY <1>15 DEF SameStory
  <2>2. QED BY <1>15, <2>1, JobsStay, StoriesGoOn
<1>16. ASSUME NEW u \in Users, Bar(u) PROVE LinkInv'
  <2>1. job' = job
        /\ link' = [l \in Links |-> IF u \in link[l].told THEN [link[l] EXCEPT !.hit = TRUE] ELSE link[l]]
    BY <1>16 DEF Bar
  <2>2. \A l \in Links : link'[l] = link[l] \/ link'[l] = [link[l] EXCEPT !.hit = TRUE] BY <2>1
  <2>3. \A l \in Links : /\ link'[l] \in LinkRows /\ link'[l].told = link[l].told
                         /\ link'[l].minted = link[l].minted /\ link'[l].user = link[l].user
                         /\ link'[l].status = link[l].status
    BY <1>0, <2>2, HitOnly, ZenonT(30)
  <2>4. link' \in [Links -> LinkRows] BY <2>1, <2>3
  <2>5. QED BY <1>15, <2>1, <2>3, <2>4
<1>17. \A l \in Links : /\ Older[l] \in LinkRows /\ Older[l].told = link[l].told
                        /\ Older[l].minted = link[l].minted /\ Older[l].user = link[l].user
                        /\ Older[l].status = link[l].status
  <2> SUFFICES ASSUME NEW l \in Links
               PROVE  /\ Older[l] \in LinkRows /\ Older[l].told = link[l].told
                      /\ Older[l].minted = link[l].minted /\ Older[l].user = link[l].user
                      /\ Older[l].status = link[l].status
    OBVIOUS
  <2>1. link[l] \in LinkRows BY <1>0
  <2>2. Older[l] = link[l] \/ Older[l] = [link[l] EXCEPT !.age = @ + 1] BY DEF Older
  <2>3. QED BY <2>1, <2>2, SMTT(30) DEF LinkRows
<1>18. ASSUME LinksAge PROVE LinkInv'
  <2>1. job' = job /\ link' = Older BY <1>18 DEF LinksAge
  <2>2. link' \in [Links -> LinkRows] BY <1>17, <2>1 DEF Older
  <2>3. QED BY <1>15, <1>17, <2>1, <2>2
<1>19. ASSUME DeadlineBetween PROVE LinkInv'
  <2> DEFINE ok(l) == link[l].hit \/ link[l].told # {} \/ InService(l) # {}
  <2>1. job' = job /\ link' = [l \in Links |-> [Older[l] EXCEPT !.hit = ok(l)]] BY <1>19 DEF DeadlineBetween
  <2>2. \A l \in Links : ok(l) \in BOOLEAN OBVIOUS
  <2> HIDE DEF ok
  <2>3. \A l \in Links : link'[l] = [Older[l] EXCEPT !.hit = ok(l)] BY <2>1
  <2>4. \A l \in Links : /\ link'[l] \in LinkRows /\ link'[l].told = link[l].told
                         /\ link'[l].minted = link[l].minted /\ link'[l].user = link[l].user
                         /\ link'[l].status = link[l].status
    <3> SUFFICES ASSUME NEW l \in Links
                 PROVE  /\ link'[l] \in LinkRows /\ link'[l].told = link[l].told
                        /\ link'[l].minted = link[l].minted /\ link'[l].user = link[l].user
                        /\ link'[l].status = link[l].status
      OBVIOUS
    <3> DEFINE r == Older[l]
    <3>1. /\ r \in LinkRows /\ r.told = link[l].told /\ r.minted = link[l].minted
          /\ r.user = link[l].user /\ r.status = link[l].status
      BY <1>17
    <3>2. ok(l) \in BOOLEAN /\ link'[l] = [r EXCEPT !.hit = ok(l)] BY <2>2, <2>3
    <3> HIDE DEF r
    <3>3. QED BY <3>1, <3>2, HitOnly
  <2>5. link' \in [Links -> LinkRows] BY <2>1, <2>4
  <2>6. QED BY <1>15, <2>1, <2>4, <2>5
<1>20. ASSUME PurgeLinks PROVE LinkInv'
  <2>1. job' = job /\ \A l \in Links : link'[l] = link[l] \/ link'[l] = [link[l] EXCEPT !.status = "purged"]
    BY <1>20 DEF PurgeLinks
  <2>2. \A l \in Links : /\ link'[l] \in LinkRows /\ link'[l].told = link[l].told
                         /\ link'[l].minted = link[l].minted /\ link'[l].user = link[l].user
                         /\ link'[l].status = link[l].status \/ link'[l].status = "purged"
    <3> SUFFICES ASSUME NEW l \in Links
                 PROVE  /\ link'[l] \in LinkRows /\ link'[l].told = link[l].told
                        /\ link'[l].minted = link[l].minted /\ link'[l].user = link[l].user
                        /\ link'[l].status = link[l].status \/ link'[l].status = "purged"
      OBVIOUS
    <3>1. link[l] \in LinkRows BY <1>0
    <3>3. \A r \in LinkRows :
              LET s == [r EXCEPT !.status = "purged"]
              IN  s \in LinkRows /\ s.told = r.told /\ s.minted = r.minted /\ s.user = r.user
                  /\ s.status = "purged"
      BY DEF LinkRows, LinkStatuses
    <3>2. QED BY <2>1, <3>1, <3>3
  <2>3. link' = [l \in Links |-> link'[l]] BY <1>20 DEF PurgeLinks
  <2>4. link' \in [Links -> LinkRows] BY <2>2, <2>3
  <2>5. QED BY <1>15, <2>1, <2>2, <2>4
<1>21. CASE UNCHANGED linkVars BY <1>15, <1>21 DEF linkVars
<1>22. QED
  BY <1>1, <1>2, <1>3, <1>4, <1>6, <1>7, <1>9, <1>10, <1>11, <1>12, <1>13, <1>14, <1>16, <1>18, <1>19,
     <1>20, <1>21 DEF LinkNext, ServeLink

\* A request for a sign-in by link has one verdict, tokens are issued for it at most once,
\* for who approved it and never for an account that is disabled, however reads, writes,
\* polls, deadlines, crashes and purges fall between each other (approveLink, pollLink).
THEOREM LinksKept == MCSpec => []LinksSafe
<1>1. MCInit => LinkInv BY LinkInitial DEF MCInit
<1>2. LinkInv /\ [MCNext]_accountVars => LinkInv' BY LinkSteps, LinkStep
<1>3. LinkInv => LinksSafe
  <2> SUFFICES ASSUME LinkInv PROVE LinksSafe OBVIOUS
  <2>1. \A l \in Links : Story(l) /\ link[l] \in LinkRows BY DEF LinkInv, LinkTypeOK
  <2>2. ASSUME NEW l \in Links PROVE Cardinality(link[l].told) <= 1
    <3>4. \A v, w \in link[l].told : v = w BY <2>1 DEF Story
    <3>1. link[l].told = {} \/ \E v : link[l].told = {v}
      <4>1. SUFFICES ASSUME NEW v \in link[l].told PROVE link[l].told = {v} OBVIOUS
      <4>2. QED BY <3>4
    <3>2. CASE link[l].told = {}
      <4>1. Cardinality(link[l].told) = 0 BY <3>2, FS_EmptySet
      <4>2. QED BY <4>1
    <3>3. ASSUME NEW v, link[l].told = {v} PROVE Cardinality(link[l].told) <= 1
      <4>1. Cardinality(link[l].told) = 1 BY <3>3, FS_Singleton
      <4>2. QED BY <4>1
    <3>5. QED BY <3>1, <3>2, <3>3
  <2>3. ASSUME NEW l \in Links, NEW i \in 1 .. Len(link[l].minted)
        PROVE  link[l].told = {link[l].minted[i].user} /\ ~link[l].minted[i].barred
    <3>1. Len(link[l].minted) \in Nat /\ Len(link[l].minted) <= 1 BY <2>1 DEF Story, LinkRows
    <3>2. Len(link[l].minted) = 1 /\ i = 1
      <4> DEFINE n == Len(link[l].minted)
      <4>1. n \in Nat /\ n <= 1 /\ i \in 1 .. n BY <3>1
      <4> HIDE DEF n
      <4>2. n = 1 /\ i = 1 BY <4>1
      <4>3. QED BY <4>2 DEF n
    <3>3. QED BY <2>1, <3>2 DEF Story
  <2>4. \A l \in Links : Len(link[l].minted) <= 1 BY <2>1 DEF Story
  <2>5. QED BY <2>2, <2>3, <2>4 DEF LinksSafe, OneVerdict, MintedForActive
<1>4. QED BY <1>1, <1>2, <1>3, PTL DEF MCSpec

-----------------------------------------------------------------------------
\* A step of the whole is a step of the sign-up, or leaves it alone.
LEMMA SignUpSteps == ASSUME [MCNext]_accountVars PROVE [SignUpNext]_signUpVars
<1>1. CASE MCNext BY <1>1 DEF MCNext, Only
<1>2. CASE UNCHANGED accountVars BY <1>2 DEF accountVars, partVars
<1>3. QED BY <1>1, <1>2

\* A pending registration and a user, with what confirmed the address, and a mailed code.
Confirmations == Nat \union {None}
\* Rows of accounts whose address is not confirmed yet.
Applicants == [pass : Nat, token : Nat, verified : Confirmations]
\* Rows of accounts.
Members == [pass : Nat, telegram : Chats, verified : Confirmations]
\* The codes that were mailed.
Codes == [for : Nat \union {None}, alive : BOOLEAN]

\* The variables of the sign-up have their types.
SignUpTypeOK ==
    /\ starts \in Nat
    /\ pending \in [Addresses -> Applicants \union {None}]
    /\ member \in [Addresses -> Members \union {None}]
    /\ mailed \in [Addresses -> Codes]
    /\ confirming \in [of : Addresses, for : Nat \union {None}] \union {None}
    /\ identity \in [Chats -> Addresses \union {None}]
    /\ \A r \in rebinds : r.of \in Addresses
    /\ chatLogin \in [Chats -> SignIns \union {None}]
    /\ prompted \in [Chats -> SignIns \union {None}]
    /\ allowed = [c \in Chats |-> allowed[c]]

\* What was confirmed by a code was confirmed for the password of the row.
OfItsPass(r) == r # None => r.verified \in {None, ByGoogle, r.pass}

\* A code that may still be used, and a confirmation on its way, are for the password of
\* the row they will mark.
CodeFits(e) == pending[e] # None /\ pending[e].verified = None /\ mailed[e].alive => mailed[e].for = pending[e].pass
\* A confirmation under way is of the application it read, or that application is gone.
ConfirmingFits ==
    confirming # None => pending[confirming.of] = None \/ pending[confirming.of].pass = confirming.for

\* A chat that is asked for a decision was shown the sign-in that the decision is about.
ShownFits(c) == chatLogin[c] # None => prompted[c] = chatLogin[c]

\* The inductive invariant of the sign-up.
SignUpInv ==
    /\ SignUpTypeOK
    /\ \A e \in Addresses : OfItsPass(pending[e]) /\ OfItsPass(member[e]) /\ CodeFits(e)
    /\ ConfirmingFits
    /\ \A c \in Chats : ShownFits(c)
    /\ LinkFollowsUser /\ AllowsWhatItSaw

\* A sign-up begins with no row, no code and no user.
LEMMA SignUpInitial == SignUpInit => SignUpInv
BY DEF SignUpInit, SignUpInv, SignUpTypeOK, NoCode, Codes, OfItsPass, CodeFits, ConfirmingFits, ShownFits,
       LinkFollowsUser, AllowsWhatItSaw

\* Steps that touch only the codes, the pending rows and the confirmation under way.
LEMMA RowStep ==
    ASSUME SignUpInv, UNCHANGED <<member, identity, chatLogin, prompted, allowed>>,
           rebinds' = rebinds, starts' \in Nat,
           pending' \in [Addresses -> Applicants \union {None}], mailed' \in [Addresses -> Codes],
           confirming' \in [of : Addresses, for : Nat \union {None}] \union {None},
           ConfirmingFits', \A e \in Addresses : OfItsPass(pending[e])' /\ CodeFits(e)'
    PROVE  SignUpInv'
<1>1. SignUpTypeOK' BY DEF SignUpInv, SignUpTypeOK
<1>2. \A e \in Addresses : OfItsPass(member[e])' BY DEF SignUpInv, OfItsPass
<1>3. \A c \in Chats : ShownFits(c)' BY DEF SignUpInv, ShownFits
<1>4. LinkFollowsUser' /\ AllowsWhatItSaw' BY DEF SignUpInv, LinkFollowsUser, AllowsWhatItSaw
<1>5. QED BY <1>1, <1>2, <1>3, <1>4 DEF SignUpInv

\* Steps of the bot that touch only what the chats are asked and what they allowed.
LEMMA BotStep ==
    ASSUME SignUpInv, UNCHANGED rowVars, chatLogin' \in [Chats -> SignIns \union {None}],
           prompted' \in [Chats -> SignIns \union {None}], allowed' = [c \in Chats |-> allowed'[c]],
           \A c \in Chats : ShownFits(c)', AllowsWhatItSaw'
    PROVE  SignUpInv'
<1>1. SignUpTypeOK' BY DEF SignUpInv, SignUpTypeOK, rowVars
<1>2. \A e \in Addresses : OfItsPass(pending[e])' /\ OfItsPass(member[e])' /\ CodeFits(e)'
  BY DEF SignUpInv, rowVars, OfItsPass, CodeFits
<1>3. ConfirmingFits' /\ LinkFollowsUser' BY DEF SignUpInv, rowVars, ConfirmingFits, LinkFollowsUser
<1>4. QED BY <1>1, <1>2, <1>3 DEF SignUpInv

\* Every step of the sign-up keeps the invariant, as long as no two requests about one account
\* overlap and no prompt is lost.
LEMMA SignUpStep ==
    ASSUME "overlap" \notin Events, "prompt_lost" \notin Events, SignUpInv, [SignUpNext]_signUpVars
    PROVE  SignUpInv'
<1> USE DEF SignUpInv, SignUpTypeOK
<1>1. ASSUME NEW e \in Addresses, Start(e) PROVE SignUpInv'
  <2> DEFINE new == [pass |-> NextToken, token |-> NextToken, verified |-> None]
  <2>1. /\ starts' = NextToken /\ confirming = None /\ confirming' = None
        /\ pending' = [pending EXCEPT ![e] = new]
        /\ mailed' = [mailed EXCEPT ![e] = [for |-> NextToken, alive |-> TRUE]]
        /\ UNCHANGED <<member, identity, rebinds, botVars>>
    BY <1>1 DEF Start, Happens, Unverified
  <2>2. NextToken \in Nat /\ new \in Applicants BY DEF NextToken, Applicants, Confirmations
  <2>3. /\ pending' \in [Addresses -> Applicants \union {None}] /\ mailed' \in [Addresses -> Codes]
    BY <2>1, <2>2 DEF Codes
  <2>4. \A x \in Addresses : OfItsPass(pending[x])' /\ CodeFits(x)'
    BY <2>1 DEF OfItsPass, CodeFits
  <2>5. QED BY <2>1, <2>2, <2>3, <2>4, RowStep DEF botVars, ConfirmingFits
<1>2. ASSUME NEW e \in Addresses, Resend(e) PROVE SignUpInv'
  <2>1. /\ pending[e] # None /\ mailed' = [mailed EXCEPT ![e] = [for |-> pending[e].pass, alive |-> TRUE]]
        /\ UNCHANGED <<starts, pending, confirming, member, identity, rebinds, botVars>>
    BY <1>2 DEF Resend
  <2>2. pending[e].pass \in Nat BY <2>1 DEF Applicants
  <2>3. mailed' \in [Addresses -> Codes] BY <2>1, <2>2 DEF Codes
  <2>4. \A x \in Addresses : OfItsPass(pending[x])' /\ CodeFits(x)' BY <2>1 DEF OfItsPass, CodeFits
  <2>5. QED BY <2>1, <2>3, <2>4, RowStep DEF botVars, ConfirmingFits
<1>3. ASSUME NEW e \in Addresses, StartGoogle(e) PROVE SignUpInv'
  <2>1. /\ confirming = None /\ confirming' = None /\ mailed' = mailed
        /\ UNCHANGED <<member, identity, rebinds, botVars>>
    BY <1>3 DEF StartGoogle
  <2>2. NextToken \in Nat /\ ByGoogle \in Nat BY DEF NextToken, ByGoogle
  <2>3. PICK new \in Applicants : /\ pending' = [pending EXCEPT ![e] = new] /\ new.verified = ByGoogle
                                  /\ starts' \in Nat
    <3>1. CASE pending[e] = None
      <4> DEFINE n == [pass |-> NextToken, token |-> NextToken, verified |-> ByGoogle]
      <4>1. n \in Applicants BY <2>2 DEF Applicants, Confirmations
      <4>2. pending' = [pending EXCEPT ![e] = n] /\ starts' \in Nat BY <1>3, <2>2, <3>1 DEF StartGoogle
      <4>3. QED BY <4>1, <4>2
    <3>2. CASE pending[e] # None
      <4> DEFINE n == [pending[e] EXCEPT !.verified = ByGoogle]
      <4>1. n \in Applicants /\ n.verified = ByGoogle BY <2>2, <3>2 DEF Applicants, Confirmations
      <4>2. pending' = [pending EXCEPT ![e] = n] /\ starts' \in Nat BY <1>3, <3>2 DEF StartGoogle
      <4> HIDE DEF n
      <4>3. QED BY <4>1, <4>2
    <3>3. QED BY <3>1, <3>2
  <2>4. pending' \in [Addresses -> Applicants \union {None}] BY <2>3
  <2>5. \A x \in Addresses : OfItsPass(pending[x])' BY <2>3 DEF OfItsPass
  <2>6. \A x \in Addresses : CodeFits(x)'
    <3>1. SUFFICES ASSUME NEW x \in Addresses PROVE CodeFits(x)' OBVIOUS
    <3>2. CASE x = e
      \* None is no number
      <4>1. ByGoogle # None BY NumberAssumption DEF NumberAssumption, ByGoogle
      <4>2. QED BY <2>3, <3>2, <4>1 DEF CodeFits
    <3>3. CASE x # e BY <2>1, <2>3, <3>3 DEF CodeFits
    <3>4. QED BY <3>2, <3>3
  <2>7. QED BY <2>1, <2>3, <2>4, <2>5, <2>6, RowStep DEF botVars, ConfirmingFits
<1>4. ASSUME NEW e \in Addresses, BurnCode(e) PROVE SignUpInv'
  <2>1. /\ pending[e] # None /\ pending[e].verified = None /\ mailed[e].alive
        /\ mailed' = [mailed EXCEPT ![e].alive = FALSE]
        /\ confirming' = [of |-> e, for |-> mailed[e].for]
        /\ UNCHANGED <<starts, pending, member, identity, rebinds, botVars>>
    BY <1>4 DEF BurnCode
  <2>2. mailed' \in [Addresses -> Codes] BY <2>1, ZenonT(30) DEF Codes
  <2>3. confirming' \in [of : Addresses, for : Nat \union {None}] BY <2>1 DEF Codes
  <2>4. ConfirmingFits' BY <2>1 DEF ConfirmingFits, CodeFits
  <2>5. \A x \in Addresses : OfItsPass(pending[x])' BY <2>1 DEF OfItsPass
  <2>6. \A x \in Addresses : CodeFits(x)' BY <2>1 DEF CodeFits, Codes
  <2>7. QED BY <2>1, <2>2, <2>3, <2>4, <2>5, <2>6, RowStep DEF botVars
<1>5. ASSUME MarkVerified PROVE SignUpInv'
  <2>1. PICK e \in Addresses : e = confirming.of BY <1>5 DEF MarkVerified
  <2>2. /\ confirming # None /\ confirming' = None
        /\ pending' = IF pending[e] = None THEN pending ELSE [pending EXCEPT ![e].verified = confirming.for]
        /\ UNCHANGED <<starts, mailed, member, identity, rebinds, botVars>>
    BY <1>5, <2>1 DEF MarkVerified
  <2>3. CASE pending[e] = None
    BY <2>2, <2>3, RowStep DEF botVars, ConfirmingFits, OfItsPass, CodeFits
  <2>4. CASE pending[e] # None
    <3> DEFINE new == [pending[e] EXCEPT !.verified = confirming.for]
    <3>1. pending[e].pass = confirming.for BY <2>1, <2>2, <2>4 DEF ConfirmingFits
    <3>2. pending[e] \in Applicants /\ confirming.for \in Nat BY <2>4, <3>1 DEF Applicants
    <3>3. new \in Applicants /\ new.pass = pending[e].pass /\ new.verified = new.pass
      BY <3>1, <3>2 DEF Applicants, Confirmations
    <3>4. pending' = [pending EXCEPT ![e] = new] BY <2>2, <2>4
    <3> HIDE DEF new
    <3>5. pending' \in [Addresses -> Applicants \union {None}] BY <3>3, <3>4
    <3>6. \A x \in Addresses : OfItsPass(pending[x])' BY <3>3, <3>4 DEF OfItsPass
    <3>7. new.verified # None BY <3>3, NumberAssumption DEF NumberAssumption, Applicants
    <3>8. \A x \in Addresses : CodeFits(x)'
      BY <2>2, <3>4, <3>7 DEF CodeFits
    <3>9. QED BY <2>2, <3>5, <3>6, <3>8, RowStep DEF botVars, ConfirmingFits
  <2>5. QED BY <2>3, <2>4
<1>6. ASSUME NEW e \in Addresses, CodeDies(e) PROVE SignUpInv'
  <2>1. /\ mailed' = [mailed EXCEPT ![e].alive = FALSE]
        /\ UNCHANGED <<starts, pending, confirming, member, identity, rebinds, botVars>>
    BY <1>6 DEF CodeDies
  <2>2. mailed' \in [Addresses -> Codes] BY <2>1 DEF Codes
  <2>3. \A x \in Addresses : OfItsPass(pending[x])' BY <2>1 DEF OfItsPass
  <2>4. \A x \in Addresses : CodeFits(x)' BY <2>1 DEF CodeFits, Codes
  <2>5. QED BY <2>1, <2>2, <2>3, <2>4, RowStep DEF botVars, ConfirmingFits
<1>7. ASSUME NEW e \in Addresses, Lapses(e) PROVE SignUpInv'
  <2>1. /\ pending' = [pending EXCEPT ![e] = None]
        /\ UNCHANGED <<starts, mailed, confirming, member, identity, rebinds, botVars>>
    BY <1>7 DEF Lapses
  <2>2. pending' \in [Addresses -> Applicants \union {None}] BY <2>1
  <2>3. \A x \in Addresses : OfItsPass(pending[x])' /\ CodeFits(x)' BY <2>1 DEF OfItsPass, CodeFits
  <2>4. QED BY <2>1, <2>2, <2>3, RowStep DEF botVars, ConfirmingFits
<1>8. ASSUME UNCHANGED <<starts, pending, mailed, confirming, member, identity, rebinds, chatLogin, prompted, allowed>>
      PROVE  SignUpInv'
  <2>1. \A x \in Addresses : OfItsPass(pending[x])' /\ CodeFits(x)' BY <1>8 DEF OfItsPass, CodeFits
  <2>2. QED BY <1>8, <2>1, RowStep DEF ConfirmingFits
<1>9. ASSUME SwitchesSignUp \/ Polls \/ GivesUp \/ (\E c \in Chats, k \in 1 .. MaxStarts : OpensLink(c, k))
      PROVE  SignUpInv'
  BY <1>8, <1>9 DEF SwitchesSignUp, Polls, GivesUp, OpensLink, rowVars, botVars
<1>10. ASSUME NEW e \in Addresses, AskRebind(e) PROVE SignUpInv'
  <2>1. /\ starts' = NextToken /\ rebinds' = rebinds \union {[token |-> NextToken, of |-> e]}
        /\ UNCHANGED <<pending, mailed, confirming, member, identity, botVars>>
    BY <1>10 DEF AskRebind
  <2>2. SignUpTypeOK' BY <2>1 DEF botVars, NextToken
  <2>3. \A x \in Addresses : OfItsPass(pending[x])' /\ OfItsPass(member[x])' /\ CodeFits(x)'
    BY <2>1 DEF OfItsPass, CodeFits
  <2>4. ConfirmingFits' /\ LinkFollowsUser' BY <2>1 DEF ConfirmingFits, LinkFollowsUser
  <2>5. AllowsWhatItSaw' /\ \A c \in Chats : ShownFits(c)' BY <2>1 DEF botVars, AllowsWhatItSaw, ShownFits
  <2>6. QED BY <2>2, <2>3, <2>4, <2>5
<1>11. ASSUME NEW c \in Chats, ChatForgets(c) PROVE SignUpInv'
  <2>1. chatLogin' = [chatLogin EXCEPT ![c] = None] /\ UNCHANGED <<rowVars, prompted, allowed>>
    BY <1>11 DEF ChatForgets
  <2>2. \A d \in Chats : ShownFits(d)' BY <2>1 DEF ShownFits
  <2>3. AllowsWhatItSaw' BY <2>1 DEF AllowsWhatItSaw
  <2>4. QED BY <2>1, <2>2, <2>3, BotStep
<1>12. ASSUME NEW c \in Chats, Rebinds(c) PROVE SignUpInv'
  <2>1. PICK r \in rebinds :
           /\ ~Free(r.of) /\ ~Elsewhere(c, r.of)
           /\ member' = [member EXCEPT ![r.of].telegram = c]
           /\ rebinds' = rebinds \ {r} /\ identity' = LinkMoved(c, r.of)
           /\ UNCHANGED <<starts, pending, mailed, confirming, chatLogin, prompted, allowed>>
    BY <1>12 DEF Rebinds
  <2>2. PICK e \in Addresses : e = r.of OBVIOUS
  <2>3. /\ member[e] # None /\ member[e] \in Members /\ ~Elsewhere(c, e) BY <2>1, <2>2 DEF Free
  <2> DEFINE new == [member[e] EXCEPT !.telegram = c]
  <2>4. new \in Members /\ new.telegram = c /\ new.pass = member[e].pass /\ new.verified = member[e].verified
    BY <2>3 DEF Members
  <2>5. member' = [member EXCEPT ![e] = new] /\ identity' = [identity EXCEPT ![c] = e]
    BY <2>1, <2>2 DEF LinkMoved
  <2> HIDE DEF new
  <2>6. SignUpTypeOK' BY <2>1, <2>4, <2>5
  <2>7. \A x \in Addresses : OfItsPass(pending[x])' /\ OfItsPass(member[x])' /\ CodeFits(x)'
    BY <2>1, <2>3, <2>4, <2>5 DEF OfItsPass, CodeFits
  <2>8. LinkFollowsUser'
    BY <2>3, <2>4, <2>5 DEF LinkFollowsUser, Elsewhere, Members
  <2>9. ConfirmingFits' /\ AllowsWhatItSaw' /\ \A d \in Chats : ShownFits(d)'
    BY <2>1 DEF ConfirmingFits, AllowsWhatItSaw, ShownFits
  <2>10. QED BY <2>6, <2>7, <2>8, <2>9
<1>13. ASSUME NEW c \in Chats, Finishes(c) PROVE SignUpInv'
  <2>1. PICK e \in Addresses :
           /\ pending[e] # None /\ Free(e) /\ ~Elsewhere(c, e) /\ identity[c] = None
           /\ member' = [member EXCEPT ![e] = [pass |-> pending[e].pass, telegram |-> c, verified |-> pending[e].verified]]
           /\ identity' = [identity EXCEPT ![c] = e]
           /\ pending' = [pending EXCEPT ![e] = None] \/ pending' = pending
           /\ UNCHANGED <<starts, mailed, confirming, rebinds, chatLogin, prompted, allowed>>
    BY <1>13 DEF Finishes
  <2> DEFINE new == [pass |-> pending[e].pass, telegram |-> c, verified |-> pending[e].verified]
  <2>2. pending[e] \in Applicants /\ OfItsPass(pending[e]) BY <2>1
  <2>3. /\ new \in Members /\ new.telegram = c /\ new.verified \in {None, ByGoogle, new.pass}
    BY <2>1, <2>2 DEF Members, Applicants, OfItsPass
  <2>4. member' = [member EXCEPT ![e] = new] BY <2>1
  <2> HIDE DEF new
  <2>5. pending' \in [Addresses -> Applicants \union {None}] BY <2>1
  <2>6. SignUpTypeOK'
    <3>1. member' \in [Addresses -> Members \union {None}] BY <2>3, <2>4
    <3>2. identity' \in [Chats -> Addresses \union {None}] BY <2>1
    <3>3. QED BY <2>1, <2>5, <3>1, <3>2
  <2>7. \A x \in Addresses : pending'[x] \in {pending[x], None} BY <2>1
  <2>8. \A x \in Addresses : OfItsPass(pending[x])' /\ CodeFits(x)' BY <2>1, <2>7 DEF OfItsPass, CodeFits
  <2>9. \A x \in Addresses : OfItsPass(member[x])' BY <2>3, <2>4 DEF OfItsPass
  <2>10. ConfirmingFits' BY <2>1, <2>7 DEF ConfirmingFits
  <2>11. LinkFollowsUser' BY <2>1, <2>3, <2>4 DEF LinkFollowsUser, Elsewhere, Members
  <2>12. AllowsWhatItSaw' /\ \A d \in Chats : ShownFits(d)' BY <2>1 DEF AllowsWhatItSaw, ShownFits
  <2>13. QED BY <2>6, <2>8, <2>9, <2>10, <2>11, <2>12
<1>14. ASSUME NEW e \in Addresses, ClosesAccount(e) PROVE SignUpInv'
  <2>1. /\ member' = [member EXCEPT ![e] = None]
        /\ identity' = [c \in Chats |-> IF identity[c] = e THEN None ELSE identity[c]]
        /\ rebinds' \subseteq rebinds
        /\ UNCHANGED <<starts, pending, mailed, confirming, botVars>>
    BY <1>14 DEF ClosesAccount
  <2>2. SignUpTypeOK' BY <2>1 DEF botVars
  <2>3. \A x \in Addresses : OfItsPass(pending[x])' /\ OfItsPass(member[x])' /\ CodeFits(x)'
    BY <2>1 DEF OfItsPass, CodeFits
  <2>4. LinkFollowsUser' BY <2>1 DEF LinkFollowsUser, Members
  <2>5. ConfirmingFits' /\ AllowsWhatItSaw' /\ \A c \in Chats : ShownFits(c)'
    BY <2>1 DEF botVars, ConfirmingFits, AllowsWhatItSaw, ShownFits
  <2>6. QED BY <2>2, <2>3, <2>4, <2>5
<1>15. ASSUME NEW c \in Chats, NEW l \in SignIns, OpensLogin(c, l) PROVE SignUpInv'
  <2>1. /\ chatLogin' = [chatLogin EXCEPT ![c] = l] /\ prompted' = [prompted EXCEPT ![c] = l]
        /\ UNCHANGED <<rowVars, allowed>>
    BY <1>15 DEF OpensLogin, Happens, LastAsked
  <2>2. \A d \in Chats : ShownFits(d)' BY <2>1 DEF ShownFits
  <2>3. AllowsWhatItSaw' BY <2>1 DEF AllowsWhatItSaw
  <2>4. QED BY <2>1, <2>2, <2>3, BotStep
<1>16. ASSUME NEW c \in Chats, NEW allow \in BOOLEAN, Decides(c, allow) PROVE SignUpInv'
  <2> DEFINE new == [what |-> chatLogin[c], shown |-> prompted[c]]
  <2>1. /\ chatLogin[c] # None /\ chatLogin' = [chatLogin EXCEPT ![c] = None]
        /\ allowed' = [allowed EXCEPT ![c] = new] \/ allowed' = allowed
        /\ UNCHANGED <<rowVars, prompted>>
    BY <1>16 DEF Decides
  <2>2. new.what = new.shown BY <2>1 DEF ShownFits
  <2> HIDE DEF new
  <2>3. \A d \in Chats : ShownFits(d)' BY <2>1 DEF ShownFits
  <2>4. allowed' = [d \in Chats |-> allowed'[d]] BY <2>1
  <2>5. AllowsWhatItSaw' BY <2>1, <2>2 DEF AllowsWhatItSaw
  <2>6. QED BY <2>1, <2>3, <2>4, <2>5, BotStep
<1>17. CASE UNCHANGED signUpVars BY <1>8, <1>17 DEF signUpVars
<1>18. QED
  BY <1>1, <1>2, <1>3, <1>4, <1>5, <1>6, <1>7, <1>9, <1>10, <1>11, <1>12, <1>13, <1>14, <1>15, <1>16, <1>17
  DEF SignUpNext

\* An address confirmed by a mailed code was confirmed for the password of its row, the
\* Telegram link of an account is its own through re-binding, closing and signing up
\* again, and a chat allows what it was shown (startRegistration, confirmRegistrationEmail,
\* attachTelegram, handleLoginDecision): for every number of addresses and chats, if no
\* second request runs during a confirmation and no prompt of the bot gets lost.
THEOREM SignUpKept == "overlap" \notin Events /\ "prompt_lost" \notin Events => (MCSpec => []SignUpSafe)
<1>1. SUFFICES ASSUME "overlap" \notin Events, "prompt_lost" \notin Events PROVE MCSpec => []SignUpSafe
  OBVIOUS
<1>2. MCInit => SignUpInv BY SignUpInitial DEF MCInit
<1>3. SignUpInv /\ [MCNext]_accountVars => SignUpInv' BY <1>1, SignUpSteps, SignUpStep
<1>4. SignUpInv => SignUpSafe
  BY DEF SignUpInv, SignUpSafe, VerifiedByItsCode, OfItsPass
<1>5. QED BY <1>2, <1>3, <1>4, PTL DEF MCSpec

-----------------------------------------------------------------------------
\* Those of a set with fewer than n before them are at most n.
LEMMA FirstFew ==
    ASSUME NEW b \in Nat, NEW S \in SUBSET (1 .. b), NEW n \in Nat
    PROVE  Cardinality({d \in S : ~(Cardinality({e \in S : e < d}) >= n)}) <= n
<1> DEFINE Before(d) == {e \in S : e < d}
           T == {d \in S : ~(Cardinality(Before(d)) >= n)}
<1>1. IsFiniteSet(S)
  <2>1. IsFiniteSet(1 .. b) BY FS_Interval
  <2>2. QED BY <2>1, FS_Subset
<1>2. CASE T = {}
  <2>1. Cardinality(T) = 0 BY <1>2, FS_EmptySet
  <2>2. QED BY <2>1
<1>3. CASE T # {}
  <2>1. T \in SUBSET (1 .. b) OBVIOUS
  <2> DEFINE Last(m) == m \in T /\ \A x \in T : x <= m
  <2>2. \E m : Last(m)
    <3> HIDE DEF T
    <3>1. QED BY <1>3, <2>1, GreatestOf
  <2>3. PICK m : Last(m) BY <2>2
  <2>4. m \in S /\ m \in Nat /\ ~(Cardinality(Before(m)) >= n) BY <2>3
  <2>5. IsFiniteSet(Before(m)) BY <1>1, FS_Subset
  <2>6. Cardinality(Before(m)) \in Nat BY <2>5, FS_CardinalityType
  <2>7. m \notin Before(m) BY <2>4
  <2>8. /\ Cardinality(Before(m) \union {m}) = Cardinality(Before(m)) + 1
        /\ IsFiniteSet(Before(m) \union {m})
    <3> HIDE DEF Before
    <3>1. QED BY <2>5, <2>7, FS_AddElement
  <2>9. T \subseteq Before(m) \union {m}
    <3>1. SUFFICES ASSUME NEW x \in T PROVE x \in Before(m) \union {m} OBVIOUS
    <3>2. x \in S /\ x \in Nat /\ x <= m BY <2>3
    <3>3. x < m \/ x = m BY <2>4, <3>2
    <3>4. QED BY <3>2, <3>3
  <2>10. Cardinality(T) <= Cardinality(Before(m) \union {m}) /\ IsFiniteSet(T)
    <3> HIDE DEF Before, T
    <3>1. QED BY <2>8, <2>9, FS_Subset
  <2>11. Cardinality(T) \in Nat BY <2>10, FS_CardinalityType
  <2> DEFINE k == Cardinality(Before(m))
             t == Cardinality(T)
             u == Cardinality(Before(m) \union {m})
  <2>12. k \in Nat /\ ~(k >= n) /\ u = k + 1 /\ t <= u /\ t \in Nat
    BY <2>4, <2>6, <2>8, <2>10, <2>11
  <2> HIDE DEF k, t, u
  <2>13. t <= n BY <2>12
  <2>14. QED BY <2>13 DEF t
<1>4. QED BY <1>2, <1>3

-----------------------------------------------------------------------------
\* A step of the whole is a step of the device slots, or leaves them alone.
LEMMA SlotSteps == ASSUME [MCNext]_accountVars PROVE [SlotsNext]_slotVars
<1>1. CASE MCNext BY <1>1 DEF MCNext, Only
<1>2. CASE UNCHANGED accountVars BY <1>2 DEF accountVars, partVars
<1>3. QED BY <1>1, <1>2

\* A row of devices, the token an installation holds, a session and the account.
DeviceRows == [status : {"none", "active", "revoked", "deleted"}, key : Keys \union {None}, version : Nat]
\* A device's credentials in the database: the row they belong to and its token version.
Credentials == [row : Rows \union {None}, version : Nat]
\* What a device row's session may be.
Sessions == [state : {"none", "open", "closing"}, key : Keys \union {None}]
\* What the account may be.
Accounts == [status : {"ACTIVE", "DISABLED", "BLOCKED", "DELETED"}, paid : BOOLEAN, limit : Nat]

\* The variables of the device slots have their types.
SlotsTypeOK ==
    /\ row \in [Rows -> DeviceRows] /\ cred \in [Keys -> Credentials]
    /\ session \in [Rows -> Sessions] /\ lease \in [Addrs -> Rows \union {None}]
    /\ peer \in [Keys -> Addrs \union {None}] /\ account \in Accounts

\* A token names a row that was made, is of the row's version or an older one, and one of
\* the row's own version is held by the installation whose row it is.
CredFits(k) ==
    \A d \in Rows : cred[k].row = d =>
        /\ row[d].status # "none" /\ cred[k].version <= row[d].version
        /\ cred[k].version = row[d].version => row[d].key = k

\* The address of a peer is leased to the row whose session has the peer's key.
PeerFits(k) ==
    peer[k] # None /\ k \notin orphaned =>
        lease[peer[k]] \in Rows /\ session[lease[peer[k]]].key = k

\* The allowance is what the plan gives, and what is enforced is one device.
AllowanceFits ==
    /\ account.limit = (IF account.paid THEN PlanLimit ELSE 1)
    /\ SlotsRespected

\* The inductive invariant of the device slots.
SlotsInv ==
    /\ SlotsTypeOK /\ AllowanceFits
    /\ \A k \in Keys : CredFits(k) /\ PeerFits(k)

\* The account begins without a device.
LEMMA SlotsInitial == SlotsInit => SlotsInv
<1> SUFFICES ASSUME SlotsInit PROVE SlotsInv OBVIOUS
<1>1. SlotsTypeOK
  BY SlotsAssumption DEF SlotsAssumption, SlotsInit, SlotsTypeOK, NoRow, NoCred, NoSession, DeviceRows, Credentials,
     Sessions, Accounts
<1>2. Active = {} BY DEF SlotsInit, Active, NoRow
<1>3. Cardinality(Active) = 0 BY <1>2, FS_EmptySet
<1>4. AllowanceFits BY <1>3, SlotsAssumption DEF SlotsAssumption, SlotsInit, AllowanceFits, SlotsRespected
<1>5. \A k \in Keys : CredFits(k) /\ PeerFits(k)
  BY SlotsAssumption DEF SlotsAssumption, SlotsInit, CredFits, PeerFits, NoCred, Rows
<1>6. QED BY <1>1, <1>4, <1>5 DEF SlotsInv

\* The active rows are finitely many, and fewer of them are not more.
LEMMA FewerRows ==
    ASSUME NEW S \in SUBSET Rows, NEW T \in SUBSET S
    PROVE  Cardinality(T) <= Cardinality(S) /\ Cardinality(S) \in Nat /\ Cardinality(T) \in Nat
<1>1. IsFiniteSet(Rows) BY SlotsAssumption, FS_Interval DEF SlotsAssumption, Rows
<1>2. IsFiniteSet(S) /\ IsFiniteSet(T) BY <1>1, FS_Subset
<1>3. QED BY <1>2, FS_Subset, FS_CardinalityType

\* One more row is one more at the most.
LEMMA OneMoreRow ==
    ASSUME NEW S \in SUBSET Rows, NEW d \in Rows, NEW n \in Nat, Cardinality(S) < n
    PROVE  Cardinality(S \union {d}) <= n
<1>1. IsFiniteSet(Rows) BY SlotsAssumption, FS_Interval DEF SlotsAssumption, Rows
<1>2. IsFiniteSet(S) BY <1>1, FS_Subset
<1>3. Cardinality(S) \in Nat BY <1>2, FS_CardinalityType
<1>4. Cardinality(S \union {d}) \in {Cardinality(S), Cardinality(S) + 1} BY <1>2, FS_AddElement
<1>5. QED BY <1>3, <1>4

\* The allowance holds after a step that leaves the account alone, and what is switched.
LEMMA StillAllowed ==
    ASSUME SlotsInv, account' = account, switch'.pc = "enforce" <=> switch.pc = "enforce",
           Active' \in SUBSET Active
    PROVE  AllowanceFits'
<1>1. Active \in SUBSET Rows BY DEF Active
<1>2. Cardinality(Active') <= Cardinality(Active) /\ Cardinality(Active) \in Nat /\ Cardinality(Active') \in Nat
  BY <1>1, FewerRows
<1>3. QED BY <1>2 DEF SlotsInv, AllowanceFits, SlotsRespected, SlotsTypeOK, Accounts

\* A registration leaves the tunnels alone: a token was made out to installation k, for
\* row d as it is now, which another installation may have had.
LEMMA Registered ==
    ASSUME SlotsInv, NEW k \in Keys, NEW d \in Rows, NEW now \in DeviceRows,
           row' = [row EXCEPT ![d] = now], cred' = Holding(k, d, now.version),
           UNCHANGED tunnelVars, account' = account,
           now.status # "none", now.key = k,
           \/ row[d].status = "none"
           \/ now.version > row[d].version
           \/ now.version = row[d].version /\ row[d].key = k,
           AllowanceFits'
    PROVE  SlotsInv'
<1> DEFINE c == [row |-> d, version |-> now.version]
<1>1. now.version \in Nat /\ c \in Credentials BY DEF DeviceRows, Credentials
<1>2. cred' = [cred EXCEPT ![k] = c] BY DEF Holding
<1>3. c.row = d /\ c.version = now.version OBVIOUS
<1> HIDE DEF c
<1>4. SlotsTypeOK'
  BY <1>1, <1>2 DEF SlotsInv, SlotsTypeOK, tunnelVars
<1>5. \A m \in Keys : CredFits(m)'
  <2> SUFFICES ASSUME NEW m \in Keys, NEW e \in Rows, cred'[m].row = e
               PROVE  /\ row'[e].status # "none" /\ cred'[m].version <= row'[e].version
                      /\ cred'[m].version = row'[e].version => row'[e].key = m
    BY DEF CredFits
  <2>1. row \in [Rows -> DeviceRows] /\ cred \in [Keys -> Credentials] BY DEF SlotsInv, SlotsTypeOK
  <2>2. row'[e] = IF e = d THEN now ELSE row[e] BY <2>1
  <2>3. cred'[m] = IF m = k THEN c ELSE cred[m] BY <1>2, <2>1
  <2>4. CASE m = k BY <1>1, <1>3, <2>2, <2>3, <2>4
  <2>5. CASE m # k
    <3>1. /\ row[e].status # "none" /\ cred[m].version <= row[e].version
          /\ cred[m].version = row[e].version => row[e].key = m
      BY <2>3, <2>5 DEF SlotsInv, CredFits
    <3>2. cred[m].version \in Nat /\ row[e].version \in Nat BY <2>1 DEF Credentials, DeviceRows
    <3>3. CASE e # d BY <2>2, <2>3, <2>5, <3>1, <3>3
    <3>4. CASE e = d BY <1>1, <2>2, <2>3, <2>5, <3>1, <3>2, <3>4
    <3>5. QED BY <3>3, <3>4
  <2>6. QED BY <2>4, <2>5
<1>6. \A m \in Keys : PeerFits(m)' BY DEF SlotsInv, PeerFits, tunnelVars
<1>7. QED BY <1>4, <1>5, <1>6 DEF SlotsInv

-----------------------------------------------------------------------------
\* Steps that make no token out: rows keep their installation and get no older, and the
\* addresses of the peers stay leased to them.
LEMMA RowsEnd ==
    ASSUME SlotsInv, cred' = cred, row' \in [Rows -> DeviceRows],
           \A d \in Rows : /\ row'[d].version >= row[d].version /\ row'[d].key = row[d].key
                           /\ row[d].status # "none" => row'[d].status # "none",
           session' \in [Rows -> Sessions], lease' \in [Addrs -> Rows \union {None}],
           peer' \in [Keys -> Addrs \union {None}], account' \in Accounts,
           AllowanceFits', \A k \in Keys : PeerFits(k)'
    PROVE  SlotsInv'
<1>1. SlotsTypeOK' BY DEF SlotsInv, SlotsTypeOK
<1>2. \A k \in Keys : CredFits(k)'
  <2> SUFFICES ASSUME NEW k \in Keys, NEW d \in Rows, cred[k].row = d
               PROVE  /\ row'[d].status # "none" /\ cred[k].version <= row'[d].version
                      /\ cred[k].version = row'[d].version => row'[d].key = k
    BY DEF CredFits
  <2>1. row \in [Rows -> DeviceRows] /\ cred \in [Keys -> Credentials] BY DEF SlotsInv, SlotsTypeOK
  <2>2. cred[k].version \in Nat /\ row[d].version \in Nat /\ row'[d].version \in Nat
    BY <2>1 DEF Credentials, DeviceRows
  <2>3. /\ row[d].status # "none" /\ cred[k].version <= row[d].version
        /\ cred[k].version = row[d].version => row[d].key = k
    BY DEF SlotsInv, CredFits
  <2>4. QED BY <2>2, <2>3
<1>3. QED BY <1>1, <1>2 DEF SlotsInv

\* closeSession keeps the key of a session.
LEMMA ClosedFits ==
    ASSUME SlotsInv, NEW D, session' = ClosedIn(D)
    PROVE  session' \in [Rows -> Sessions] /\ \A d \in Rows : session'[d].key = session[d].key
<1>1. \A s \in Sessions : /\ [s EXCEPT !.state = "closing"] \in Sessions
                          /\ [s EXCEPT !.state = "closing"].key = s.key
  BY DEF Sessions
<1>2. session \in [Rows -> Sessions] BY DEF SlotsInv, SlotsTypeOK
<1>3. \A d \in Rows : session'[d] = session[d] \/ session'[d] = [session[d] EXCEPT !.state = "closing"]
  BY DEF ClosedIn
<1>4. \A d \in Rows : session'[d] \in Sessions /\ session'[d].key = session[d].key BY <1>1, <1>2, <1>3, ZenonT(30)
<1>5. session' = [d \in Rows |-> session'[d]] BY DEF ClosedIn
<1>6. QED BY <1>4, <1>5

\* Sessions are closed, and nothing else happens to rows, tokens, leases and peers.
LEMMA OnlyCloses ==
    ASSUME SlotsInv, NEW D, session' = ClosedIn(D), UNCHANGED <<row, cred, lease, peer, account, orphaned>>,
           switch'.pc = "enforce" <=> switch.pc = "enforce"
    PROVE  SlotsInv'
<1>1. session' \in [Rows -> Sessions] /\ \A d \in Rows : session'[d].key = session[d].key BY ClosedFits
<1>2. Active' \in SUBSET Active BY DEF Active
<1>3. AllowanceFits' BY <1>2, StillAllowed
<1>4. \A k \in Keys : PeerFits(k)' BY <1>1 DEF SlotsInv, PeerFits
<1>5. \A d \in Rows : row[d].version \in Nat BY DEF SlotsInv, SlotsTypeOK, DeviceRows
<1>6. QED BY <1>1, <1>3, <1>4, <1>5, RowsEnd DEF SlotsInv, SlotsTypeOK

\* Rows are revoked with their sessions, and the addresses stay leased.
LEMMA RevokedFits ==
    ASSUME SlotsInv, NEW D, RevokeRows(D), account' = account, AllowanceFits'
    PROVE  SlotsInv'
<1>1. session' \in [Rows -> Sessions] /\ \A d \in Rows : session'[d].key = session[d].key
  BY ClosedFits DEF RevokeRows
<1>2. \A r \in DeviceRows :
          LET s == [r EXCEPT !.status = "revoked", !.version = r.version + 1]
          IN  s \in DeviceRows /\ s.key = r.key /\ s.version >= r.version /\ s.status # "none"
  <2> SUFFICES ASSUME NEW r \in DeviceRows
               PROVE  LET s == [r EXCEPT !.status = "revoked", !.version = r.version + 1]
                      IN  s \in DeviceRows /\ s.key = r.key /\ s.version >= r.version /\ s.status # "none"
    OBVIOUS
  <2> DEFINE s == [r EXCEPT !.status = "revoked", !.version = r.version + 1]
  <2>1. r.version \in Nat /\ r.key \in Keys \union {None} /\ DOMAIN r = {"status", "key", "version"}
    BY DEF DeviceRows
  <2>2. \A v \in Nat : LET q == [r EXCEPT !.status = "revoked", !.version = v]
                       IN  q \in DeviceRows /\ q.key = r.key /\ q.version = v /\ q.status = "revoked"
    BY DEF DeviceRows
  <2>3. r.version + 1 \in Nat BY <2>1
  <2>4. s \in DeviceRows /\ s.key = r.key /\ s.version = r.version + 1 /\ s.status = "revoked" BY <2>2, <2>3
  <2> HIDE DEF s
  <2>5. s.version >= r.version BY <2>1, <2>4
  <2>6. QED BY <2>4, <2>5 DEF s
<1>3. row \in [Rows -> DeviceRows] /\ \A d \in Rows : row[d].version \in Nat
  BY DEF SlotsInv, SlotsTypeOK, DeviceRows
<1>4. \A d \in Rows : \/ row'[d] = row[d]
                      \/ row'[d] = [row[d] EXCEPT !.status = "revoked", !.version = row[d].version + 1]
  BY DEF RevokeRows
<1>5. \A d \in Rows : /\ row'[d] \in DeviceRows /\ row'[d].version >= row[d].version
                      /\ row'[d].key = row[d].key /\ (row[d].status # "none" => row'[d].status # "none")
  <2> SUFFICES ASSUME NEW d \in Rows
               PROVE  /\ row'[d] \in DeviceRows /\ row'[d].version >= row[d].version
                      /\ row'[d].key = row[d].key /\ (row[d].status # "none" => row'[d].status # "none")
    OBVIOUS
  <2>1. row[d] \in DeviceRows /\ row[d].version \in Nat BY <1>3
  <2>2. CASE row'[d] = row[d] BY <2>1, <2>2
  <2>3. CASE row'[d] = [row[d] EXCEPT !.status = "revoked", !.version = row[d].version + 1]
    BY <1>2, <2>1, <2>3
  <2>4. QED BY <1>4, <2>2, <2>3
<1>6. row' \in [Rows -> DeviceRows]
  <2>1. row' = [d \in Rows |-> row'[d]] BY DEF RevokeRows
  <2>2. QED BY <1>5, <2>1
<1>7. \A k \in Keys : PeerFits(k)' BY <1>1 DEF SlotsInv, PeerFits, RevokeRows, KeptForNode
<1>8. /\ cred' = cred /\ lease' \in [Addrs -> Rows \union {None}]
      /\ peer' \in [Keys -> Addrs \union {None}] /\ account' \in Accounts
  BY DEF SlotsInv, SlotsTypeOK, RevokeRows, KeptForNode
<1>9. QED BY <1>1, <1>5, <1>6, <1>7, <1>8, RowsEnd

\* Rows are deleted with their sessions and leases: a peer that loses its lease that way
\* is known for an orphan.
LEMMA DeletedFits ==
    ASSUME SlotsInv, NEW D, DeleteRows(D), switch'.pc = "enforce" <=> switch.pc = "enforce"
    PROVE  SlotsInv'
<1>1. row \in [Rows -> DeviceRows] /\ session \in [Rows -> Sessions] /\ NoSession \in Sessions
  BY DEF SlotsInv, SlotsTypeOK, NoSession, Sessions
<1>2. \A r \in DeviceRows :
          LET s == [r EXCEPT !.status = "deleted"]
          IN  s \in DeviceRows /\ s.key = r.key /\ s.version = r.version /\ s.status = "deleted" /\ r.version \in Nat
  BY DEF DeviceRows
<1>3. \A d \in Rows : row'[d] = row[d] \/ row'[d] = [row[d] EXCEPT !.status = "deleted"] BY DEF DeleteRows
<1>4. \A d \in Rows : /\ row'[d] \in DeviceRows /\ row'[d].version >= row[d].version
                      /\ row'[d].key = row[d].key /\ (row[d].status # "none" => row'[d].status # "none")
                      /\ row'[d].status = "active" => row[d].status = "active"
  <2> SUFFICES ASSUME NEW d \in Rows
               PROVE  /\ row'[d] \in DeviceRows /\ row'[d].version >= row[d].version
                      /\ row'[d].key = row[d].key /\ (row[d].status # "none" => row'[d].status # "none")
                      /\ row'[d].status = "active" => row[d].status = "active"
    OBVIOUS
  <2>1. row[d] \in DeviceRows /\ row[d].version \in Nat BY <1>1, <1>2
  <2>2. CASE row'[d] = row[d] BY <2>1, <2>2
  <2>3. CASE row'[d] = [row[d] EXCEPT !.status = "deleted"]
    <3>1. /\ row'[d] \in DeviceRows /\ row'[d].key = row[d].key /\ row'[d].version = row[d].version
          /\ row'[d].status = "deleted"
      BY <1>2, <2>1, <2>3
    <3>2. QED BY <2>1, <3>1
  <2>4. QED BY <1>3, <2>2, <2>3
<1>5. row' \in [Rows -> DeviceRows]
  <2>1. row' = [d \in Rows |-> row'[d]] BY DEF DeleteRows
  <2>2. QED BY <1>4, <2>1
<1>6. session' \in [Rows -> Sessions] BY <1>1 DEF DeleteRows
<1>7. /\ cred' = cred /\ lease' \in [Addrs -> Rows \union {None}]
      /\ peer' \in [Keys -> Addrs \union {None}] /\ account' \in Accounts /\ account' = account
  BY DEF SlotsInv, SlotsTypeOK, DeleteRows
<1>8. Active' \in SUBSET Active BY <1>4 DEF Active
<1>9. AllowanceFits' BY <1>7, <1>8, StillAllowed
<1>10. \A k \in Keys : PeerFits(k)'
  <2> SUFFICES ASSUME NEW k \in Keys, peer'[k] # None, k \notin orphaned'
               PROVE  lease'[peer'[k]] \in Rows /\ session'[lease'[peer'[k]]].key = k
    BY DEF PeerFits
  <2>1. /\ peer' = peer /\ k \notin orphaned /\ lease[peer[k]] \notin D
    BY DEF DeleteRows
  <2>2. peer[k] \in Addrs /\ lease[peer[k]] \in Rows /\ session[lease[peer[k]]].key = k
    BY <2>1 DEF SlotsInv, SlotsTypeOK, PeerFits
  <2>3. lease'[peer[k]] = lease[peer[k]] /\ session'[lease[peer[k]]] = session[lease[peer[k]]]
    BY <2>1, <2>2 DEF DeleteRows
  <2>4. QED BY <2>1, <2>2, <2>3
<1>11. QED BY <1>4, <1>5, <1>6, <1>7, <1>9, <1>10, RowsEnd

-----------------------------------------------------------------------------
\* An installation that is let in is the one whose row it names.
LEMMA LetIn ==
    ASSUME SlotsInv, NEW k \in Keys, Authenticated(k)
    PROVE  /\ cred[k].row \in Rows /\ cred[k].row \in Active /\ row[cred[k].row].key = k
           /\ account.status = "ACTIVE"
<1>1. PICK d \in Active : cred[k] = [row |-> d, version |-> row[d].version] /\ account.status = "ACTIVE"
  BY DEF Authenticated
<1>2. d \in Rows /\ cred[k].row = d /\ cred[k].version = row[d].version BY <1>1 DEF Active
<1>3. QED BY <1>1, <1>2 DEF SlotsInv, CredFits

\* What the account is in the middle of.
SwitchOK ==
    switch \in [pc : {"idle", "enforce", "delete_row", "delete_all", "DISABLED", "BLOCKED", "DELETED"},
                row : Rows \union {None}]

\* Every step keeps what is known of the switches and sign-ins that the slots depend on.
LEMMA SwitchStep == ASSUME SlotsInv, SwitchOK, [SlotsNext]_slotVars PROVE SwitchOK'
<1>1. CASE UNCHANGED switch BY <1>1 DEF SwitchOK
<1>2. ASSUME NEW k \in Keys, BeginSignOut(k) PROVE SwitchOK'
  <2>1. cred[k].row \in Rows BY <1>2, LetIn DEF BeginSignOut
  <2>2. QED BY <1>2, <2>1 DEF BeginSignOut, SwitchOK
<1>3. CASE FinishSignOut BY <1>3 DEF FinishSignOut, SwitchOK
<1>4. ASSUME NEW st \in {"DISABLED", "BLOCKED", "DELETED"}, CloseAccount(st) PROVE SwitchOK'
  BY <1>4 DEF CloseAccount, SwitchOK
<1>5. CASE PlanEnds \/ EnforceAllowance \/ EraseAccount
  BY <1>5 DEF PlanEnds, EnforceAllowance, EraseAccount, SwitchOK
<1>6. CASE SetStatus BY <1>6 DEF SetStatus, SwitchOK
<1>7. QED
  BY <1>1, <1>2, <1>3, <1>4, <1>5, <1>6
  DEF slotVars, SlotsNext, RegisterAgain, TakeTwin, RegisterNew, ConnectDevice, DisconnectDevice, NodeRemoves,
      NodeReports, RemoveDevice, MonitorCloses, PlanBegins, SignOutEverywhere, PurgeDevices, ReopenAccount

\* Every step of the slots keeps the invariant, and enforcing the allowance ends the younger
\* devices before the older.
LEMMA SlotsStep ==
    ASSUME SlotsInv, SwitchOK, [SlotsNext]_slotVars
    PROVE  /\ SlotsInv'
           /\ EnforceAllowance => \A d, e \in Active : e < d /\ row'[d].status = "active" => row'[e].status = "active"
<1> DEFINE Kept == EnforceAllowance =>
                     \A d, e \in Active : e < d /\ row'[d].status = "active" => row'[e].status = "active"
<1>0. /\ row \in [Rows -> DeviceRows] /\ cred \in [Keys -> Credentials]
      /\ session \in [Rows -> Sessions] /\ lease \in [Addrs -> Rows \union {None}]
      /\ peer \in [Keys -> Addrs \union {None}] /\ account \in Accounts
  BY DEF SlotsInv, SlotsTypeOK
<1>t. \A d \in Rows : row[d].version \in Nat BY <1>0 DEF DeviceRows
<1>1. ASSUME NEW k \in Keys, RegisterAgain(k) PROVE SlotsInv'
  <2>1. PICK d \in RowOf(k) :
           /\ row[d].status = "revoked" => HasSlot
           /\ LET v == IF row[d].status = "active" THEN row[d].version ELSE BumpedVersion(d)
              IN  /\ row' = [row EXCEPT ![d].status = "active", ![d].version = v]
                  /\ cred' = Holding(k, d, v)
    BY <1>1 DEF RegisterAgain
  <2>2. /\ d \in Rows /\ row[d].key = k /\ row[d].status \in {"active", "revoked"}
        /\ UNCHANGED tunnelVars /\ UNCHANGED <<account, switch>>
    BY <1>1 DEF RegisterAgain, RowOf, Stored
  <2>3. PICK v \in Nat : v = (IF row[d].status = "active" THEN row[d].version ELSE BumpedVersion(d))
    BY <1>t, <2>2 DEF BumpedVersion
  <2> DEFINE n == [row[d] EXCEPT !.status = "active", !.version = v]
  <2>4. /\ row' = [row EXCEPT ![d].status = "active", ![d].version = v] /\ cred' = Holding(k, d, v)
    BY <2>1, <2>3
  <2>5. n \in DeviceRows /\ n.key = k /\ n.version = v /\ n.status = "active"
    BY <1>0, <2>2 DEF DeviceRows
  <2>6. row' = [row EXCEPT ![d] = n] BY <1>0, <2>2, <2>4
  <2> HIDE DEF n
  <2>7. n.version > row[d].version \/ (n.version = row[d].version /\ row[d].key = k)
    BY <1>t, <2>2, <2>3, <2>5 DEF BumpedVersion
  <2>8. AllowanceFits'
    <3>1. CASE row[d].status = "active"
      <4>1. Active' \in SUBSET Active BY <1>0, <2>6, <3>1 DEF Active
      <4>2. QED BY <2>2, <4>1, StillAllowed
    <3>2. CASE row[d].status # "active"
      <4>1. HasSlot BY <2>1, <2>2, <3>2
      <4>2. Active \in SUBSET Rows /\ account.limit \in Nat BY <1>0 DEF Active, Accounts
      <4>3. Active' = Active \union {d} BY <1>0, <2>2, <2>5, <2>6 DEF Active
      <4>4. Cardinality(Active') <= account.limit BY <2>2, <4>1, <4>2, <4>3, OneMoreRow DEF HasSlot
      <4>5. QED BY <2>2, <4>4 DEF SlotsInv, AllowanceFits, SlotsRespected
    <3>3. QED BY <3>1, <3>2
  <2>9. QED BY <2>2, <2>4, <2>5, <2>6, <2>7, <2>8, Registered
<1>2. ASSUME NEW k \in Keys, TakeTwin(k) PROVE SlotsInv'
  <2>1. PICK d \in Twins(k) :
           /\ row' = [row EXCEPT ![d].key = k, ![d].version = BumpedVersion(d)]
           /\ cred' = Holding(k, d, BumpedVersion(d))
           /\ UNCHANGED tunnelVars /\ UNCHANGED <<account, switch>>
    BY <1>2 DEF TakeTwin
  <2>2. d \in Rows /\ d \in Active /\ row[d].status = "active" BY <2>1 DEF Twins, Active
  <2>3. PICK v \in Nat : v = BumpedVersion(d) /\ v > row[d].version BY <1>t, <2>2 DEF BumpedVersion
  <2> DEFINE n == [row[d] EXCEPT !.key = k, !.version = v]
  <2>4. n \in DeviceRows /\ n.key = k /\ n.version = v /\ n.status = "active"
    BY <1>0, <2>2 DEF DeviceRows
  <2>5. row' = [row EXCEPT ![d] = n] /\ cred' = Holding(k, d, v) BY <1>0, <2>1, <2>2, <2>3
  <2> HIDE DEF n
  <2>6. Active' \in SUBSET Active BY <1>0, <2>2, <2>5 DEF Active
  <2>7. AllowanceFits' BY <2>1, <2>6, StillAllowed
  <2>8. QED BY <2>1, <2>2, <2>3, <2>4, <2>5, <2>7, Registered, ZenonT(30)
<1>3. ASSUME NEW k \in Keys, RegisterNew(k) PROVE SlotsInv'
  <2>1. PICK d \in NewRow :
           /\ row' = [row EXCEPT ![d] = [status |-> "active", key |-> k, version |-> 0]]
           /\ cred' = Holding(k, d, 0) /\ HasSlot
           /\ UNCHANGED tunnelVars /\ UNCHANGED <<account, switch>>
    BY <1>3 DEF RegisterNew
  <2>2. d \in Rows /\ row[d].status = "none" BY <2>1 DEF NewRow, Lowest
  <2> DEFINE n == [status |-> "active", key |-> k, version |-> 0]
  <2>3. n \in DeviceRows /\ n.key = k /\ n.version = 0 /\ n.status = "active" BY DEF DeviceRows
  <2>4. row' = [row EXCEPT ![d] = n] BY <2>1
  <2> HIDE DEF n
  <2>5. Active \in SUBSET Rows /\ account.limit \in Nat BY <1>0 DEF Active, Accounts
  <2>6. Active' = Active \union {d} BY <1>0, <2>2, <2>3, <2>4 DEF Active
  <2>7. Cardinality(Active') <= account.limit BY <2>1, <2>2, <2>5, <2>6, OneMoreRow DEF HasSlot
  <2>8. AllowanceFits' BY <2>1, <2>7 DEF SlotsInv, AllowanceFits, SlotsRespected
  <2>9. QED BY <2>1, <2>2, <2>3, <2>4, <2>8, Registered
<1>4. ASSUME NEW k \in Keys, ConnectDevice(k) PROVE SlotsInv'
  <2>1. PICK d \in Rows : d = cred[k].row BY <1>4, LetIn DEF ConnectDevice
  <2>2. PICK x \in FreeAddr : lease' = [lease EXCEPT ![x] = d] /\ peer' = [peer EXCEPT ![k] = x]
    BY <1>4, <2>1 DEF ConnectDevice
  <2> DEFINE s == [state |-> "open", key |-> k]
  <2>3. /\ session[d] = NoSession /\ session' = [session EXCEPT ![d] = s]
        /\ orphaned' = orphaned \ {k} /\ UNCHANGED <<row, cred, account, switch>>
    BY <1>4, <2>1 DEF ConnectDevice
  <2>4. s \in Sessions /\ s.key = k BY DEF Sessions
  <2> HIDE DEF s
  <2>5. x \in Addrs /\ lease[x] = None BY <2>2 DEF FreeAddr, Lowest
  <2>6. /\ session' \in [Rows -> Sessions] /\ lease' \in [Addrs -> Rows \union {None}]
        /\ peer' \in [Keys -> Addrs \union {None}]
    BY <1>0, <2>2, <2>3, <2>4, <2>5
  <2>7. \A m \in Keys : PeerFits(m)'
    <3> SUFFICES ASSUME NEW m \in Keys, peer'[m] # None, m \notin orphaned'
                 PROVE  lease'[peer'[m]] \in Rows /\ session'[lease'[peer'[m]]].key = m
      BY DEF PeerFits
    <3>1. CASE m = k
      <4>1. peer'[k] = x /\ lease'[x] = d /\ session'[d] = s BY <1>0, <2>2, <2>3, <2>5
      <4>2. QED BY <2>4, <3>1, <4>1
    <3>2. CASE m # k
      <4>1. peer'[m] = peer[m] /\ m \notin orphaned BY <1>0, <2>2, <2>3, <3>2
      <4>2. peer[m] \in Addrs /\ lease[peer[m]] \in Rows /\ session[lease[peer[m]]].key = m
        BY <1>0, <4>1 DEF SlotsInv, PeerFits
      <4>3. peer[m] # x BY <2>5, <4>2, SlotsAssumption DEF SlotsAssumption, Rows
      <4>4. lease[peer[m]] # d BY <2>3, <4>2, SlotsAssumption DEF SlotsAssumption, NoSession
      <4>5. lease'[peer[m]] = lease[peer[m]] /\ session'[lease[peer[m]]] = session[lease[peer[m]]]
        BY <1>0, <2>2, <2>3, <4>2, <4>3, <4>4
      <4>6. QED BY <4>1, <4>2, <4>5
    <3>3. QED BY <3>1, <3>2
  <2>8. Active' \in SUBSET Active BY <2>3 DEF Active
  <2>9. AllowanceFits' BY <2>3, <2>8, StillAllowed
  <2>10. QED BY <1>0, <1>t, <2>3, <2>6, <2>7, <2>9, RowsEnd
<1>5. ASSUME NEW k \in Keys, NodeRemoves(k) PROVE SlotsInv'
  <2> DEFINE D == {d \in Rows : session[d] = [state |-> "closing", key |-> k]}
  <2>1. /\ peer' = [peer EXCEPT ![k] = None] /\ orphaned' = orphaned \ {k}
        /\ session' = [d \in Rows |-> IF d \in D THEN NoSession ELSE session[d]]
        /\ lease' = [x \in Addrs |-> IF lease[x] \in D THEN None ELSE lease[x]]
        /\ UNCHANGED <<row, cred, account, switch>>
    BY <1>5 DEF NodeRemoves
  <2>2. \A d \in D : session[d].key = k OBVIOUS
  <2> HIDE DEF D
  <2>3. NoSession \in Sessions BY DEF NoSession, Sessions
  <2>4. /\ session' \in [Rows -> Sessions] /\ lease' \in [Addrs -> Rows \union {None}]
        /\ peer' \in [Keys -> Addrs \union {None}]
    BY <1>0, <2>1, <2>3
  <2>5. \A m \in Keys : PeerFits(m)'
    <3> SUFFICES ASSUME NEW m \in Keys, peer'[m] # None, m \notin orphaned'
                 PROVE  lease'[peer'[m]] \in Rows /\ session'[lease'[peer'[m]]].key = m
      BY DEF PeerFits
    <3>1. m # k /\ peer'[m] = peer[m] /\ m \notin orphaned BY <1>0, <2>1
    <3>2. peer[m] \in Addrs /\ lease[peer[m]] \in Rows /\ session[lease[peer[m]]].key = m
      BY <1>0, <3>1 DEF SlotsInv, PeerFits
    <3>3. lease[peer[m]] \notin D BY <2>2, <3>1, <3>2
    <3>4. lease'[peer[m]] = lease[peer[m]] /\ session'[lease[peer[m]]] = session[lease[peer[m]]]
      BY <2>1, <3>2, <3>3
    <3>5. QED BY <3>1, <3>2, <3>4
  <2>6. Active' \in SUBSET Active BY <2>1 DEF Active
  <2>7. AllowanceFits' BY <2>1, <2>6, StillAllowed
  <2>8. QED BY <1>0, <1>t, <2>1, <2>4, <2>5, <2>7, RowsEnd
<1>6. ASSUME NEW k \in Keys, NodeReports(k) PROVE SlotsInv'
  <2>1. /\ peer' = [peer EXCEPT ![k] = None] /\ orphaned' = orphaned \ {k}
        /\ UNCHANGED <<row, cred, session, lease, account, switch>>
    BY <1>6 DEF NodeReports
  <2>2. peer' \in [Keys -> Addrs \union {None}] BY <1>0, <2>1
  <2>3. \A m \in Keys : PeerFits(m)' BY <1>0, <2>1 DEF SlotsInv, PeerFits
  <2>4. Active' \in SUBSET Active BY <2>1 DEF Active
  <2>5. AllowanceFits' BY <2>1, <2>4, StillAllowed
  <2>6. QED BY <1>0, <1>t, <2>1, <2>2, <2>3, <2>5, RowsEnd
<1>7. ASSUME NEW k \in Keys, DisconnectDevice(k) PROVE SlotsInv'
  BY <1>7, OnlyCloses DEF DisconnectDevice
<1>8. ASSUME NEW k \in Keys, BeginSignOut(k) PROVE SlotsInv'
  BY <1>8, OnlyCloses DEF BeginSignOut
<1>9. ASSUME NEW d \in Rows, MonitorCloses(d) PROVE SlotsInv'
  BY <1>9, OnlyCloses DEF MonitorCloses
<1>10. ASSUME NEW st \in {"DISABLED", "BLOCKED", "DELETED"}, CloseAccount(st) PROVE SlotsInv'
  <2>1. /\ session' = ClosedIn(Rows) /\ switch.pc = "idle" /\ switch' = [switch EXCEPT !.pc = st]
        /\ UNCHANGED <<row, cred, lease, peer, account, orphaned>>
    BY <1>10 DEF CloseAccount
  <2>2. switch'.pc # "enforce" BY <2>1 DEF SwitchOK
  <2>3. QED BY <2>1, <2>2, OnlyCloses
<1>11. ASSUME NEW d \in Rows, RemoveDevice(d) PROVE SlotsInv'
  <2>1. RevokeRows({d}) /\ UNCHANGED <<account, switch>> BY <1>11 DEF RemoveDevice
  <2>2. Active' \in SUBSET Active BY <1>0, <2>1 DEF RevokeRows, Active, DeviceRows
  <2>3. AllowanceFits' BY <2>1, <2>2, StillAllowed
  <2>4. QED BY <2>1, <2>3, RevokedFits
<1>12. ASSUME UNCHANGED <<row, cred, session, lease, peer, orphaned>>, account' \in Accounts, AllowanceFits'
       PROVE  SlotsInv'
  <2>1. \A k \in Keys : PeerFits(k)' BY <1>12 DEF SlotsInv, PeerFits
  <2>2. QED BY <1>0, <1>t, <1>12, <2>1, RowsEnd
<1>13. ASSUME PlanEnds PROVE SlotsInv'
  <2>1. /\ account' = [account EXCEPT !.paid = FALSE, !.limit = 1] /\ switch.pc = "idle"
        /\ switch' = [switch EXCEPT !.pc = "enforce"] /\ UNCHANGED <<row, cred>> /\ UNCHANGED tunnelVars
    BY <1>13 DEF PlanEnds
  <2>2. account' \in Accounts /\ account'.limit = 1 /\ account'.paid = FALSE BY <1>0, <2>1 DEF Accounts
  <2>3. switch'.pc = "enforce" BY <2>1 DEF SwitchOK
  <2>4. AllowanceFits' BY <2>2, <2>3 DEF AllowanceFits, SlotsRespected
  <2>5. QED BY <1>12, <2>1, <2>2, <2>4 DEF tunnelVars
<1>14. ASSUME EnforceAllowance PROVE SlotsInv' /\ Kept
  <2>1. /\ RevokeRows(AllButFirst(account.limit)) /\ UNCHANGED account
    BY <1>14 DEF EnforceAllowance
  <2> DEFINE n == account.limit
             Left == {d \in Active : ~(Cardinality({e \in Active : e < d}) >= n)}
  <2>2. \A d \in Rows : row'[d].status = "active" => d \in Left
    BY <1>0, <2>1 DEF RevokeRows, AllButFirst, Active, DeviceRows
  <2>3. Active' \in SUBSET Left BY <2>2 DEF Active
  <2>4. n \in Nat /\ MaxRows \in Nat /\ Active \in SUBSET (1 .. MaxRows) /\ Left \in SUBSET Rows
    BY <1>0, SlotsAssumption DEF Accounts, SlotsAssumption, Active, Rows
  <2>5. Cardinality(Left) <= n BY <2>4, FirstFew
  <2>6. Cardinality(Active') <= Cardinality(Left) /\ Cardinality(Left) \in Nat /\ Cardinality(Active') \in Nat
    BY <2>3, <2>4, FewerRows
  <2>7. AllowanceFits'
    <3> DEFINE p == Cardinality(Active')
               q == Cardinality(Left)
    <3>1. p <= q /\ q <= n /\ p \in Nat /\ q \in Nat /\ n \in Nat BY <2>4, <2>5, <2>6
    <3> HIDE DEF p, q
    <3>2. p <= n BY <3>1
    <3>3. Cardinality(Active') <= account.limit BY <3>2 DEF p
    <3> HIDE DEF n, Left
    <3>4. QED BY <2>1, <3>3 DEF SlotsInv, AllowanceFits, SlotsRespected
  <2>8. SlotsInv' BY <2>1, <2>7, RevokedFits
  <2>9. ASSUME NEW d \in Active, NEW e \in Active, e < d, row'[d].status = "active"
        PROVE  row'[e].status = "active"
    <3> DEFINE B(x) == {y \in Active : y < x}
    <3>1. /\ d \in Rows /\ e \in Rows /\ d \in Nat /\ e \in Nat /\ \A y \in Active : y \in Nat
      BY SlotsAssumption DEF Active, Rows, SlotsAssumption
    <3>2. ~(Cardinality(B(d)) >= n) BY <2>2, <2>9, <3>1
    <3>3. B(e) \in SUBSET B(d)
      <4>1. SUFFICES ASSUME NEW y \in B(e) PROVE y \in B(d) OBVIOUS
      <4>2. y \in Active /\ y \in Nat /\ y < e BY <3>1
      <4>3. y < d BY <2>9, <3>1, <4>2
      <4>4. QED BY <4>2, <4>3
    <3>4. B(d) \in SUBSET Rows BY DEF Active
    <3> HIDE DEF B
    <3>5. Cardinality(B(e)) <= Cardinality(B(d)) /\ Cardinality(B(d)) \in Nat /\ Cardinality(B(e)) \in Nat
      BY <3>3, <3>4, FewerRows
    <3>6. ~(Cardinality(B(e)) >= n) BY <2>4, <3>2, <3>5
    <3>7. e \notin AllButFirst(account.limit) BY <3>6 DEF B, AllButFirst
    <3>8. row'[e] = row[e] BY <2>1, <3>1, <3>7 DEF RevokeRows
    <3>9. QED BY <3>8 DEF Active
  <2>10. QED BY <2>8, <2>9
<1>15. ASSUME PlanBegins PROVE SlotsInv'
  <2>1. /\ account' = [account EXCEPT !.paid = TRUE, !.limit = PlanLimit] /\ ~account.paid
        /\ switch' = switch /\ UNCHANGED <<row, cred>> /\ UNCHANGED tunnelVars
    BY <1>15 DEF PlanBegins
  <2>2. account' \in Accounts /\ account'.limit = PlanLimit /\ account'.paid = TRUE
    BY <1>0, <2>1, SlotsAssumption DEF Accounts, SlotsAssumption
  <2>3. Active' = Active /\ account.limit = 1 BY <2>1 DEF Active, SlotsInv, AllowanceFits
  <2>4. Cardinality(Active) \in Nat BY FewerRows DEF Active
  <2>5. 1 <= PlanLimit /\ PlanLimit \in Nat BY SlotsAssumption DEF SlotsAssumption
  <2>6. AllowanceFits' BY <2>1, <2>2, <2>3, <2>4, <2>5 DEF SlotsInv, AllowanceFits, SlotsRespected
  <2>7. QED BY <1>12, <2>1, <2>2, <2>6 DEF tunnelVars
<1>16. ASSUME SignOutEverywhere \/ PurgeDevices PROVE SlotsInv'
  BY <1>16, DeletedFits DEF SignOutEverywhere, PurgeDevices
<1>17. ASSUME FinishSignOut PROVE SlotsInv'
  <2>1. DeleteRows({switch.row}) /\ switch.pc = "delete_row" /\ switch' = [pc |-> "idle", row |-> None]
    BY <1>17 DEF FinishSignOut
  <2>2. QED BY <2>1, DeletedFits
<1>18. ASSUME EraseAccount PROVE SlotsInv'
  <2>1. DeleteRows(Stored) /\ switch.pc = "delete_all" /\ switch' = [switch EXCEPT !.pc = "idle"]
    BY <1>18 DEF EraseAccount
  <2>2. switch'.pc # "enforce" BY <2>1 DEF SwitchOK
  <2>3. QED BY <2>1, <2>2, DeletedFits
<1>19. ASSUME UNCHANGED <<row, cred>>, UNCHANGED tunnelVars, NEW st \in {"ACTIVE", "DISABLED", "BLOCKED", "DELETED"},
              account' = [account EXCEPT !.status = st], switch'.pc = "enforce" <=> switch.pc = "enforce"
       PROVE  SlotsInv'
  <2>1. /\ account' \in Accounts /\ account'.limit = account.limit /\ account'.paid = account.paid
    BY <1>0, <1>19 DEF Accounts
  <2>2. Active' = Active BY <1>19 DEF Active
  <2>3. AllowanceFits' BY <1>19, <2>1, <2>2 DEF SlotsInv, AllowanceFits, SlotsRespected
  <2>4. QED BY <1>12, <1>19, <2>1, <2>3 DEF tunnelVars
<1>20. ASSUME SetStatus PROVE SlotsInv'
  <2>1. PICK st \in {"DISABLED", "BLOCKED", "DELETED"} : switch.pc = st BY <1>20 DEF SetStatus
  <2>2. /\ account' = [account EXCEPT !.status = st] /\ UNCHANGED <<row, cred>> /\ UNCHANGED tunnelVars
        /\ switch' = [switch EXCEPT !.pc = IF @ = "DELETED" THEN "delete_all" ELSE "idle"]
    BY <1>20, <2>1 DEF SetStatus
  <2>3. switch.pc # "enforce" /\ switch'.pc # "enforce" BY <2>1, <2>2 DEF SwitchOK
  <2>4. QED BY <1>19, <2>2, <2>3
<1>21. ASSUME ReopenAccount PROVE SlotsInv'
  BY <1>19, <1>21 DEF ReopenAccount
<1>22. CASE UNCHANGED slotVars
  <2>1. Active' \in SUBSET Active BY <1>22 DEF slotVars, Active
  <2>2. AllowanceFits' BY <1>22, <2>1, StillAllowed DEF slotVars
  <2>3. SlotsInv' BY <1>0, <1>12, <1>22, <2>2 DEF slotVars
  <2>4. QED BY <1>14, <2>3
<1>23. CASE SlotsNext
  <2>1. SlotsInv'
    BY <1>1, <1>2, <1>3, <1>4, <1>5, <1>6, <1>7, <1>8, <1>9, <1>10, <1>11, <1>13, <1>14, <1>15, <1>16, <1>17,
       <1>18, <1>20, <1>21, <1>23 DEF SlotsNext
  <2>2. QED BY <1>14, <2>1
<1>24. QED BY <1>22, <1>23

\* An account has no more devices than its allowance but while a lapsed plan is enforced,
\* two installations never hold a good token for one row, a peer's address stays leased
\* until the node has removed it, and the device that is kept when a plan ends is the one
\* registered first (registerDeviceSlot, revokeDevices, closeSession,
\* enforceDeviceAllowance): for every number of installations, rows and addresses.
THEOREM SlotsKept == MCSpec => []SlotsSafe /\ FirstDeviceKept
<1>1. MCInit => SlotsInv /\ SwitchOK BY SlotsInitial DEF MCInit, SlotsInit, SwitchOK
<1>2. SlotsInv /\ SwitchOK /\ [MCNext]_accountVars => SlotsInv' /\ SwitchOK'
  BY SlotSteps, SlotsStep, SwitchStep
<1>3. SlotsInv /\ SwitchOK /\ [MCNext]_accountVars =>
        [EnforceAllowance => \A d, e \in Active : e < d /\ row'[d].status = "active"
                                                    => row'[e].status = "active"]_slotVars
  BY SlotSteps, SlotsStep
<1>4. SlotsInv => SlotsSafe
  <2> SUFFICES ASSUME SlotsInv PROVE SlotsSafe OBVIOUS
  <2>1. SlotsRespected BY DEF SlotsInv, AllowanceFits
  <2>2. OneInstallPerRow
    <3> SUFFICES ASSUME NEW k \in Keys, NEW m \in Keys, Authenticated(k), Authenticated(m), k # m
                 PROVE  cred[k].row # cred[m].row
      BY DEF OneInstallPerRow
    <3>1. row[cred[k].row].key = k /\ row[cred[m].row].key = m BY LetIn
    <3>2. QED BY <3>1
  <2>3. AddressKept BY SlotsAssumption DEF SlotsInv, PeerFits, AddressKept, SlotsAssumption, Rows
  <2>4. QED BY <2>1, <2>2, <2>3 DEF SlotsSafe
<1>5. QED BY <1>1, <1>2, <1>3, <1>4, PTL DEF MCSpec, FirstDeviceKept

-----------------------------------------------------------------------------
\* A step of the whole is a step of the refresh tokens, or leaves them alone.
LEMMA TokenSteps == ASSUME [MCNext]_accountVars PROVE [TokensNext]_tokenVars
<1>1. CASE MCNext BY <1>1 DEF MCNext, Only
<1>2. CASE UNCHANGED accountVars BY <1>2 DEF accountVars, partVars
<1>3. QED BY <1>1, <1>2

\* A row of refresh_tokens, one of devices, and a refresh in progress.
TokenRows == [client : Clients \union {None}, state : {"free", "live", "rotated", "revoked", "deleted"},
              next : Tokens \union {None}, age : Nat, version : Nat, login : Nat, lost : BOOLEAN]
\* A client's device row: its token version and how often it signed in.
Owners == [status : {"none", "active", "revoked"}, version : Nat, login : Nat]
\* A request to refresh, from the client that sends it to the answer.
Renewals == [pc : {"idle", "sent", "issue", "mark", "reply", "alarm"}, client : Clients \union {None},
              tok : Tokens \union {None}, new : Tokens \union {None}, version : Nat]

\* The variables of the refresh tokens have their types.
TokensTypeOK ==
    /\ token \in [Tokens -> TokenRows] /\ device \in [Clients -> Owners]
    /\ held \in [Clients -> Tokens \union {None}] /\ refresh \in [Requests -> Renewals]
    /\ \A t \in Tokens : token[t].state = "free" => token[t] = NoToken

\* A version read from the device of app c, at its sign-in l: it is the device's own, and
\* then of this sign-in, or an older one.
Fits(c, v, l) ==
    /\ device[c].status # "none" /\ v <= device[c].version
    /\ v = device[c].version /\ device[c].status = "active" => l = device[c].login
\* A token of an app is of its device's present life: not of a later version, and of a sign-in
\* that made that version.
TokenFits(t) ==
    token[t].client \in Apps /\ token[t].state \notin {"free", "deleted"} =>
        Fits(token[t].client, token[t].version, token[t].login)
\* So is the one that a request is about to write.
IssueFits(r) ==
    LET t == refresh[r].tok IN
    refresh[r].pc = "issue" /\ refresh[r].client \in Apps /\ token[t].state # "deleted" =>
        Fits(refresh[r].client, refresh[r].version, token[t].login)

\* The reply with the successor of t was lost, or is on its way to client c.
Lost(t) == token[t].next \in Tokens /\ token[token[t].next].lost
\* A request brings a client the successor of this token.
Answers(r, c, t) ==
    refresh[r].pc = "reply" /\ refresh[r].client = c /\ refresh[r].tok = t /\ refresh[r].new = token[t].next

\* What a client holds is its own, of its last sign-in, and good or soon replaced.
HeldFits(c) ==
    held[c] # None =>
        LET t == held[c] IN
        /\ token[t].client = c /\ token[t].state # "free" /\ token[t].login = device[c].login
        /\ token[t].state = "rotated" => Lost(t) \/ \E r \in Requests : Answers(r, c, t)

\* A refresh that was let in is of a token that is good or in its grace; one of a token
\* past it, whose successor nobody lost, does not occur.
BusyFits(r) ==
    refresh[r].pc # "idle" =>
        LET t == refresh[r].tok IN
        /\ refresh[r].client \in Clients /\ t \in Tokens
        /\ token[t].client = refresh[r].client /\ token[t].state # "free"
        /\ refresh[r].pc \in {"issue", "mark", "reply"} => token[t].age < 2
        /\ refresh[r].pc = "sent" /\ token[t].state = "rotated" /\ token[t].age >= 2 => Lost(t)
        /\ refresh[r].pc = "alarm" => token[t].age >= 2 /\ Lost(t)

\* A token that is on its way is known to its request alone.
NewApart(r) ==
    refresh[r].pc \in {"mark", "reply"} =>
        LET n == refresh[r].new IN
        /\ n \in Tokens /\ token[n].client = refresh[r].client /\ token[n].login = token[refresh[r].tok].login
        /\ token[n].state \in {"live", "revoked", "deleted"}
        /\ \A c \in Clients : held[c] # n
        /\ \A q \in Requests : /\ refresh[q].pc # "idle" => refresh[q].tok # n
                               /\ q # r /\ refresh[q].pc \in {"mark", "reply"} => refresh[q].new # n

\* Time only counts against a token that was rotated.
AgeFits(t) == token[t].state = "live" => token[t].age = 0

\* The inductive invariant of the refresh tokens.
TokensInv ==
    /\ TokensTypeOK /\ \A t \in Tokens : AgeFits(t)
    /\ \A t \in Tokens : TokenFits(t)
    /\ \A c \in Clients : HeldFits(c)
    /\ \A r \in Requests : IssueFits(r) /\ BusyFits(r) /\ NewApart(r)

\* No token is made and nobody asks.
LEMMA TokensInitial == TokensInit => TokensInv
<1> SUFFICES ASSUME TokensInit PROVE TokensInv OBVIOUS
<1>1. TokensTypeOK
  BY DEF TokensInit, TokensTypeOK, NoToken, NoRefresh, TokenRows, Owners, Renewals
<1>2. \A t \in Tokens : TokenFits(t) BY DEF TokensInit, TokenFits, NoToken
<1>3. \A c \in Clients : HeldFits(c) BY DEF TokensInit, HeldFits
<1>4. \A r \in Requests : IssueFits(r) /\ BusyFits(r) /\ NewApart(r)
  BY DEF TokensInit, IssueFits, BusyFits, NewApart, NoRefresh
<1>5. \A t \in Tokens : AgeFits(t) BY DEF TokensInit, AgeFits, NoToken
<1>6. QED BY <1>1, <1>2, <1>3, <1>4, <1>5 DEF TokensInv

\* A row stays what it is, but may be revoked, deleted with its device, or lost on its way.
Kin(t) ==
    /\ token'[t].client = token[t].client /\ token'[t].login = token[t].login
    /\ token'[t].version = token[t].version /\ token'[t].next = token[t].next /\ token'[t].age = token[t].age
    /\ token[t].lost => token'[t].lost
    /\ \/ token'[t].state = token[t].state
       \/ token[t].state = "live" /\ token'[t].state = "revoked"
       \/ token'[t].state = "deleted"
\* Every token that was made keeps its kin over the step.
Kinship == \A t \in Tokens : token[t].state # "free" => Kin(t)

\* What was read from the device of c still fits, or every token of c is gone.
MovesOn(c) ==
    \/ \A v, l \in Nat : Fits(c, v, l) => Fits(c, v, l)'
    \/ \A t \in Tokens : token'[t].client = c => token'[t].state \in {"free", "deleted"}

\* Nobody's answer got lost on the way from one state to the next.
LEMMA LostStays ==
    ASSUME TokensInv, Kinship, NEW t \in Tokens, token[t].state # "free", Lost(t)
    PROVE  Lost(t)'
<1>1. token'[t].next = token[t].next BY DEF Kinship, Kin
<1>2. PICK n \in Tokens : n = token[t].next BY DEF Lost
<1>3. token[n].lost BY <1>2 DEF Lost
<1>4. token[n].state # "free"
  <2>1. NoToken.lost = FALSE BY DEF NoToken
  <2>2. QED BY <1>3, <2>1 DEF TokensInv, TokensTypeOK
<1>5. token'[n].lost BY <1>3, <1>4 DEF Kinship, Kin
<1>6. QED BY <1>1, <1>2, <1>5 DEF Lost

\* A request that a step leaves alone still fits the tokens, which keep their kin.
LEMMA BusyStays ==
    ASSUME TokensInv, Kinship, NEW r \in Requests, refresh'[r] = refresh[r]
    PROVE  BusyFits(r)'
<1> SUFFICES ASSUME refresh[r].pc # "idle" PROVE BusyFits(r)' BY DEF BusyFits
<1>1. PICK t \in Tokens : t = refresh[r].tok BY DEF TokensInv, BusyFits
<1>2. /\ refresh[r].client \in Clients /\ token[t].client = refresh[r].client /\ token[t].state # "free"
      /\ refresh[r].pc \in {"issue", "mark", "reply"} => token[t].age < 2
      /\ refresh[r].pc = "sent" /\ token[t].state = "rotated" /\ token[t].age >= 2 => Lost(t)
      /\ refresh[r].pc = "alarm" => token[t].age >= 2 /\ Lost(t)
  BY <1>1 DEF TokensInv, BusyFits
<1>3. /\ token'[t].client = token[t].client /\ token'[t].age = token[t].age
      /\ token'[t].state # "free" /\ (token'[t].state = "rotated" => token[t].state = "rotated")
  BY <1>2 DEF Kinship, Kin
<1>4. Lost(t) => Lost(t)' BY <1>2, LostStays
<1>5. refresh'[r].tok = t BY <1>1
<1>6. QED BY <1>2, <1>3, <1>4, <1>5 DEF BusyFits

\* It still writes a token that fits, as devices only move on.
LEMMA IssueStays ==
    ASSUME TokensInv, Kinship, \A c \in Apps : MovesOn(c), NEW r \in Requests, refresh'[r] = refresh[r]
    PROVE  IssueFits(r)'
<1> SUFFICES ASSUME refresh[r].pc = "issue", refresh[r].client \in Apps,
                    token'[refresh[r].tok].state # "deleted"
             PROVE  IssueFits(r)'
  BY DEF IssueFits
<1>1. PICK t \in Tokens, c \in Apps : t = refresh[r].tok /\ c = refresh[r].client BY DEF TokensInv, BusyFits
<1>2. token[t].client = c /\ token[t].state # "free" BY <1>1 DEF TokensInv, BusyFits
<1>3. /\ token'[t].client = c /\ token'[t].login = token[t].login
      /\ token[t].state # "deleted" /\ token'[t].state \notin {"free", "deleted"}
  BY <1>1, <1>2 DEF Kinship, Kin
<1>4. PICK v \in Nat, l \in Nat : v = refresh[r].version /\ l = token[t].login
  BY DEF TokensInv, TokensTypeOK, Renewals, TokenRows
<1>5. Fits(c, v, l) BY <1>1, <1>3, <1>4 DEF TokensInv, IssueFits
<1>6. Fits(c, v, l)' BY <1>3, <1>5 DEF MovesOn
<1>7. token'[t].login = l /\ refresh'[r].version = v /\ refresh'[r].client = c /\ refresh'[r].tok = t
  BY <1>1, <1>3, <1>4
<1>8. QED BY <1>6, <1>7 DEF IssueFits

-----------------------------------------------------------------------------
\* A refresh that goes on keeps its token, and takes none that is on its way to another.
GoesOn(q, n) ==
    refresh'[q].pc # "idle" =>
        /\ (refresh[q].pc # "idle" /\ refresh'[q].tok = refresh[q].tok) \/ refresh'[q].tok # n
        /\ refresh'[q].pc \in {"mark", "reply"} =>
             \/ refresh[q].pc \in {"mark", "reply"} /\ refresh'[q].new = refresh[q].new
             \/ refresh'[q].new # n

\* The token it made is still nobody else's.
LEMMA ApartStays ==
    ASSUME TokensInv, Kinship, NEW r \in Requests, refresh'[r] = refresh[r],
           \A c \in Clients : held'[c] = held[c] \/ held'[c] # refresh[r].new,
           \A q \in Requests : GoesOn(q, refresh[r].new)
    PROVE  NewApart(r)'
<1> SUFFICES ASSUME refresh[r].pc \in {"mark", "reply"} PROVE NewApart(r)' BY DEF NewApart
<1>1. PICK t \in Tokens, n \in Tokens : t = refresh[r].tok /\ n = refresh[r].new
  BY DEF TokensInv, BusyFits, NewApart
<1>2. /\ token[n].client = refresh[r].client /\ token[n].login = token[t].login
      /\ token[n].state \in {"live", "revoked", "deleted"} /\ token[t].state # "free"
      /\ \A c \in Clients : held[c] # n
      /\ \A q \in Requests : /\ refresh[q].pc # "idle" => refresh[q].tok # n
                             /\ q # r /\ refresh[q].pc \in {"mark", "reply"} => refresh[q].new # n
  BY <1>1 DEF TokensInv, BusyFits, NewApart
<1>3. /\ token'[n].client = token[n].client /\ token'[n].login = token[n].login
      /\ token'[t].login = token[t].login /\ token'[n].state \in {"live", "revoked", "deleted"}
  BY <1>2 DEF Kinship, Kin
<1>4. \A c \in Clients : held'[c] # n BY <1>1, <1>2
<1>5. \A q \in Requests : /\ refresh'[q].pc # "idle" => refresh'[q].tok # n
                          /\ q # r /\ refresh'[q].pc \in {"mark", "reply"} => refresh'[q].new # n
  BY <1>1, <1>2 DEF GoesOn
<1>6. refresh'[r].tok = t /\ refresh'[r].new = n /\ refresh'[r].client = refresh[r].client BY <1>1
<1>7. QED BY <1>2, <1>3, <1>4, <1>5, <1>6 DEF NewApart

\* What a client holds still fits, unless its own answer came.
LEMMA HeldStays ==
    ASSUME TokensInv, Kinship, NEW c \in Clients, held'[c] = held[c], device'[c].login = device[c].login,
           \A r \in Requests : Answers(r, c, held[c]) => refresh'[r] = refresh[r]
    PROVE  HeldFits(c)'
<1> SUFFICES ASSUME held[c] # None PROVE HeldFits(c)' BY DEF HeldFits
<1>1. PICK t \in Tokens : t = held[c] BY DEF TokensInv, TokensTypeOK
<1>2. /\ token[t].client = c /\ token[t].state # "free" /\ token[t].login = device[c].login
      /\ token[t].state = "rotated" => Lost(t) \/ \E r \in Requests : Answers(r, c, t)
  BY <1>1 DEF TokensInv, HeldFits
<1>3. /\ token'[t].client = c /\ token'[t].state # "free" /\ token'[t].login = token[t].login
      /\ token'[t].next = token[t].next /\ (token'[t].state = "rotated" => token[t].state = "rotated")
  BY <1>2 DEF Kinship, Kin
<1>4. Lost(t) => Lost(t)' BY <1>2, LostStays
<1>5. ASSUME NEW r \in Requests, Answers(r, c, t) PROVE Answers(r, c, t)'
  BY <1>1, <1>3, <1>5 DEF Answers
<1>6. QED BY <1>1, <1>2, <1>3, <1>4, <1>5 DEF HeldFits

\* A client that holds a token nobody rotated.
LEMMA HeldAnew ==
    ASSUME NEW c \in Clients, NEW t \in Tokens, held'[c] = t, token'[t].client = c,
           token'[t].login = device'[c].login, token'[t].state \notin {"free", "rotated"}
    PROVE  HeldFits(c)'
BY DEF HeldFits

\* Every token fits after the step if the new ones do.
LEMMA RowsFit ==
    ASSUME TokensInv, Kinship, \A c \in Apps : MovesOn(c),
           \A t \in Tokens : token[t].state = "free" =>
               token'[t] = token[t] \/ TokenFits(t)'
    PROVE  \A t \in Tokens : TokenFits(t)'
<1> SUFFICES ASSUME NEW t \in Tokens, token'[t].client \in Apps, token'[t].state \notin {"free", "deleted"}
             PROVE  TokenFits(t)'
  BY DEF TokenFits
<1>1. CASE token[t].state = "free"
  <2>1. token'[t] # token[t] BY <1>1
  <2>2. QED BY <1>1, <2>1 DEF TokenFits
<1>2. CASE token[t].state # "free"
  <2>1. PICK c \in Apps : c = token[t].client BY <1>2 DEF Kinship, Kin
  <2>2. PICK v \in Nat, l \in Nat : v = token[t].version /\ l = token[t].login
    BY DEF TokensInv, TokensTypeOK, TokenRows
  <2>3. token'[t].client = c /\ token'[t].version = v /\ token'[t].login = l /\ token[t].state # "deleted"
    BY <1>2, <2>1, <2>2 DEF Kinship, Kin
  <2>4. Fits(c, v, l) BY <1>2, <2>1, <2>2, <2>3 DEF TokensInv, TokenFits
  <2>5. Fits(c, v, l)' BY <2>3, <2>4 DEF MovesOn
  <2>6. QED BY <2>3, <2>5 DEF TokenFits
<1>3. QED BY <1>1, <1>2

\* The device of no app changes, or it gets a newer version, or none is known of it.
LEMMA DeviceMoves ==
    ASSUME TokensInv, NEW c \in Clients, device'[c].version \in Nat,
           \/ device'[c] = device[c]
           \/ device'[c].version > device[c].version /\ device'[c].status # "none"
           \/ device[c].status = "none"
    PROVE  MovesOn(c)
<1>1. device[c].version \in Nat BY DEF TokensInv, TokensTypeOK, Owners
<1>2. CASE device'[c] = device[c] BY <1>2 DEF MovesOn, Fits
<1>3. CASE device'[c].version > device[c].version /\ device'[c].status # "none"
  <2>1. device'[c].version > device[c].version /\ device'[c].status # "none" BY <1>3
  <2>2. ASSUME NEW v \in Nat, NEW l \in Nat, Fits(c, v, l) PROVE Fits(c, v, l)'
    <3>1. v <= device[c].version BY <2>2 DEF Fits
    <3> DEFINE w == device'[c].version
    <3>2. w \in Nat /\ w > device[c].version BY <2>1
    <3>4. v <= w /\ v # w
      <4> HIDE DEF w
      <4>1. QED BY <1>1, <3>1, <3>2
    <3>3. QED BY <2>1, <3>4 DEF Fits
  <2>3. QED BY <2>2 DEF MovesOn
<1>4. CASE device[c].status = "none" BY <1>4 DEF MovesOn, Fits
<1>5. QED BY <1>2, <1>3, <1>4

-----------------------------------------------------------------------------
\* What a client may come to hold: what it held, nothing, a new row, or a reply.
HoldsOn(c) ==
    \/ held'[c] \in {held[c], None}
    \/ held'[c] \in Tokens /\ token[held'[c]].state = "free"
    \/ \E q \in Requests : refresh[q].pc = "reply" /\ refresh'[q].pc = "idle" /\ held'[c] = refresh[q].new

\* How a refresh may go on: with its token or with one somebody holds, and with the new
\* row it had or one that was free.
Proceeds(q) ==
    /\ \/ refresh[q].pc # "idle" /\ refresh'[q].tok = refresh[q].tok
       \/ \E c \in Clients : refresh'[q].tok = held[c]
    /\ refresh'[q].pc \in {"mark", "reply"} =>
         \/ refresh[q].pc \in {"mark", "reply"} /\ refresh'[q].new = refresh[q].new
         \/ refresh'[q].new \in Tokens /\ token[refresh'[q].new].state = "free"
    /\ IssueFits(q)' /\ BusyFits(q)' /\ NewApart(q)'

\* The invariant after a step, from what the step did to tokens, clients and requests.
LEMMA TokensTogether ==
    ASSUME TokensInv, TokensTypeOK', Kinship, \A c \in Apps : MovesOn(c),
           \A t \in Tokens : token[t].state = "free" => token'[t] = token[t] \/ (TokenFits(t)' /\ AgeFits(t)'),
           \A c \in Clients : HeldFits(c)' /\ HoldsOn(c),
           \A r \in Requests : refresh'[r] = refresh[r] \/ refresh'[r].pc = "idle" \/ Proceeds(r)
    PROVE  TokensInv'
<1>1. \A t \in Tokens : TokenFits(t)' BY RowsFit
<1>2. ASSUME NEW r \in Requests PROVE IssueFits(r)' /\ BusyFits(r)' /\ NewApart(r)'
  <2>1. CASE refresh'[r].pc = "idle" BY <2>1 DEF IssueFits, BusyFits, NewApart
  <2>2. CASE Proceeds(r) BY <2>2 DEF Proceeds
  <2>3. CASE refresh'[r] = refresh[r] /\ refresh[r].pc \notin {"mark", "reply"}
    BY <2>3, IssueStays, BusyStays DEF NewApart
  <2>4. CASE refresh'[r] = refresh[r] /\ refresh[r].pc \in {"mark", "reply"}
    <3>1. PICK n \in Tokens : n = refresh[r].new BY <2>4 DEF TokensInv, NewApart
    <3>2. /\ token[n].state # "free" /\ n # None /\ \A c \in Clients : held[c] # n
          /\ \A q \in Requests : /\ refresh[q].pc # "idle" => refresh[q].tok # n
                                 /\ q # r /\ refresh[q].pc \in {"mark", "reply"} => refresh[q].new # n
      BY <2>4, <3>1, TokensAssumption DEF TokensInv, NewApart, TokensAssumption
    <3>3. ASSUME NEW c \in Clients PROVE held'[c] = held[c] \/ held'[c] # n
      <4>1. ASSUME NEW q \in Requests, refresh[q].pc = "reply", refresh'[q].pc = "idle", held'[c] = refresh[q].new
            PROVE  held'[c] # n
        <5>1. q # r BY <2>4, <4>1
        <5>2. QED BY <3>2, <4>1, <5>1
      <4>2. QED BY <3>2, <4>1 DEF HoldsOn
    <3>4. ASSUME NEW q \in Requests PROVE GoesOn(q, n)
      <4>1. CASE refresh'[q] = refresh[q] BY <4>1 DEF GoesOn
      <4>2. CASE refresh'[q].pc = "idle" BY <4>2 DEF GoesOn
      <4>3. CASE Proceeds(q) BY <3>2, <4>3 DEF Proceeds, GoesOn
      <4>4. QED BY <4>1, <4>2, <4>3
    <3>5. QED BY <2>4, <3>1, <3>3, <3>4, ApartStays, IssueStays, BusyStays
  <2>5. QED BY <2>1, <2>2, <2>3, <2>4
<1>3. \A t \in Tokens : AgeFits(t)' BY DEF TokensInv, AgeFits, Kinship, Kin
<1>4. QED BY <1>1, <1>2, <1>3 DEF TokensInv

\* Revoking keeps the rows.
LEMMA RevokedKin ==
    ASSUME TokensInv, NEW C, token' = Revoked(C)
    PROVE  /\ Kinship /\ token' \in [Tokens -> TokenRows]
           /\ \A t \in Tokens : /\ token[t].state = "free" => token'[t] = token[t]
                                /\ token'[t].state = "free" => token'[t] = NoToken
<1>1. token \in [Tokens -> TokenRows] BY DEF TokensInv, TokensTypeOK
<1>2. \A r \in TokenRows :
          LET s == [r EXCEPT !.state = "revoked"]
          IN  /\ s \in TokenRows /\ s.client = r.client /\ s.login = r.login /\ s.version = r.version
              /\ s.next = r.next /\ s.age = r.age /\ s.lost = r.lost /\ s.state = "revoked"
  BY DEF TokenRows
<1>3. \A t \in Tokens : \/ token'[t] = token[t]
                        \/ token[t].state = "live" /\ token'[t] = [token[t] EXCEPT !.state = "revoked"]
  BY DEF Revoked
<1>4. token' = [t \in Tokens |-> token'[t]] BY DEF Revoked
<1>5. ASSUME NEW t \in Tokens
      PROVE  /\ token'[t] \in TokenRows /\ Kin(t)
             /\ (token[t].state = "free" => token'[t] = token[t])
             /\ (token'[t].state = "free" => token'[t] = NoToken)
  <2>1. CASE token'[t] = token[t] BY <1>1, <2>1 DEF Kin, TokensInv, TokensTypeOK
  <2>2. CASE token[t].state = "live" /\ token'[t] = [token[t] EXCEPT !.state = "revoked"]
    <3>1. token[t] \in TokenRows BY <1>1
    <3>2. /\ token'[t] \in TokenRows /\ token'[t].client = token[t].client /\ token'[t].login = token[t].login
          /\ token'[t].version = token[t].version /\ token'[t].next = token[t].next
          /\ token'[t].age = token[t].age /\ token'[t].lost = token[t].lost /\ token'[t].state = "revoked"
      BY <1>2, <2>2, <3>1
    <3>3. QED BY <2>2, <3>2 DEF Kin
  <2>3. QED BY <1>3, <2>1, <2>2
<1>6. QED BY <1>4, <1>5 DEF Kinship

-----------------------------------------------------------------------------
\* Requests that leave the rows and the devices alone.
LEMMA RowsQuiet ==
    ASSUME TokensInv, token' = token, device' = device
    PROVE  /\ Kinship /\ \A c \in Clients : MovesOn(c)
           /\ token' \in [Tokens -> TokenRows] /\ device' \in [Clients -> Owners]
           /\ \A t \in Tokens : token'[t].state = "free" => token'[t] = NoToken
<1>1. Kinship BY DEF Kinship, Kin
<1>2. \A c \in Clients : MovesOn(c) BY DeviceMoves DEF TokensInv, TokensTypeOK, Owners
<1>3. QED BY <1>1, <1>2 DEF TokensInv, TokensTypeOK

\* A refused client forgets what it held, and the others hold on.
LEMMA ForgetsFits ==
    ASSUME TokensInv, Kinship, NEW r \in Requests, Forgets(r), refresh[r].pc # "reply",
           refresh' = [refresh EXCEPT ![r] = NoRefresh], device' = device
    PROVE  /\ held' \in [Clients -> Tokens \union {None}] /\ refresh' \in [Requests -> Renewals]
           /\ \A c \in Clients : HeldFits(c)' /\ HoldsOn(c)
           /\ \A q \in Requests : refresh'[q] = refresh[q] \/ refresh'[q].pc = "idle"
<1>1. held \in [Clients -> Tokens \union {None}] /\ refresh \in [Requests -> Renewals] /\ NoRefresh \in Renewals
  BY DEF TokensInv, TokensTypeOK, NoRefresh, Renewals
<1>2. \A c \in Clients : held'[c] \in {held[c], None} BY DEF Forgets
<1>3. held' \in [Clients -> Tokens \union {None}] BY <1>1 DEF Forgets
<1>4. NoRefresh.pc = "idle" BY DEF NoRefresh
<1>5. /\ refresh' \in [Requests -> Renewals]
      /\ \A q \in Requests : refresh'[q] = IF q = r THEN NoRefresh ELSE refresh[q]
  BY <1>1
<1>6. ASSUME NEW c \in Clients PROVE HeldFits(c)'
  <2>1. CASE held'[c] = None BY <2>1 DEF HeldFits
  <2>2. CASE held'[c] = held[c]
    <3>1. \A q \in Requests : Answers(q, c, held[c]) => refresh'[q] = refresh[q] BY <1>5 DEF Answers
    <3>2. QED BY <2>2, <3>1, HeldStays
  <2>3. QED BY <1>2, <2>1, <2>2
<1>7. QED BY <1>2, <1>3, <1>4, <1>5, <1>6 DEF HoldsOn

\* Letting a request in keeps the invariant.
LEMMA AdmitFits == ASSUME TokensInv, NEW r \in Requests, Admit(r) PROVE TokensInv'
<1>0. token' = token /\ device' = device /\ held' = held BY DEF Admit
<1>1. PICK t \in Tokens, c \in Clients : t = refresh[r].tok /\ c = refresh[r].client
  BY DEF Admit, TokensInv, BusyFits
<1>2. token[t].client = c /\ token[t].state # "free" /\ Usable(t) /\ refresh[r].pc = "sent"
  BY <1>1 DEF Admit, TokensInv, BusyFits
<1>3. PICK v \in Nat : v = device[c].version BY DEF TokensInv, TokensTypeOK, Owners
<1> DEFINE new == [refresh[r] EXCEPT !.pc = "issue", !.version = v]
<1>4. refresh \in [Requests -> Renewals] BY DEF TokensInv, TokensTypeOK
<1>5. /\ new \in Renewals /\ new.pc = "issue" /\ new.version = v /\ new.tok = t /\ new.client = c
  BY <1>1, <1>4 DEF Renewals
<1>6. refresh' = [refresh EXCEPT ![r] = new] BY <1>1, <1>3, <1>4 DEF Admit
<1> HIDE DEF new
<1>7. refresh' \in [Requests -> Renewals] /\ refresh'[r] = new /\ \A q \in Requests \ {r} : refresh'[q] = refresh[q]
  BY <1>4, <1>5, <1>6
<1>8. token[t].age < 2 BY <1>2 DEF Usable, InGrace, TokensInv, AgeFits
<1>9. BusyFits(r)' BY <1>0, <1>2, <1>5, <1>7, <1>8 DEF BusyFits
<1>10. c \in Apps => Fits(c, v, token[t].login)
  BY <1>2, <1>3 DEF Usable, Fenced, Fits, TokensInv, TokenFits
<1>11. IssueFits(r)' BY <1>0, <1>5, <1>7, <1>10 DEF IssueFits, Fits
<1>12. NewApart(r)' BY <1>5, <1>7 DEF NewApart
<1>13. Proceeds(r) BY <1>1, <1>2, <1>5, <1>7, <1>9, <1>11, <1>12 DEF Proceeds
<1>14. \A d \in Clients : HeldFits(d)' /\ HoldsOn(d)
  <2>1. SUFFICES ASSUME NEW d \in Clients PROVE HeldFits(d)' /\ HoldsOn(d) OBVIOUS
  <2>2. \A q \in Requests : Answers(q, d, held[d]) => refresh'[q] = refresh[q] BY <1>2, <1>7 DEF Answers
  <2>3. QED BY <1>0, <2>2, RowsQuiet, HeldStays DEF HoldsOn
<1>15. TokensTypeOK' BY <1>0, <1>7 DEF TokensInv, TokensTypeOK
<1>16. QED BY <1>0, <1>7, <1>13, <1>14, <1>15, RowsQuiet, TokensTogether, TokensAssumption DEF TokensAssumption

\* Finding a replaced token keeps the invariant.
LEMMA SuspectFits == ASSUME TokensInv, NEW r \in Requests, Suspect(r) PROVE TokensInv'
<1>0. token' = token /\ device' = device /\ held' = held BY DEF Suspect
<1>1. PICK t \in Tokens, c \in Clients : t = refresh[r].tok /\ c = refresh[r].client
  BY DEF Suspect, TokensInv, BusyFits
<1>2. /\ token[t].client = c /\ token[t].state = "rotated" /\ ~(token[t].age < 2) /\ token[t].age \in Nat
      /\ refresh[r].pc = "sent"
  BY <1>1 DEF Suspect, Stolen, InGrace, TokensInv, BusyFits, TokensTypeOK, TokenRows
<1>3. token[t].age >= 2 BY <1>2
<1>4. Lost(t) BY <1>1, <1>2, <1>3 DEF TokensInv, BusyFits
<1> DEFINE new == [refresh[r] EXCEPT !.pc = "alarm"]
<1>5. refresh \in [Requests -> Renewals] BY DEF TokensInv, TokensTypeOK
<1>6. new \in Renewals /\ new.pc = "alarm" /\ new.tok = t /\ new.client = c BY <1>1, <1>5 DEF Renewals
<1>7. refresh' = [refresh EXCEPT ![r] = new] BY <1>5 DEF Suspect
<1> HIDE DEF new
<1>8. refresh' \in [Requests -> Renewals] /\ refresh'[r] = new /\ \A q \in Requests \ {r} : refresh'[q] = refresh[q]
  BY <1>5, <1>6, <1>7
<1>9. BusyFits(r)' BY <1>0, <1>2, <1>3, <1>4, <1>6, <1>8 DEF BusyFits, Lost
<1>10. IssueFits(r)' /\ NewApart(r)' BY <1>6, <1>8 DEF IssueFits, NewApart
<1>11. Proceeds(r) BY <1>1, <1>2, <1>6, <1>8, <1>9, <1>10 DEF Proceeds
<1>12. \A d \in Clients : HeldFits(d)' /\ HoldsOn(d)
  <2>1. SUFFICES ASSUME NEW d \in Clients PROVE HeldFits(d)' /\ HoldsOn(d) OBVIOUS
  <2>2. \A q \in Requests : Answers(q, d, held[d]) => refresh'[q] = refresh[q] BY <1>2, <1>8 DEF Answers
  <2>3. QED BY <1>0, <2>2, RowsQuiet, HeldStays DEF HoldsOn
<1>13. TokensTypeOK' BY <1>0, <1>8 DEF TokensInv, TokensTypeOK
<1>14. QED BY <1>0, <1>8, <1>11, <1>12, <1>13, RowsQuiet, TokensTogether, TokensAssumption DEF TokensAssumption

\* A client's request keeps the invariant.
LEMMA AskFits == ASSUME TokensInv, NEW r \in Requests, NEW c \in Clients, AskRefresh(r, c) PROVE TokensInv'
<1>0. token' = token /\ device' = device /\ held' = held BY DEF AskRefresh
<1>1. PICK t \in Tokens : t = held[c] BY DEF AskRefresh, TokensInv, TokensTypeOK
<1>2. held[c] # None /\ refresh[r].pc = "idle" BY DEF AskRefresh
<1>3. /\ token[t].client = c /\ token[t].state # "free"
      /\ token[t].state = "rotated" => Lost(t) \/ \E q \in Requests : Answers(q, c, t)
  BY <1>1, <1>2 DEF TokensInv, HeldFits
<1>4. token[t].age \in Nat BY DEF TokensInv, TokensTypeOK, TokenRows
<1>5. token[t].state = "rotated" /\ token[t].age >= 2 => Lost(t)
  <2>1. SUFFICES ASSUME NEW q \in Requests, Answers(q, c, t), token[t].age >= 2 PROVE FALSE BY <1>3
  <2>2. token[t].age < 2 BY <2>1 DEF Answers, TokensInv, BusyFits
  <2>3. QED BY <1>4, <2>1, <2>2
<1> DEFINE new == [NoRefresh EXCEPT !.pc = "sent", !.client = c, !.tok = t]
<1>6. refresh \in [Requests -> Renewals] BY DEF TokensInv, TokensTypeOK
<1>7. new \in Renewals /\ new.pc = "sent" /\ new.tok = t /\ new.client = c BY DEF Renewals, NoRefresh
<1>8. refresh' = [refresh EXCEPT ![r] = new] BY <1>1 DEF AskRefresh
<1> HIDE DEF new
<1>9. refresh' \in [Requests -> Renewals] /\ refresh'[r] = new /\ \A q \in Requests \ {r} : refresh'[q] = refresh[q]
  BY <1>6, <1>7, <1>8
<1>10. BusyFits(r)' BY <1>0, <1>3, <1>5, <1>7, <1>9 DEF BusyFits, Lost
<1>11. IssueFits(r)' /\ NewApart(r)' BY <1>7, <1>9 DEF IssueFits, NewApart
<1>12. Proceeds(r) BY <1>1, <1>7, <1>9, <1>10, <1>11 DEF Proceeds
<1>13. \A d \in Clients : HeldFits(d)' /\ HoldsOn(d)
  <2>1. SUFFICES ASSUME NEW d \in Clients PROVE HeldFits(d)' /\ HoldsOn(d) OBVIOUS
  <2>2. \A q \in Requests : Answers(q, d, held[d]) => refresh'[q] = refresh[q] BY <1>2, <1>9 DEF Answers
  <2>3. QED BY <1>0, <2>2, RowsQuiet, HeldStays DEF HoldsOn
<1>14. TokensTypeOK' BY <1>0, <1>9 DEF TokensInv, TokensTypeOK
<1>15. QED BY <1>0, <1>9, <1>12, <1>13, <1>14, RowsQuiet, TokensTogether, TokensAssumption DEF TokensAssumption

\* A refusal keeps the invariant.
LEMMA RefuseFits == ASSUME TokensInv, NEW r \in Requests, Refuse(r) PROVE TokensInv'
<1>1. token' = token /\ device' = device /\ refresh[r].pc = "sent" /\ Forgets(r)
      /\ refresh' = [refresh EXCEPT ![r] = NoRefresh]
  BY DEF Refuse
<1>2. /\ held' \in [Clients -> Tokens \union {None}] /\ refresh' \in [Requests -> Renewals]
      /\ \A c \in Clients : HeldFits(c)' /\ HoldsOn(c)
      /\ \A q \in Requests : refresh'[q] = refresh[q] \/ refresh'[q].pc = "idle"
  BY <1>1, RowsQuiet, ForgetsFits
<1>3. TokensTypeOK' BY <1>1, <1>2 DEF TokensInv, TokensTypeOK
<1>4. QED BY <1>1, <1>2, <1>3, RowsQuiet, TokensTogether, TokensAssumption DEF TokensAssumption

\* Ending a family keeps the invariant: the device's version moves on.
LEMMA AlarmFits == ASSUME TokensInv, NEW r \in Requests, Alarm(r) PROVE TokensInv'
<1>1. token' = Revoked(Clients) /\ device' = device /\ refresh[r].pc = "alarm" /\ Forgets(r)
      /\ refresh' = [refresh EXCEPT ![r] = NoRefresh]
  BY DEF Alarm
<1>2. /\ held' \in [Clients -> Tokens \union {None}] /\ refresh' \in [Requests -> Renewals]
      /\ \A c \in Clients : HeldFits(c)' /\ HoldsOn(c)
      /\ \A q \in Requests : refresh'[q] = refresh[q] \/ refresh'[q].pc = "idle"
  BY <1>1, RevokedKin, ForgetsFits
<1>3. \A c \in Clients : MovesOn(c) BY <1>1, DeviceMoves DEF TokensInv, TokensTypeOK, Owners
<1>4. TokensTypeOK' BY <1>1, <1>2, RevokedKin DEF TokensInv, TokensTypeOK
<1>5. QED BY <1>1, <1>2, <1>3, <1>4, RevokedKin, TokensTogether, TokensAssumption DEF TokensAssumption

-----------------------------------------------------------------------------
\* Requests and clients stay as they are.
LEMMA HoldStill ==
    ASSUME TokensInv, Kinship, held' = held, \A c \in Clients : device'[c].login = device[c].login,
           \A r \in Requests : refresh'[r] = refresh[r] \/ refresh[r].pc # "reply"
    PROVE  \A c \in Clients : HeldFits(c)' /\ HoldsOn(c)
<1>1. SUFFICES ASSUME NEW c \in Clients PROVE HeldFits(c)' /\ HoldsOn(c) OBVIOUS
<1>2. \A q \in Requests : Answers(q, c, held[c]) => refresh'[q] = refresh[q] BY DEF Answers
<1>3. QED BY <1>2, HeldStays DEF HoldsOn

\* A row is made for client c in the place of a free one.
LEMMA CreatedRow ==
    ASSUME NEW c \in Clients, NEW v \in Nat, NEW l \in Nat
    PROVE  LET n == Created(c, v, l)
           IN  /\ n \in TokenRows /\ n.client = c /\ n.state = "live" /\ n.version = v /\ n.login = l
               /\ n.age = 0
BY DEF Created, NoToken, TokenRows

\* Writing the successor keeps the invariant.
LEMMA IssueRowFits == ASSUME TokensInv, NEW r \in Requests, Issue(r) PROVE TokensInv'
<1>1. PICK t \in Tokens, c \in Clients : t = refresh[r].tok /\ c = refresh[r].client
  BY DEF Issue, TokensInv, BusyFits
<1>2. /\ refresh[r].pc = "issue" /\ token[t].client = c /\ token[t].state \notin {"free", "deleted"}
      /\ token[t].age < 2
  BY <1>1 DEF Issue, RowsLeft, TokensInv, BusyFits
<1>3. PICK v \in Nat, l \in Nat : v = refresh[r].version /\ l = token[t].login
  BY DEF TokensInv, TokensTypeOK, Renewals, TokenRows
<1>4. PICK n \in FreeTokens : /\ token' = [token EXCEPT ![n] = Created(c, v, l)]
                              /\ refresh' = [refresh EXCEPT ![r].pc = "mark", ![r].new = n]
  BY <1>1, <1>3 DEF Issue
<1>5. n \in Tokens /\ token[n].state = "free" /\ device' = device /\ held' = held
  BY DEF FreeTokens, Issue
<1> DEFINE row0 == Created(c, v, l)
           new == [refresh[r] EXCEPT !.pc = "mark", !.new = n]
<1>6. /\ row0 \in TokenRows /\ row0.client = c /\ row0.state = "live" /\ row0.version = v /\ row0.login = l
      /\ row0.age = 0
  BY CreatedRow
<1>7. refresh \in [Requests -> Renewals] /\ token \in [Tokens -> TokenRows] BY DEF TokensInv, TokensTypeOK
<1>8. new \in Renewals /\ new.pc = "mark" /\ new.tok = t /\ new.client = c /\ new.new = n
  BY <1>1, <1>5, <1>7 DEF Renewals
<1>9. refresh' = [refresh EXCEPT ![r] = new] /\ token' = [token EXCEPT ![n] = row0] BY <1>4, <1>7
<1> HIDE DEF new, row0
<1>10. refresh' \in [Requests -> Renewals] /\ refresh'[r] = new /\ \A q \in Requests \ {r} : refresh'[q] = refresh[q]
  BY <1>7, <1>8, <1>9
<1>11. token' \in [Tokens -> TokenRows] /\ token'[n] = row0 /\ \A x \in Tokens \ {n} : token'[x] = token[x]
  BY <1>5, <1>6, <1>7, <1>9
<1>12. Kinship BY <1>5, <1>11 DEF Kinship, Kin
<1>13. \A d \in Clients : MovesOn(d) BY <1>5, DeviceMoves DEF TokensInv, TokensTypeOK, Owners
<1>14. c \in Apps => Fits(c, v, l) BY <1>1, <1>2, <1>3 DEF TokensInv, IssueFits
<1>15. TokenFits(n)' /\ AgeFits(n)' BY <1>5, <1>6, <1>11, <1>14 DEF TokenFits, AgeFits, Fits
<1>16. t # n BY <1>2, <1>5
<1>17. BusyFits(r)' /\ IssueFits(r)' BY <1>2, <1>8, <1>10, <1>11, <1>16 DEF BusyFits, IssueFits
<1>18. NewApart(r)'
  <2>1. \A d \in Clients : held'[d] # n
    BY <1>5, TokensAssumption DEF TokensInv, HeldFits, TokensAssumption
  <2>2. \A q \in Requests : refresh[q].pc # "idle" => refresh[q].tok # n BY <1>5 DEF TokensInv, BusyFits
  <2>3. \A q \in Requests : refresh[q].pc \in {"mark", "reply"} => refresh[q].new # n
    BY <1>5 DEF TokensInv, NewApart
  <2>4. \A q \in Requests : /\ refresh'[q].pc # "idle" => refresh'[q].tok # n
                            /\ q # r /\ refresh'[q].pc \in {"mark", "reply"} => refresh'[q].new # n
    BY <1>8, <1>10, <1>16, <2>2, <2>3
  <2>5. token'[n].client = c /\ token'[n].login = token'[t].login /\ token'[n].state = "live"
    BY <1>3, <1>6, <1>11, <1>16
  <2>6. QED BY <1>5, <1>8, <1>10, <2>1, <2>4, <2>5 DEF NewApart
<1>19. Proceeds(r) BY <1>1, <1>2, <1>5, <1>8, <1>10, <1>17, <1>18 DEF Proceeds
<1>20. \A d \in Clients : HeldFits(d)' /\ HoldsOn(d) BY <1>2, <1>5, <1>10, <1>12, HoldStill
<1>21. \A x \in Tokens : token'[x].state = "free" => token'[x] = NoToken
  BY <1>6, <1>11 DEF TokensInv, TokensTypeOK
<1>22. TokensTypeOK' BY <1>5, <1>10, <1>11, <1>21 DEF TokensInv, TokensTypeOK
<1>23. QED
  BY <1>10, <1>11, <1>12, <1>13, <1>15, <1>19, <1>20, <1>22, TokensTogether, TokensAssumption DEF TokensAssumption

\* Marking the old token keeps the invariant.
LEMMA ReplaceFits == ASSUME TokensInv, NEW r \in Requests, Replace(r) PROVE TokensInv'
<1>1. PICK t \in Tokens, n \in Tokens : t = refresh[r].tok /\ n = refresh[r].new
  BY DEF Replace, TokensInv, BusyFits, NewApart
<1>2. /\ refresh[r].pc = "mark" /\ token[t].client = refresh[r].client /\ refresh[r].client \in Clients
      /\ token[t].state \notin {"free", "deleted"} /\ token[t].age < 2
  BY <1>1 DEF Replace, RowsLeft, TokensInv, BusyFits
<1> DEFINE row0 == Rotated(token[t], n)
           new == [refresh[r] EXCEPT !.pc = "reply"]
<1>3. refresh \in [Requests -> Renewals] /\ token \in [Tokens -> TokenRows] BY DEF TokensInv, TokensTypeOK
<1>4. /\ row0 \in TokenRows /\ row0.client = token[t].client /\ row0.login = token[t].login
      /\ row0.version = token[t].version /\ row0.lost = token[t].lost
      /\ row0.state = "rotated" /\ row0.next = n /\ row0.age = 0
  BY <1>3 DEF Rotated, TokenRows
<1>5. /\ new \in Renewals /\ new.pc = "reply" /\ new.tok = t /\ new.client = refresh[r].client /\ new.new = n
      /\ new.version = refresh[r].version
  BY <1>1, <1>3 DEF Renewals
<1>6. /\ refresh' = [refresh EXCEPT ![r] = new] /\ token' = [token EXCEPT ![t] = row0]
      /\ device' = device /\ held' = held
  BY <1>1, <1>3 DEF Replace
<1> HIDE DEF new, row0
<1>7. refresh' \in [Requests -> Renewals] /\ refresh'[r] = new /\ \A q \in Requests \ {r} : refresh'[q] = refresh[q]
  BY <1>3, <1>5, <1>6
<1>8. token' \in [Tokens -> TokenRows] /\ token'[t] = row0 /\ \A x \in Tokens \ {t} : token'[x] = token[x]
  BY <1>3, <1>4, <1>6
<1>9. \A x \in Tokens : /\ token'[x].client = token[x].client /\ token'[x].login = token[x].login
                        /\ token'[x].lost = token[x].lost /\ token'[x].version = token[x].version
                        /\ token'[x].state = "free" <=> token[x].state = "free"
                        /\ token'[x].state = "deleted" <=> token[x].state = "deleted"
  BY <1>2, <1>4, <1>8
<1>10. \A x \in Tokens \ {t} : Lost(x) => Lost(x)' BY <1>8, <1>9 DEF Lost
<1>11. \A q \in Requests : /\ refresh'[q].client = refresh[q].client /\ refresh'[q].tok = refresh[q].tok
                           /\ refresh'[q].new = refresh[q].new /\ refresh'[q].version = refresh[q].version
                           /\ refresh'[q].pc = IF q = r THEN "reply" ELSE refresh[q].pc
  <2>1. SUFFICES ASSUME NEW q \in Requests
                 PROVE  /\ refresh'[q].client = refresh[q].client /\ refresh'[q].tok = refresh[q].tok
                        /\ refresh'[q].new = refresh[q].new /\ refresh'[q].version = refresh[q].version
                        /\ refresh'[q].pc = IF q = r THEN "reply" ELSE refresh[q].pc
    OBVIOUS
  <2>2. CASE q = r BY <1>1, <1>5, <1>7, <2>2
  <2>3. CASE q # r BY <1>7, <2>3
  <2>4. QED BY <2>2, <2>3
<1>12. TokensTypeOK'
  <2>1. \A x \in Tokens : token'[x].state = "free" => token'[x] = NoToken
    BY <1>4, <1>8 DEF TokensInv, TokensTypeOK
  <2>2. QED BY <1>6, <1>7, <1>8, <2>1 DEF TokensInv, TokensTypeOK
<1>13. \A x \in Tokens : AgeFits(x)' BY <1>4, <1>8 DEF AgeFits, TokensInv
<1>14. \A x \in Tokens : TokenFits(x)' BY <1>6, <1>9 DEF TokenFits, TokensInv, Fits
<1>15. ASSUME NEW q \in Requests PROVE IssueFits(q)'
  <2>1. SUFFICES ASSUME refresh[q].pc = "issue", refresh[q].client \in Apps,
                        token'[refresh[q].tok].state # "deleted", q # r
                 PROVE  IssueFits(q)'
    BY <1>11 DEF IssueFits
  <2>2. PICK x \in Tokens : x = refresh[q].tok BY <2>1 DEF TokensInv, BusyFits
  <2>3. Fits(refresh[q].client, refresh[q].version, token[x].login)
    BY <1>9, <2>1, <2>2 DEF TokensInv, IssueFits
  <2>4. QED BY <1>6, <1>9, <1>11, <2>2, <2>3 DEF IssueFits, Fits
<1>16. ASSUME NEW q \in Requests PROVE BusyFits(q)'
  <2>1. SUFFICES ASSUME refresh[q].pc # "idle" PROVE BusyFits(q)' BY <1>2, <1>11 DEF BusyFits
  <2>2. PICK x \in Tokens : x = refresh[q].tok BY <2>1 DEF TokensInv, BusyFits
  <2>3. /\ refresh[q].client \in Clients /\ token[x].client = refresh[q].client /\ token[x].state # "free"
        /\ refresh[q].pc \in {"issue", "mark", "reply"} => token[x].age < 2
        /\ refresh[q].pc = "sent" /\ token[x].state = "rotated" /\ token[x].age >= 2 => Lost(x)
        /\ refresh[q].pc = "alarm" => token[x].age >= 2 /\ Lost(x)
    BY <2>1, <2>2 DEF TokensInv, BusyFits
  <2>4. token[x].age \in Nat BY <1>3 DEF TokenRows
  <2>5. CASE x = t
    <3>1. refresh[q].pc # "alarm" BY <1>2, <2>3, <2>4, <2>5
    <3>2. token'[x].age = 0 BY <1>4, <1>8, <2>5
    <3>3. QED BY <1>9, <1>11, <2>2, <2>3, <3>1, <3>2 DEF BusyFits
  <2>6. CASE x # t
    <3>1. token'[x] = token[x] /\ q # r /\ (Lost(x) => Lost(x)') BY <1>1, <1>8, <1>10, <2>2, <2>6
    <3>2. QED BY <1>11, <2>2, <2>3, <3>1 DEF BusyFits
  <2>7. QED BY <2>5, <2>6
<1>17. ASSUME NEW q \in Requests PROVE NewApart(q)'
  <2>1. SUFFICES ASSUME refresh[q].pc \in {"mark", "reply"} PROVE NewApart(q)'
    BY <1>2, <1>11 DEF NewApart
  <2>2. PICK x \in Tokens, y \in Tokens : x = refresh[q].new /\ y = refresh[q].tok
    BY <2>1 DEF TokensInv, BusyFits, NewApart
  <2>3. /\ token[x].client = refresh[q].client /\ token[x].login = token[y].login
        /\ token[x].state \in {"live", "revoked", "deleted"}
        /\ \A c \in Clients : held[c] # x
        /\ \A p \in Requests : /\ refresh[p].pc # "idle" => refresh[p].tok # x
                               /\ p # q /\ refresh[p].pc \in {"mark", "reply"} => refresh[p].new # x
    BY <2>1, <2>2 DEF TokensInv, NewApart
  <2>4. x # t BY <1>1, <1>2, <2>3
  <2>5. token'[x] = token[x] /\ token'[y].login = token[y].login BY <1>8, <1>9, <2>4
  <2>6. \A p \in Requests : /\ refresh'[p].pc # "idle" => refresh'[p].tok # x
                            /\ p # q /\ refresh'[p].pc \in {"mark", "reply"} => refresh'[p].new # x
    BY <1>2, <1>11, <2>3
  <2>7. QED BY <1>6, <1>11, <2>2, <2>3, <2>5, <2>6 DEF NewApart
<1>18. ASSUME NEW c \in Clients PROVE HeldFits(c)'
  <2>1. SUFFICES ASSUME held[c] # None PROVE HeldFits(c)' BY <1>6 DEF HeldFits
  <2>2. PICK x \in Tokens : x = held[c] BY <2>1 DEF TokensInv, TokensTypeOK
  <2>3. /\ token[x].client = c /\ token[x].state # "free" /\ token[x].login = device[c].login
        /\ token[x].state = "rotated" => Lost(x) \/ \E q \in Requests : Answers(q, c, x)
    BY <2>1, <2>2 DEF TokensInv, HeldFits
  <2>4. token'[x].state = "rotated" => Lost(x)' \/ \E q \in Requests : Answers(q, c, x)'
    <3>1. CASE x = t
      <4>1. Answers(r, c, x)' BY <1>2, <1>4, <1>5, <1>7, <1>8, <2>3, <3>1 DEF Answers
      <4>2. QED BY <4>1
    <3>2. CASE x # t
      <4>1. token'[x] = token[x] BY <1>8, <3>2
      <4>2. ASSUME NEW q \in Requests, Answers(q, c, x) PROVE Answers(q, c, x)'
        BY <1>2, <1>11, <4>1, <4>2 DEF Answers
      <4>3. QED BY <1>10, <2>3, <3>2, <4>1, <4>2
    <3>3. QED BY <3>1, <3>2
  <2>5. QED BY <1>6, <1>9, <2>2, <2>3, <2>4 DEF HeldFits
<1>19. QED BY <1>12, <1>13, <1>14, <1>15, <1>16, <1>17, <1>18 DEF TokensInv

-----------------------------------------------------------------------------
\* A refresh that ends leaves the others as they are.
LEMMA OneEnds ==
    ASSUME TokensInv, NEW r \in Requests, refresh' = [refresh EXCEPT ![r] = NoRefresh]
    PROVE  /\ refresh' \in [Requests -> Renewals] /\ refresh'[r].pc = "idle"
           /\ \A q \in Requests : /\ q # r => refresh'[q] = refresh[q]
                                  /\ refresh'[q] = refresh[q] \/ refresh'[q].pc = "idle"
<1>1. refresh \in [Requests -> Renewals] /\ NoRefresh \in Renewals /\ NoRefresh.pc = "idle"
  BY DEF TokensInv, TokensTypeOK, NoRefresh, Renewals
<1>2. refresh' \in [Requests -> Renewals] /\ \A q \in Requests : refresh'[q] = IF q = r THEN NoRefresh ELSE refresh[q]
  BY <1>1
<1>3. QED BY <1>1, <1>2

\* Abandon, and the death of the server: the request is gone, the rows stay.
LEMMA GoneFits ==
    ASSUME TokensInv, NEW r \in Requests, refresh[r].pc \in {"issue", "mark"},
           refresh' = [refresh EXCEPT ![r] = NoRefresh], token' = token, device' = device, held' = held
    PROVE  TokensInv'
<1>1. \A c \in Clients : HeldFits(c)' /\ HoldsOn(c) BY RowsQuiet, OneEnds, HoldStill
<1>2. TokensTypeOK' BY OneEnds DEF TokensInv, TokensTypeOK
<1>3. QED BY <1>1, <1>2, OneEnds, RowsQuiet, TokensTogether, TokensAssumption DEF TokensAssumption

\* A reply arrives: the client keeps the new token, unless it has signed in anew.
LEMMA StoreFits == ASSUME TokensInv, NEW r \in Requests, Store(r) PROVE TokensInv'
<1>1. PICK t \in Tokens, n \in Tokens, c \in Clients :
          t = refresh[r].tok /\ n = refresh[r].new /\ c = refresh[r].client
  BY DEF Store, TokensInv, BusyFits, NewApart
<1>2. /\ refresh[r].pc = "reply" /\ token[n].client = c /\ token[n].login = token[t].login
      /\ token[n].state \in {"live", "revoked", "deleted"}
  BY <1>1 DEF Store, TokensInv, NewApart
<1>3. token' = token /\ device' = device /\ refresh' = [refresh EXCEPT ![r] = NoRefresh] BY DEF Store
<1>4. Kinship BY <1>3, RowsQuiet
<1>5. held \in [Clients -> Tokens \union {None}] BY DEF TokensInv, TokensTypeOK
<1>6. ASSUME NEW d \in Clients, d # c, held'[d] = held[d] PROVE HeldFits(d)' /\ HoldsOn(d)
  <2>1. \A q \in Requests : Answers(q, d, held[d]) => refresh'[q] = refresh[q]
    BY <1>1, <1>3, <1>6, OneEnds DEF Answers
  <2>2. QED BY <1>3, <1>4, <1>6, <2>1, HeldStays DEF HoldsOn
<1>7. /\ held' \in [Clients -> Tokens \union {None}]
      /\ \A d \in Clients : HeldFits(d)' /\ HoldsOn(d)
  <2>1. CASE token[n].login = device[c].login
    <3>1. held' = [held EXCEPT ![c] = n] BY <1>1, <2>1 DEF Store
    <3>2. /\ held' \in [Clients -> Tokens \union {None}] /\ held'[c] = n
          /\ \A d \in Clients \ {c} : held'[d] = held[d]
      BY <1>5, <3>1
    <3>3. HeldFits(c)' BY <1>2, <1>3, <2>1, <3>2, HeldAnew
    <3>4. HoldsOn(c) BY <1>1, <1>2, <1>3, <3>2, OneEnds DEF HoldsOn
    <3>5. QED BY <1>6, <3>2, <3>3, <3>4
  <2>2. CASE token[n].login # device[c].login
    <3>1. held' = held BY <1>1, <2>2 DEF Store
    <3>2. ~Answers(r, c, held[c])
      <4>1. SUFFICES ASSUME held[c] = t PROVE FALSE BY <1>1 DEF Answers
      <4>2. token[t].login = device[c].login
        BY <4>1, TokensAssumption DEF TokensInv, HeldFits, TokensAssumption
      <4>3. QED BY <1>2, <2>2, <4>2
    <3>3. \A q \in Requests : Answers(q, c, held[c]) => refresh'[q] = refresh[q] BY <1>3, <3>2, OneEnds
    <3>4. HeldFits(c)' /\ HoldsOn(c) BY <1>3, <1>4, <3>1, <3>3, HeldStays DEF HoldsOn
    <3>5. QED BY <1>5, <1>6, <3>1, <3>4
  <2>3. QED BY <2>1, <2>2
<1>8. TokensTypeOK' BY <1>3, <1>7, OneEnds DEF TokensInv, TokensTypeOK
<1>9. QED BY <1>3, <1>7, <1>8, OneEnds, RowsQuiet, TokensTogether, TokensAssumption DEF TokensAssumption

\* A reply is lost: whoever holds the token it replaced may set off the alarm one day.
LEMMA ReplyLostFits == ASSUME TokensInv, NEW r \in Requests, ReplyLost(r) PROVE TokensInv'
<1>1. PICK n \in Tokens : n = refresh[r].new BY DEF ReplyLost, TokensInv, NewApart
<1>2. refresh[r].pc = "reply" /\ token[n].state # "free" BY <1>1 DEF ReplyLost, TokensInv, NewApart
<1>3. /\ device' = device /\ held' = held /\ refresh' = [refresh EXCEPT ![r] = NoRefresh]
      /\ token' = [token EXCEPT ![n].lost = TRUE]
  BY <1>1 DEF ReplyLost
<1>4. token \in [Tokens -> TokenRows] BY DEF TokensInv, TokensTypeOK
<1>5. \A k \in TokenRows :
          LET s == [k EXCEPT !.lost = TRUE]
          IN  /\ s \in TokenRows /\ s.client = k.client /\ s.login = k.login /\ s.version = k.version
              /\ s.next = k.next /\ s.age = k.age /\ s.state = k.state /\ s.lost = TRUE
  BY DEF TokenRows
<1> DEFINE new == [token[n] EXCEPT !.lost = TRUE]
<1>6. /\ new \in TokenRows /\ new.client = token[n].client /\ new.login = token[n].login
      /\ new.version = token[n].version /\ new.next = token[n].next /\ new.age = token[n].age
      /\ new.state = token[n].state /\ new.lost
  BY <1>4, <1>5
<1>7. token' = [token EXCEPT ![n] = new] BY <1>3, <1>4
<1> HIDE DEF new
<1>8. token' \in [Tokens -> TokenRows] /\ token'[n] = new /\ \A x \in Tokens \ {n} : token'[x] = token[x]
  BY <1>4, <1>6, <1>7
<1>9. Kinship BY <1>6, <1>8 DEF Kinship, Kin
<1>10. \A c \in Clients : MovesOn(c) BY <1>3, DeviceMoves DEF TokensInv, TokensTypeOK, Owners
<1>11. \A x \in Tokens : /\ token'[x].state = "free" => token'[x] = NoToken
                         /\ token[x].state = "free" => token'[x] = token[x]
  BY <1>2, <1>6, <1>8 DEF TokensInv, TokensTypeOK
<1>12. ASSUME NEW c \in Clients PROVE HeldFits(c)' /\ HoldsOn(c)
  <2>1. CASE Answers(r, c, held[c]) /\ held[c] # None
    <3>1. PICK x \in Tokens : x = held[c] BY <2>1 DEF TokensInv, TokensTypeOK
    <3>2. token[x].client = c /\ token[x].state # "free" /\ token[x].login = device[c].login
      BY <2>1, <3>1 DEF TokensInv, HeldFits
    <3>3. /\ token'[x].client = c /\ token'[x].state # "free" /\ token'[x].login = device[c].login
          /\ token'[x].next = token[x].next
      BY <3>2, <1>9 DEF Kinship, Kin
    <3>4. token[x].next = n BY <1>1, <2>1, <3>1 DEF Answers
    <3>5. Lost(x)' BY <1>6, <1>8, <3>3, <3>4 DEF Lost
    <3>6. QED BY <1>3, <3>1, <3>3, <3>5 DEF HeldFits, HoldsOn
  <2>2. CASE ~Answers(r, c, held[c])
    <3>1. \A q \in Requests : Answers(q, c, held[c]) => refresh'[q] = refresh[q] BY <1>3, <2>2, OneEnds
    <3>2. QED BY <1>3, <1>9, <3>1, HeldStays DEF HoldsOn
  <2>3. CASE held[c] = None BY <1>3, <2>3 DEF HeldFits, HoldsOn
  <2>4. QED BY <2>1, <2>2, <2>3
<1>13. TokensTypeOK' BY <1>3, <1>8, <1>11, OneEnds DEF TokensInv, TokensTypeOK
<1>14. QED
  BY <1>3, <1>9, <1>10, <1>11, <1>12, <1>13, OneEnds, TokensTogether, TokensAssumption DEF TokensAssumption

-----------------------------------------------------------------------------
\* The administrator's, a new password's and a kick's revocation.
LEMMA RevokeAllFits == ASSUME TokensInv, RevokeAll PROVE TokensInv'
<1>1. token' = Revoked(Clients) /\ device' = device /\ held' = held /\ refresh' = refresh BY DEF RevokeAll
<1>2. \A c \in Clients : HeldFits(c)' /\ HoldsOn(c) BY <1>1, RevokedKin, HoldStill
<1>3. \A c \in Clients : MovesOn(c) BY <1>1, DeviceMoves DEF TokensInv, TokensTypeOK, Owners
<1>4. TokensTypeOK' BY <1>1, RevokedKin DEF TokensInv, TokensTypeOK
<1>5. QED BY <1>1, <1>2, <1>3, <1>4, RevokedKin, TokensTogether, TokensAssumption DEF TokensAssumption

\* A device row after it was revoked, or given back.
LEMMA DeviceChanged ==
    ASSUME TokensInv, NEW c \in Clients, NEW o \in Owners, device' = [device EXCEPT ![c] = o]
    PROVE  /\ device' \in [Clients -> Owners] /\ device'[c] = o
           /\ \A d \in Clients \ {c} : device'[d] = device[d] /\ MovesOn(d)
<1>1. device \in [Clients -> Owners] BY DEF TokensInv, TokensTypeOK
<1>2. /\ device' \in [Clients -> Owners] /\ device'[c] = o
      /\ \A d \in Clients \ {c} : device'[d] = device[d]
  BY <1>1
<1>3. \A d \in Clients \ {c} : MovesOn(d) BY <1>1, <1>2, DeviceMoves DEF Owners
<1>4. QED BY <1>2, <1>3

\* Revoking a device keeps the invariant.
LEMMA KickFits == ASSUME TokensInv, NEW c \in Clients, Kick(c) PROVE TokensInv'
<1>1. token' = Revoked({c}) /\ held' = held /\ refresh' = refresh BY DEF Kick
<1>2. device[c] \in Owners BY DEF TokensInv, TokensTypeOK
<1>3. PICK v \in Nat, w \in Nat : v = device[c].version /\ w = v + 1
  <2>1. device[c].version \in Nat BY <1>2 DEF Owners
  <2>2. QED BY <2>1
<1> DEFINE o == [device[c] EXCEPT !.status = "revoked", !.version = w]
<1>4. /\ o \in Owners /\ o.status = "revoked" /\ o.version = w /\ o.login = device[c].login
  BY <1>2 DEF Owners
<1>5. device' = [device EXCEPT ![c] = o] BY <1>2, <1>3 DEF Kick, TokensInv, TokensTypeOK
<1> HIDE DEF o
<1>6. /\ device' \in [Clients -> Owners] /\ device'[c] = o
      /\ \A d \in Clients \ {c} : device'[d] = device[d] /\ MovesOn(d)
  BY <1>4, <1>5, DeviceChanged
<1>7. MovesOn(c)
  <2>1. w > v BY <1>3
  <2>2. device'[c].version \in Nat /\ device'[c].version > device[c].version /\ device'[c].status # "none"
    BY <1>3, <1>4, <1>6, <2>1
  <2>3. QED BY <2>2, DeviceMoves
<1>8. \A d \in Clients : device'[d].login = device[d].login BY <1>4, <1>6
<1>9. \A d \in Clients : HeldFits(d)' /\ HoldsOn(d) BY <1>1, <1>8, RevokedKin, HoldStill
<1>10. TokensTypeOK' BY <1>1, <1>6, RevokedKin DEF TokensInv, TokensTypeOK
<1>11. \A d \in Clients : MovesOn(d) BY <1>6, <1>7
<1>12. QED BY <1>1, <1>9, <1>10, <1>11, RevokedKin, TokensTogether, TokensAssumption DEF TokensAssumption

\* The rows of an app go with its device; a browser's are revoked.
LEMMA SignedOutKin ==
    ASSUME TokensInv, NEW c \in Clients, token' = SignedOut(c)
    PROVE  /\ Kinship /\ token' \in [Tokens -> TokenRows]
           /\ \A t \in Tokens : /\ token[t].state = "free" => token'[t] = token[t]
                                /\ token'[t].state = "free" => token'[t] = NoToken
                                /\ c \in Apps /\ token'[t].client = c => token'[t].state = "deleted"
<1>1. CASE c \notin Apps BY <1>1, RevokedKin DEF SignedOut
<1>2. CASE c \in Apps
  <2>1. token \in [Tokens -> TokenRows] BY DEF TokensInv, TokensTypeOK
  <2>2. \A k \in TokenRows :
            LET s == [k EXCEPT !.state = "deleted"]
            IN  /\ s \in TokenRows /\ s.client = k.client /\ s.login = k.login /\ s.version = k.version
                /\ s.next = k.next /\ s.age = k.age /\ s.lost = k.lost /\ s.state = "deleted"
    BY DEF TokenRows
  <2>3. /\ token' = [t \in Tokens |-> token'[t]]
        /\ \A t \in Tokens : token'[t] = IF token[t].client = c THEN [token[t] EXCEPT !.state = "deleted"]
                                                              ELSE token[t]
    BY <1>2 DEF SignedOut
  <2>4. ASSUME NEW t \in Tokens
        PROVE  /\ token'[t] \in TokenRows /\ Kin(t)
               /\ (token[t].state = "free" => token'[t] = token[t])
               /\ (token'[t].state = "free" => token'[t] = NoToken)
               /\ (token'[t].client = c => token'[t].state = "deleted")
    <3>1. CASE token[t].client = c
      <4>1. token'[t] = [token[t] EXCEPT !.state = "deleted"] /\ token[t] \in TokenRows BY <2>1, <2>3, <3>1
      <4>2. /\ token'[t] \in TokenRows /\ token'[t].client = token[t].client /\ token'[t].login = token[t].login
            /\ token'[t].version = token[t].version /\ token'[t].next = token[t].next
            /\ token'[t].age = token[t].age /\ token'[t].lost = token[t].lost /\ token'[t].state = "deleted"
        BY <2>2, <4>1
      <4>3. token[t].state # "free"
        BY <3>1, TokensAssumption DEF TokensInv, TokensTypeOK, NoToken, TokensAssumption
      <4>4. QED BY <4>2, <4>3 DEF Kin
    <3>2. CASE token[t].client # c
      <4>1. token'[t] = token[t] BY <2>3, <3>2
      <4>2. QED BY <2>1, <3>2, <4>1 DEF Kin, TokensInv, TokensTypeOK
    <3>3. QED BY <3>1, <3>2
  <2>5. QED BY <2>3, <2>4 DEF Kinship
<1>3. QED BY <1>1, <1>2

\* Signing out keeps the invariant.
LEMMA SignOutFits == ASSUME TokensInv, NEW c \in Clients, SignOut(c) PROVE TokensInv'
<1>1. token' = SignedOut(c) /\ held' = [held EXCEPT ![c] = None] /\ refresh' = refresh BY DEF SignOut
<1>2. device[c] \in Owners BY DEF TokensInv, TokensTypeOK
<1> DEFINE o == [device[c] EXCEPT !.status = "none"]
<1>3. o \in Owners /\ o.login = device[c].login BY <1>2 DEF Owners
<1>4. device' = [device EXCEPT ![c] = o] BY <1>2 DEF SignOut, TokensInv, TokensTypeOK
<1> HIDE DEF o
<1>5. /\ device' \in [Clients -> Owners] /\ device'[c] = o
      /\ \A d \in Clients \ {c} : device'[d] = device[d] /\ MovesOn(d)
  BY <1>3, <1>4, DeviceChanged
<1>6. c \in Apps => MovesOn(c) BY <1>1, SignedOutKin DEF MovesOn
<1>7. held \in [Clients -> Tokens \union {None}] BY DEF TokensInv, TokensTypeOK
<1>8. /\ held' \in [Clients -> Tokens \union {None}] /\ held'[c] = None
      /\ \A d \in Clients \ {c} : held'[d] = held[d]
  BY <1>1, <1>7
<1>9. ASSUME NEW d \in Clients PROVE HeldFits(d)' /\ HoldsOn(d)
  <2>1. CASE d = c BY <1>8, <2>1 DEF HeldFits, HoldsOn
  <2>2. CASE d # c
    <3>1. held'[d] = held[d] /\ device'[d].login = device[d].login BY <1>5, <1>8, <2>2
    <3>2. QED BY <1>1, <3>1, SignedOutKin, HeldStays DEF HoldsOn
  <2>3. QED BY <2>1, <2>2
<1>10. TokensTypeOK' BY <1>1, <1>5, <1>8, SignedOutKin DEF TokensInv, TokensTypeOK
<1>11. \A d \in Apps : MovesOn(d) BY <1>5, <1>6, TokensAssumption DEF TokensAssumption
<1>12. QED BY <1>1, <1>9, <1>10, <1>11, SignedOutKin, TokensTogether

\* Time counts only while no refresh is in progress.
LEMMA AgeStepFits == ASSUME TokensInv, TokensAge PROVE TokensInv'
<1>1. /\ device' = device /\ held' = held /\ refresh' = refresh
      /\ token' = [t \in Tokens |-> IF token[t].state = "rotated" /\ token[t].age < 2
                                    THEN [token[t] EXCEPT !.age = @ + 1] ELSE token[t]]
  BY DEF TokensAge
<1>2. \A r \in Requests : refresh[r].pc = "idle" BY DEF TokensAge, Busy
<1>3. token \in [Tokens -> TokenRows] BY DEF TokensInv, TokensTypeOK
<1>4. \A k \in TokenRows :
          LET s == [k EXCEPT !.age = @ + 1]
          IN  /\ s \in TokenRows /\ s.client = k.client /\ s.login = k.login /\ s.version = k.version
              /\ s.next = k.next /\ s.state = k.state /\ s.lost = k.lost
  BY DEF TokenRows
<1>5. ASSUME NEW t \in Tokens
      PROVE  /\ token'[t] \in TokenRows /\ token'[t].client = token[t].client /\ token'[t].login = token[t].login
             /\ token'[t].version = token[t].version /\ token'[t].next = token[t].next
             /\ token'[t].state = token[t].state /\ token'[t].lost = token[t].lost
             /\ (token[t].state # "rotated" => token'[t] = token[t])
  <2>1. CASE token[t].state = "rotated" /\ token[t].age < 2
    <3>1. token'[t] = [token[t] EXCEPT !.age = @ + 1] BY <1>1, <2>1
    <3>2. QED BY <1>3, <1>4, <2>1, <3>1
  <2>2. CASE ~(token[t].state = "rotated" /\ token[t].age < 2)
    <3>1. token'[t] = token[t] BY <1>1, <2>2
    <3>2. QED BY <1>3, <3>1
  <2>3. QED BY <2>1, <2>2
<1>6. token' \in [Tokens -> TokenRows] BY <1>1, <1>5
<1>7. TokensTypeOK' BY <1>1, <1>5, <1>6 DEF TokensInv, TokensTypeOK
<1>8. \A t \in Tokens : AgeFits(t)' BY <1>5 DEF TokensInv, AgeFits
<1>9. \A t \in Tokens : TokenFits(t)' BY <1>1, <1>5 DEF TokensInv, TokenFits, Fits
<1>10. \A r \in Requests : IssueFits(r)' /\ BusyFits(r)' /\ NewApart(r)'
  BY <1>1, <1>2 DEF IssueFits, BusyFits, NewApart
<1>11. ASSUME NEW c \in Clients PROVE HeldFits(c)'
  <2>1. SUFFICES ASSUME held[c] # None PROVE HeldFits(c)' BY <1>1 DEF HeldFits
  <2>2. PICK t \in Tokens : t = held[c] BY <2>1 DEF TokensInv, TokensTypeOK
  <2>3. /\ token[t].client = c /\ token[t].state # "free" /\ token[t].login = device[c].login
        /\ token[t].state = "rotated" => Lost(t)
    BY <1>2, <2>1, <2>2 DEF TokensInv, HeldFits, Answers
  <2>4. Lost(t) => Lost(t)' BY <1>5 DEF Lost
  <2>5. QED BY <1>1, <1>5, <2>2, <2>3, <2>4 DEF HeldFits
<1>12. QED BY <1>7, <1>8, <1>9, <1>10, <1>11 DEF TokensInv

-----------------------------------------------------------------------------
\* A client starts anew with a row of its own: what is under way of its former life ends
\* without it.
LEMMA AnewFits ==
    ASSUME TokensInv, NEW c \in Clients, NEW n \in Tokens, token[n].state = "free", NEW o \in Owners,
           Kinship, token' \in [Tokens -> TokenRows], token'[n] = Created(c, o.version, o.login),
           \A t \in Tokens \ {n} : token[t].state = "free" => token'[t] = token[t],
           device' = [device EXCEPT ![c] = o], c \in Apps => o.status = "active" /\ MovesOn(c),
           held' = [held EXCEPT ![c] = n], refresh' \in [Requests -> Renewals],
           \A q \in Requests : refresh'[q] = refresh[q] \/ (refresh'[q].pc = "idle" /\ refresh[q].client = c)
    PROVE  TokensInv'
<1>1. PICK v \in Nat, l \in Nat : v = o.version /\ l = o.login BY DEF Owners
<1>2. LET k == token'[n]
      IN  k \in TokenRows /\ k.client = c /\ k.state = "live" /\ k.version = v /\ k.login = l /\ k.age = 0
  BY <1>1, CreatedRow
<1>3. /\ device' \in [Clients -> Owners] /\ device'[c] = o
      /\ \A d \in Clients \ {c} : device'[d] = device[d] /\ MovesOn(d)
  BY DeviceChanged
<1>4. \A d \in Apps : MovesOn(d) BY <1>3, TokensAssumption DEF TokensAssumption
<1>5. held \in [Clients -> Tokens \union {None}] BY DEF TokensInv, TokensTypeOK
<1>6. /\ held' \in [Clients -> Tokens \union {None}] /\ held'[c] = n
      /\ \A d \in Clients \ {c} : held'[d] = held[d]
  BY <1>5
<1>7. TokenFits(n)' /\ AgeFits(n)' BY <1>1, <1>2, <1>3 DEF TokenFits, AgeFits, Fits
<1>8. ASSUME NEW d \in Clients PROVE HeldFits(d)' /\ HoldsOn(d)
  <2>1. CASE d = c
    <3>1. HeldFits(c)' BY <1>1, <1>2, <1>3, <1>6, HeldAnew
    <3>2. QED BY <1>6, <2>1, <3>1 DEF HoldsOn
  <2>2. CASE d # c
    <3>1. held'[d] = held[d] /\ device'[d].login = device[d].login BY <1>3, <1>6, <2>2
    <3>2. \A q \in Requests : Answers(q, d, held[d]) => refresh'[q] = refresh[q] BY <2>2 DEF Answers
    <3>3. QED BY <3>1, <3>2, HeldStays DEF HoldsOn
  <2>3. QED BY <2>1, <2>2
<1>9. \A t \in Tokens : token'[t].state = "free" => token'[t] = NoToken
  <2>1. SUFFICES ASSUME NEW t \in Tokens, token'[t].state = "free" PROVE token'[t] = NoToken OBVIOUS
  <2>2. token[t].state = "free" BY <2>1 DEF Kinship, Kin
  <2>3. t # n BY <1>2, <2>1
  <2>4. QED BY <2>2, <2>3 DEF TokensInv, TokensTypeOK
<1>10. TokensTypeOK' BY <1>3, <1>6, <1>9 DEF TokensTypeOK
<1>11. \A t \in Tokens : token[t].state = "free" => token'[t] = token[t] \/ (TokenFits(t)' /\ AgeFits(t)')
  BY <1>7
<1>12. QED BY <1>4, <1>8, <1>10, <1>11, TokensTogether

\* Signing in keeps the invariant.
LEMMA SignInFits == ASSUME TokensInv, NEW c \in Clients, SignIn(c) PROVE TokensInv'
<1> DEFINE o == [status |-> IF c \in Apps THEN "active" ELSE "none",
                 version |-> NextVersion(c), login |-> device[c].login + 1]
<1>1. device[c] \in Owners /\ token \in [Tokens -> TokenRows] /\ refresh \in [Requests -> Renewals]
  BY DEF TokensInv, TokensTypeOK
<1>2. PICK v \in Nat, l \in Nat : v = device[c].version /\ l = device[c].login BY <1>1 DEF Owners
<1>3. NextVersion(c) = IF device[c].status = "none" THEN 0 ELSE v + 1 BY <1>2 DEF NextVersion
<1>4. /\ o \in Owners /\ o.version = NextVersion(c) /\ o.login = l + 1
      /\ c \in Apps => o.status = "active"
  BY <1>2, <1>3 DEF Owners
<1>5. PICK n \in FreeTokens : /\ token' = [token EXCEPT ![n] = Created(c, NextVersion(c), l + 1)]
                              /\ held' = [held EXCEPT ![c] = n]
  BY <1>2 DEF SignIn
<1>6. n \in Tokens /\ token[n].state = "free" /\ refresh' = refresh BY DEF FreeTokens, SignIn
<1>7. device' = [device EXCEPT ![c] = o] BY <1>1, <1>2 DEF SignIn, TokensInv, TokensTypeOK
<1> HIDE DEF o
<1>8. Created(c, o.version, o.login) \in TokenRows BY <1>4, CreatedRow DEF Owners
<1>9. /\ token' \in [Tokens -> TokenRows] /\ token'[n] = Created(c, o.version, o.login)
      /\ \A t \in Tokens \ {n} : token'[t] = token[t]
  BY <1>1, <1>4, <1>5, <1>6, <1>8
<1>10. Kinship BY <1>6, <1>9 DEF Kinship, Kin
<1>11. c \in Apps => MovesOn(c)
  <2>1. device'[c] = o BY <1>4, <1>7, DeviceChanged
  <2>2. CASE device[c].status = "none" BY <1>4, <2>1, <2>2, DeviceMoves DEF Owners
  <2>3. CASE device[c].status # "none" /\ c \in Apps
    <3>1. v + 1 \in Nat /\ v + 1 > v OBVIOUS
    <3>2. device'[c].version \in Nat /\ device'[c].version > device[c].version /\ device'[c].status # "none"
      BY <1>2, <1>3, <1>4, <2>1, <2>3, <3>1
    <3>3. QED BY <3>2, DeviceMoves
  <2>4. QED BY <2>2, <2>3
<1>12. QED BY <1>1, <1>4, <1>5, <1>6, <1>7, <1>9, <1>10, <1>11, AnewFits

\* Installing an app anew keeps the invariant.
LEMMA ReinstallFits == ASSUME TokensInv, NEW c \in Clients, Reinstall(c) PROVE TokensInv'
<1>1. device[c] \in Owners /\ token \in [Tokens -> TokenRows] /\ refresh \in [Requests -> Renewals]
  BY DEF TokensInv, TokensTypeOK
<1>2. PICK v \in Nat, w \in Nat, m \in Nat : v = device[c].version /\ w = v + 1 /\ m = device[c].login + 1
  <2>1. device[c].version \in Nat /\ device[c].login \in Nat BY <1>1 DEF Owners
  <2>2. device[c].version + 1 \in Nat /\ device[c].login + 1 \in Nat BY <2>1
  <2>3. QED BY <2>1, <2>2
<1> DEFINE o == [device[c] EXCEPT !.version = w, !.login = m]
<1>3. device[c].status = "active" /\ NextVersion(c) = w BY <1>2 DEF Reinstall, NextVersion
<1>4. o \in Owners /\ o.version = w /\ o.login = m /\ o.status = "active"
  BY <1>1, <1>3 DEF Owners
<1>5. PICK n \in FreeTokens : /\ token' = [Revoked({c}) EXCEPT ![n] = Created(c, w, m)]
                              /\ held' = [held EXCEPT ![c] = n]
  BY <1>2, <1>3 DEF Reinstall
<1>6. n \in Tokens /\ token[n].state = "free" BY DEF FreeTokens
<1>7. device' = [device EXCEPT ![c] = o] BY <1>1, <1>2, <1>3 DEF Reinstall, TokensInv, TokensTypeOK
<1> HIDE DEF o
<1>8. Created(c, o.version, o.login) \in TokenRows BY <1>4, CreatedRow DEF Owners
<1>9. \A k \in TokenRows :
          LET s == [k EXCEPT !.state = "revoked"]
          IN  /\ s \in TokenRows /\ s.client = k.client /\ s.login = k.login /\ s.version = k.version
              /\ s.next = k.next /\ s.age = k.age /\ s.lost = k.lost /\ s.state = "revoked"
  BY DEF TokenRows
<1>10. /\ Revoked({c}) \in [Tokens -> TokenRows]
       /\ \A t \in Tokens : \/ Revoked({c})[t] = token[t]
                            \/ token[t].state = "live" /\ Revoked({c})[t] = [token[t] EXCEPT !.state = "revoked"]
  BY <1>1, <1>9 DEF Revoked
<1>11. /\ token' \in [Tokens -> TokenRows] /\ token'[n] = Created(c, o.version, o.login)
       /\ \A t \in Tokens \ {n} : token'[t] = Revoked({c})[t]
  BY <1>4, <1>5, <1>6, <1>8, <1>10
<1>12. ASSUME NEW t \in Tokens, token[t].state # "free" PROVE Kin(t)
  <2>1. token'[t] = Revoked({c})[t] /\ token[t] \in TokenRows BY <1>1, <1>6, <1>11, <1>12
  <2>2. CASE Revoked({c})[t] = token[t] BY <2>1, <2>2 DEF Kin
  <2>3. CASE token[t].state = "live" /\ Revoked({c})[t] = [token[t] EXCEPT !.state = "revoked"]
    <3> DEFINE s == [token[t] EXCEPT !.state = "revoked"]
    <3>1. /\ s.client = token[t].client /\ s.login = token[t].login /\ s.version = token[t].version
          /\ s.next = token[t].next /\ s.age = token[t].age /\ s.lost = token[t].lost /\ s.state = "revoked"
      BY <1>9, <2>1
    <3>2. token'[t] = s BY <2>1, <2>3
    <3> HIDE DEF s
    <3>3. QED BY <2>3, <3>1, <3>2 DEF Kin
  <2>4. QED BY <1>10, <2>2, <2>3
<1>13. \A t \in Tokens \ {n} : token[t].state = "free" => token'[t] = token[t] BY <1>10, <1>11
<1>14. MovesOn(c)
  <2>1. device'[c] = o BY <1>4, <1>7, DeviceChanged
  <2>4. w > v BY <1>2
  <2>2. device'[c].version \in Nat /\ device'[c].version > device[c].version /\ device'[c].status # "none"
    BY <1>2, <1>4, <2>1, <2>4
  <2>3. QED BY <2>2, DeviceMoves
<1>15. /\ refresh' \in [Requests -> Renewals]
       /\ \A q \in Requests : refresh'[q] = refresh[q] \/ (refresh'[q].pc = "idle" /\ refresh[q].client = c)
  <2>1. NoRefresh \in Renewals /\ NoRefresh.pc = "idle" BY DEF NoRefresh, Renewals
  <2>2. refresh' = [r \in Requests |-> IF refresh[r].client = c /\ refresh[r].pc \notin {"issue", "mark"}
                                       THEN NoRefresh ELSE refresh[r]]
    BY DEF Reinstall
  <2>3. QED BY <1>1, <2>1, <2>2
<1>16. Kinship BY <1>12 DEF Kinship
<1>17. QED BY <1>4, <1>5, <1>6, <1>7, <1>11, <1>13, <1>14, <1>15, <1>16, AnewFits

-----------------------------------------------------------------------------
\* Every action keeps the invariant of the tokens.
LEMMA TokensStep == ASSUME TokensInv, [TokensNext]_tokenVars PROVE TokensInv'
<1>1. ASSUME NEW c \in Clients, SignIn(c) \/ Reinstall(c) \/ SignOut(c) \/ Kick(c) PROVE TokensInv'
  BY <1>1, SignInFits, ReinstallFits, SignOutFits, KickFits
<1>2. ASSUME NEW r \in Requests, NEW c \in Clients, AskRefresh(r, c) PROVE TokensInv' BY <1>2, AskFits
<1>3. ASSUME NEW r \in Requests, Abandon(r) \/ ServerDies(r) PROVE TokensInv'
  <2>1. /\ refresh[r].pc \in {"issue", "mark"} /\ refresh' = [refresh EXCEPT ![r] = NoRefresh]
        /\ token' = token /\ device' = device /\ held' = held
    BY <1>3 DEF Abandon, ServerDies
  <2>2. QED BY <2>1, GoneFits
<1>4. ASSUME NEW r \in Requests, ServeRefresh(r) \/ ReplyLost(r) PROVE TokensInv'
  BY <1>3, <1>4, AdmitFits, RefuseFits, SuspectFits, AlarmFits, IssueRowFits, ReplaceFits, StoreFits,
     ReplyLostFits
  DEF ServeRefresh
<1>5. CASE UNCHANGED tokenVars
  <2>1. token' = token /\ device' = device /\ held' = held /\ refresh' = refresh BY <1>5 DEF tokenVars
  <2>2. \A c \in Clients : HeldFits(c)' /\ HoldsOn(c) BY <2>1, RowsQuiet, HoldStill
  <2>3. TokensTypeOK' BY <2>1 DEF TokensInv, TokensTypeOK
  <2>4. QED BY <2>1, <2>2, <2>3, RowsQuiet, TokensTogether, TokensAssumption DEF TokensAssumption
<1>6. CASE TokensNext BY <1>1, <1>2, <1>3, <1>4, <1>6, RevokeAllFits, AgeStepFits DEF TokensNext
<1>7. QED BY <1>5, <1>6

\* A token of a former life of a device is never accepted again, even one issued by a
\* rotation that had read the device before it was removed, and the alarm that signs the
\* account out means that a successor was lost on its way: for every number of clients,
\* tokens and refreshes in progress, with crashes, lost replies and overlapping requests
\* (rotateRefreshToken, registerDeviceSlot, revokeDevices, logout).
THEOREM TokensKept == MCSpec => [](FormerLifeEnded /\ AlarmMeansLoss)
<1>1. MCInit => TokensInv BY TokensInitial DEF MCInit
<1>2. TokensInv /\ [MCNext]_accountVars => TokensInv' BY TokenSteps, TokensStep
<1>3. TokensInv => FormerLifeEnded /\ AlarmMeansLoss
  <2> SUFFICES ASSUME TokensInv PROVE FormerLifeEnded /\ AlarmMeansLoss OBVIOUS
  <2>1. FormerLifeEnded
    <3>1. SUFFICES ASSUME NEW t \in Tokens, token[t].client \in Apps, Usable(t)
                   PROVE  token[t].login = device[token[t].client].login
      BY DEF FormerLifeEnded
    <3>2. /\ token[t].state \in {"live", "rotated"}
          /\ device[token[t].client].status = "active" /\ device[token[t].client].version = token[t].version
      BY <3>1 DEF Usable, Fenced
    <3>3. QED BY <3>1, <3>2 DEF TokensInv, TokenFits, Fits
  <2>2. AlarmMeansLoss BY DEF AlarmMeansLoss, TokensInv, BusyFits, Lost
  <2>3. QED BY <2>1, <2>2
<1>4. QED BY <1>1, <1>2, <1>3, PTL DEF MCSpec

-----------------------------------------------------------------------------
(* The chains of rotated tokens, and what a browser that signs out leaves.  *)

\* Clients without a device row: the site and the extension before it has one.
Browsers == Clients \ Apps
\* The tokens of a client that nothing has replaced or revoked.
LiveOf(c) == {t \in Tokens : token[t].client = c /\ token[t].state = "live"}

\* The n tokens p replaced t one after the other, and the last one is live (replacedById).
Path(t, n, p) ==
    /\ p[1] = token[t].next
    /\ token[p[n]].state = "live"
    /\ \A i \in 1 .. n : token[p[i]].client = token[t].client
    /\ \A i \in 1 .. n - 1 : token[p[i]].state = "rotated" /\ p[i + 1] = token[p[i]].next
\* Some number of replacements leads from t to a live token.
Leads(t) == \E n \in Nat \ {0} : \E p \in [1 .. n -> Tokens] : Path(t, n, p)
\* A token that is live or whose replacements lead to a live one, however old.
Good(t) == token[t].state = "live" \/ (token[t].state = "rotated" /\ Leads(t))
\* The replacements lead to a live one in as many steps as the server looks at.
Within(t) == \E n \in 1 .. Depth : \E p \in [1 .. n -> Tokens] : Path(t, n, p)

\* A replacement is made after what it replaced, so it was rotated no longer ago.
AgesFall(t) ==
    token[t].state = "rotated" /\ token[t].client \in Browsers =>
        /\ token[t].next \in Tokens
        /\ token[token[t].next].state = "rotated" => token[token[t].next].age <= token[t].age

\* A request of a browser that has a live token was sent with a good one; past the check of
\* its token it belongs to a browser that has a live one, and what it wrote is live.
WorkOf(r, c) ==
    refresh[r].client = c =>
        /\ refresh[r].pc = "sent" /\ LiveOf(c) # {} => Good(refresh[r].tok)
        /\ refresh[r].pc \in {"issue", "mark", "reply"} => LiveOf(c) # {}
        /\ refresh[r].pc \in {"mark", "reply"} => token[refresh[r].new].state = "live"
\* While a browser has a live token, its page holds a good one: the page always knows enough
\* to sign out what is live.
Followed(c) ==
    /\ device[c].status = "none"
    /\ LiveOf(c) # {} => held[c] # None /\ Good(held[c])
    /\ \A r \in Requests : WorkOf(r, c)

\* A live token is a client's.
Owned(t) == token[t].state = "live" => token[t].client \in Clients

\* The inductive invariant behind NothingLeftBehind.
ChainInv ==
    /\ TokensInv
    /\ \A t \in Tokens : Owned(t)
    /\ \A t \in Tokens : AgesFall(t)
    /\ \A c \in Browsers : Followed(c)

-----------------------------------------------------------------------------
\* A step leaves the tokens that browser c has alone.
KeptChains(c) ==
    \A u \in Tokens : token[u].client = c =>
        /\ token'[u].client = c /\ token'[u].state = token[u].state /\ token'[u].next = token[u].next
\* And makes it no other.
SameChains(c) == KeptChains(c) /\ \A u \in Tokens : token'[u].client = c => token[u].client = c

\* What a step leaves alone and adds nothing to is live as before.
LEMMA SameLive == ASSUME NEW c \in Browsers, SameChains(c) PROVE LiveOf(c)' = LiveOf(c)
BY DEF SameChains, KeptChains, LiveOf

\* A path through tokens that are left alone stays.
LEMMA SameLeads ==
    ASSUME NEW c \in Browsers, KeptChains(c), NEW t \in Tokens, token[t].client = c, Leads(t)
    PROVE  Leads(t)'
<1>1. PICK n \in Nat \ {0} : \E p \in [1 .. n -> Tokens] : Path(t, n, p) BY DEF Leads
<1>2. PICK p \in [1 .. n -> Tokens] : Path(t, n, p) BY <1>1
<1>3. 1 \in 1 .. n /\ n \in 1 .. n /\ \A i \in 1 .. n - 1 : i \in 1 .. n OBVIOUS
<1>4. \A i \in 1 .. n : p[i] \in Tokens /\ token[p[i]].client = c BY <1>2 DEF Path
<1>5. \A i \in 1 .. n : /\ token'[p[i]].client = c /\ token'[p[i]].state = token[p[i]].state
                        /\ token'[p[i]].next = token[p[i]].next
  BY <1>4 DEF KeptChains
<1>6. token'[t].client = c /\ token'[t].next = token[t].next BY DEF KeptChains
<1>7. Path(t, n, p)' BY <1>2, <1>3, <1>5, <1>6 DEF Path
<1>8. QED BY <1>7 DEF Leads

\* A good token stays good while the tokens of its client are left alone.
LEMMA SameGood ==
    ASSUME NEW c \in Browsers, KeptChains(c), NEW t \in Tokens, token[t].client = c, Good(t)
    PROVE  Good(t)'
BY SameLeads DEF Good, KeptChains

\* A good token leads to a live one.
LEMMA GoodIsLive ==
    ASSUME NEW t \in Tokens, Good(t) PROVE LiveOf(token[t].client) # {}
<1>1. CASE token[t].state = "live" BY <1>1 DEF LiveOf
<1>2. CASE Leads(t)
  <2>0. PICK n \in Nat \ {0} : \E p \in [1 .. n -> Tokens] : Path(t, n, p) BY <1>2 DEF Leads
  <2>1. PICK p \in [1 .. n -> Tokens] : Path(t, n, p) BY <2>0
  <2>2. n \in 1 .. n OBVIOUS
  <2>3. p[n] \in LiveOf(token[t].client) BY <2>1, <2>2 DEF Path, LiveOf
  <2>4. QED BY <2>3
<1>3. QED BY <1>1, <1>2 DEF Good

\* So does one that the server takes.
LEMMA SuccessorIsLive ==
    ASSUME NEW t \in Tokens, LiveSuccessor(t) PROVE LiveOf(token[t].client) # {}
<1>1. PICK n \in 1 .. Depth : \E p \in [1 .. n -> Tokens] :
             /\ token[p[n]].state = "live"
             /\ \A i \in 1 .. n : token[p[i]].client = token[t].client
  BY DEF LiveSuccessor
<1>2. PICK p \in [1 .. n -> Tokens] : /\ token[p[n]].state = "live"
                                      /\ \A i \in 1 .. n : token[p[i]].client = token[t].client
  BY <1>1
<1>3. n \in 1 .. n OBVIOUS
<1>4. p[n] \in LiveOf(token[t].client) BY <1>2, <1>3 DEF LiveOf
<1>5. QED BY <1>4

\* A replacement only lengthens what leads to a live token.
LEMMA StillGood ==
    ASSUME NEW o \in Tokens, NEW n \in Tokens, o # n, token[n].state = "live", token[n].client = token[o].client,
           token[o].client \in Browsers,
           token' = [token EXCEPT ![o] = Rotated(token[o], n)],
           token \in [Tokens -> TokenRows],
           NEW t \in Tokens, Good(t), token[t].client = token[o].client
    PROVE  Good(t)'
<1>1. /\ token'[o].state = "rotated" /\ token'[o].next = n /\ token'[o].client = token[o].client
      /\ \A u \in Tokens \ {o} : token'[u] = token[u]
  BY DEF Rotated, TokenRows
<1>2. CASE t = o
  <2> DEFINE p == [i \in 1 .. 1 |-> n]
  <2>1. p \in [1 .. 1 -> Tokens] /\ p[1] = n OBVIOUS
  <2> HIDE DEF p
  <2>2. \A i \in 1 .. 1 : i = 1 OBVIOUS
  <2>3. 1 .. 1 - 1 = {} OBVIOUS
  <2>4. token'[n] = token[n] BY <1>1
  <2>5. Path(t, 1, p)' BY <1>1, <1>2, <2>1, <2>2, <2>3, <2>4 DEF Path
  <2>6. 1 \in Nat \ {0} OBVIOUS
  <2>7. Leads(t)' BY <2>1, <2>5, <2>6 DEF Leads
  <2>8. QED BY <1>1, <1>2, <2>7 DEF Good
<1>3. CASE t # o /\ token[t].state = "live" BY <1>1, <1>3 DEF Good
<1>4. CASE t # o /\ token[t].state = "rotated" /\ Leads(t)
  <2>1. PICK m \in Nat \ {0} : \E p \in [1 .. m -> Tokens] : Path(t, m, p) BY <1>4 DEF Leads
  <2>2. PICK p \in [1 .. m -> Tokens] : Path(t, m, p) BY <2>1
  <2>3. token'[t] = token[t] BY <1>1, <1>4
  <2>4. 1 \in 1 .. m /\ m \in 1 .. m OBVIOUS
  <2>5. CASE \A i \in 1 .. m : p[i] # o
    <3>1. \A i \in 1 .. m : token'[p[i]] = token[p[i]] BY <1>1, <2>5
    <3>2. \A i \in 1 .. m - 1 : i \in 1 .. m OBVIOUS
    <3>3. Path(t, m, p)' BY <2>2, <2>3, <2>4, <3>1, <3>2 DEF Path
    <3>4. QED BY <1>4, <2>3, <3>3 DEF Good, Leads
  <2>6. CASE \E i \in 1 .. m : p[i] = o
    <3> DEFINE S == {i \in 1 .. m : p[i] = o}
    <3>1. S \in SUBSET Nat /\ S # {} BY <2>6
    <3>2. PICK k \in S : \A x \in S : k <= x
      <4> HIDE DEF S
      <4>1. QED BY <3>1, LeastOf
    <3>3. k \in 1 .. m /\ p[k] = o /\ \A i \in 1 .. k - 1 : i \in 1 .. m /\ p[i] # o
      <4>1. k \in 1 .. m /\ p[k] = o BY <3>2
      <4>2. \A i \in 1 .. k - 1 : i \in 1 .. m /\ ~(k <= i) BY <4>1
      <4>3. QED BY <3>2, <4>1, <4>2
    <3> DEFINE q == [i \in 1 .. k + 1 |-> IF i <= k THEN p[i] ELSE n]
    <3>4. q \in [1 .. k + 1 -> Tokens] /\ q[k + 1] = n /\ \A i \in 1 .. k : q[i] = p[i]
      <4>1. \A i \in 1 .. k + 1 : i <= k => i \in 1 .. m BY <3>3
      <4>2. q \in [1 .. k + 1 -> Tokens] BY <4>1
      <4>3. k + 1 \in 1 .. k + 1 /\ ~(k + 1 <= k) /\ \A i \in 1 .. k : i \in 1 .. k + 1 /\ i <= k BY <3>3
      <4>4. QED BY <4>2, <4>3
    <3> HIDE DEF q, S
    <3>5. \A i \in 1 .. k - 1 : token'[q[i]] = token[p[i]] /\ i \in 1 .. k BY <1>1, <3>3, <3>4
    <3>6. token'[q[k]].state = "rotated" /\ token'[q[k]].next = n /\ token'[q[k]].client = token[o].client
      <4>1. k \in 1 .. k BY <3>3
      <4>2. q[k] = o BY <3>3, <3>4, <4>1
      <4>3. QED BY <1>1, <4>2
    <3>7. token'[q[k + 1]] = token[n] BY <1>1, <3>4
    <3>8. \A i \in 1 .. k + 1 : token'[q[i]].client = token[o].client
      <4>1. \A i \in 1 .. k + 1 : i \in 1 .. k - 1 \/ i = k \/ i = k + 1 BY <3>3
      <4>2. \A i \in 1 .. k - 1 : token[p[i]].client = token[o].client BY <2>2, <3>3 DEF Path
      <4>3. QED BY <3>5, <3>6, <3>7, <4>1, <4>2
    <3>9. \A i \in 1 .. k : token'[q[i]].state = "rotated" /\ q[i + 1] = token'[q[i]].next
      <4>1. \A i \in 1 .. k - 1 : token[p[i]].state = "rotated" /\ p[i + 1] = token[p[i]].next /\ q[i + 1] = p[i + 1]
        <5>1. \A i \in 1 .. k - 1 : i \in 1 .. m - 1 /\ i + 1 \in 1 .. k BY <3>3
        <5>2. QED BY <2>2, <3>4, <5>1 DEF Path
      <4>2. \A i \in 1 .. k : i \in 1 .. k - 1 \/ i = k BY <3>3
      <4>3. \A i \in 1 .. k - 1 : token'[q[i]].state = "rotated" /\ q[i + 1] = token'[q[i]].next
        BY <3>5, <4>1
      <4>4. QED BY <3>4, <3>6, <4>2, <4>3
    <3>10. q[1] = token[t].next
      <4>1. 1 \in 1 .. k BY <3>3
      <4>2. QED BY <2>2, <3>4, <4>1 DEF Path
    <3>11. k + 1 \in Nat \ {0} /\ (k + 1) - 1 = k BY <3>3
    <3>12. Path(t, k + 1, q)' BY <2>3, <3>7, <3>8, <3>9, <3>10, <3>11 DEF Path
    <3>13. Leads(t)' BY <3>4, <3>11, <3>12 DEF Leads
    <3>14. QED BY <1>4, <2>3, <3>13 DEF Good
  <2>7. QED BY <2>5, <2>6
<1>5. QED BY <1>2, <1>3, <1>4 DEF Good

\* A shortest path passes no token twice, and not the one it begins from.
LEMMA ShortPath ==
    ASSUME NEW t \in Tokens, Leads(t), token[t].state = "rotated",
           Depth \in Nat, IsFiniteSet(Tokens), Cardinality(Tokens) <= Depth + 1
    PROVE  Within(t)
<1> DEFINE Lengths == {n \in Nat \ {0} : \E p \in [1 .. n -> Tokens] : Path(t, n, p)}
<1>1. PICK n \in Lengths : \A m \in Lengths : n <= m
  <2>1. Lengths \in SUBSET Nat OBVIOUS
  <2>2. Lengths # {} BY DEF Leads
  <2> HIDE DEF Lengths
  <2>3. QED BY <2>1, <2>2, LeastOf
<1>2. n \in Nat \ {0} OBVIOUS
<1>3. PICK p \in [1 .. n -> Tokens] : Path(t, n, p) OBVIOUS
<1>4. ASSUME NEW m \in Nat \ {0}, NEW q \in [1 .. m -> Tokens], Path(t, m, q) PROVE n <= m
  <2>1. m \in Lengths BY <1>4
  <2>2. QED BY <1>1, <2>1
<1> HIDE DEF Lengths
<1>5. /\ p[1] = token[t].next /\ token[p[n]].state = "live"
      /\ \A i \in 1 .. n : token[p[i]].client = token[t].client
      /\ \A i \in 1 .. n - 1 : token[p[i]].state = "rotated" /\ p[i + 1] = token[p[i]].next
  BY <1>3 DEF Path
<1>6. ASSUME NEW i \in 1 .. n PROVE p[i] # t
  <2>1. SUFFICES ASSUME p[i] = t PROVE FALSE OBVIOUS
  <2>2. i \in 1 .. n - 1
    <3>1. i # n BY <1>5, <2>1
    <3>2. QED BY <1>2, <3>1
  <2> DEFINE q == [x \in 1 .. n - i |-> p[x + i]]
  <2>3. n - i \in Nat \ {0} /\ \A x \in 1 .. n - i : x + i \in 1 .. n BY <1>2, <2>2
  <2>4. q \in [1 .. n - i -> Tokens] /\ \A x \in 1 .. n - i : q[x] = p[x + i] BY <2>3
  <2> HIDE DEF q
  <2>5. q[1] = token[t].next
    <3>1. 1 \in 1 .. n - i /\ 1 + i = i + 1 BY <2>3
    <3>2. QED BY <1>5, <2>1, <2>2, <2>4, <3>1
  <2>6. token[q[n - i]].state = "live"
    <3>1. n - i \in 1 .. n - i /\ (n - i) + i = n BY <1>2, <2>3
    <3>2. QED BY <1>5, <2>4, <3>1
  <2>7. \A x \in 1 .. n - i : token[q[x]].client = token[t].client BY <1>5, <2>3, <2>4
  <2>8. \A x \in 1 .. (n - i) - 1 : token[q[x]].state = "rotated" /\ q[x + 1] = token[q[x]].next
    <3>1. \A x \in 1 .. (n - i) - 1 : /\ x \in 1 .. n - i /\ x + 1 \in 1 .. n - i
                                      /\ x + i \in 1 .. n - 1 /\ (x + 1) + i = (x + i) + 1
      BY <1>2, <2>2
    <3>2. QED BY <1>5, <2>4, <3>1
  <2>9. Path(t, n - i, q) BY <2>5, <2>6, <2>7, <2>8 DEF Path
  <2>10. n <= n - i BY <1>4, <2>3, <2>4, <2>9
  <2>11. QED BY <1>2, <2>10
<1>7. ASSUME NEW i \in 1 .. n, NEW j \in 1 .. n, i < j PROVE p[i] # p[j]
  <2>1. SUFFICES ASSUME p[i] = p[j] PROVE FALSE OBVIOUS
  <2>2. i \in 1 .. n - 1 /\ j \in 1 .. n - 1
    <3>1. i \in 1 .. n - 1 BY <1>2, <1>7
    <3>2. j # n BY <1>5, <2>1, <3>1
    <3>3. QED BY <1>2, <3>1, <3>2
  <2> DEFINE d == j - i
             q == [x \in 1 .. n - d |-> IF x <= i THEN p[x] ELSE p[x + d]]
  <2>3. d \in Nat \ {0} /\ i + d = j BY <1>7
  <2> HIDE DEF d
  <2>4. n - d \in Nat \ {0} /\ n - d > i BY <1>2, <2>2, <2>3
  <2>5. \A x \in 1 .. n - d : /\ x <= i => x \in 1 .. n
                              /\ ~(x <= i) => x + d \in 1 .. n /\ x + d > j
    BY <1>2, <2>2, <2>3, <2>4
  <2>6. q \in [1 .. n - d -> Tokens] /\ \A x \in 1 .. n - d : q[x] = IF x <= i THEN p[x] ELSE p[x + d]
    BY <2>5
  <2> HIDE DEF q
  <2>7. q[1] = token[t].next
    <3>1. 1 \in 1 .. n - d /\ 1 <= i BY <2>2, <2>4
    <3>2. QED BY <1>5, <2>6, <3>1
  <2>8. token[q[n - d]].state = "live"
    <3>1. n - d \in 1 .. n - d /\ ~(n - d <= i) /\ (n - d) + d = n BY <1>2, <2>2, <2>3, <2>4
    <3>2. QED BY <1>5, <2>6, <3>1
  <2>9. \A x \in 1 .. n - d : token[q[x]].client = token[t].client BY <1>5, <2>5, <2>6
  <2>10. ASSUME NEW x \in 1 .. (n - d) - 1 PROVE token[q[x]].state = "rotated" /\ q[x + 1] = token[q[x]].next
    <3>1. x \in 1 .. n - d /\ x + 1 \in 1 .. n - d BY <1>2, <2>3, <2>4
    <3>2. CASE x < i
      <4>1. x \in 1 .. n - 1 /\ x <= i /\ x + 1 <= i BY <1>2, <2>2, <2>3, <3>1, <3>2
      <4>2. QED BY <1>5, <2>6, <3>1, <4>1
    <3>3. CASE x = i
      <4>1. x <= i /\ ~(x + 1 <= i) /\ (x + 1) + d = j + 1 BY <2>2, <2>3, <3>3
      <4>2. q[x] = p[j] /\ q[x + 1] = p[j + 1] BY <2>1, <2>6, <3>1, <3>3, <4>1
      <4>3. QED BY <1>5, <2>2, <4>2
    <3>4. CASE x > i
      <4>1. /\ ~(x <= i) /\ ~(x + 1 <= i) /\ x + d \in 1 .. n - 1 /\ (x + 1) + d = (x + d) + 1
        BY <1>2, <2>2, <2>3, <2>4, <3>4
      <4>2. q[x] = p[x + d] /\ q[x + 1] = p[(x + d) + 1] BY <2>6, <3>1, <4>1
      <4>3. QED BY <1>5, <4>1, <4>2
    <3>5. QED BY <2>2, <3>2, <3>3, <3>4
  <2>11. Path(t, n - d, q) BY <2>7, <2>8, <2>9, <2>10 DEF Path
  <2>12. n <= n - d BY <1>4, <2>4, <2>6, <2>11
  <2>13. QED BY <1>2, <2>3, <2>12
<1>8. p \in Injection(1 .. n, Tokens \ {t})
  <2>1. p \in [1 .. n -> Tokens \ {t}] BY <1>6
  <2>2. \A i, j \in 1 .. n : p[i] = p[j] => i = j
    <3>1. SUFFICES ASSUME NEW i \in 1 .. n, NEW j \in 1 .. n, p[i] = p[j] PROVE i = j OBVIOUS
    <3>2. ~(i < j) /\ ~(j < i) BY <1>7, <3>1
    <3>3. QED BY <3>2
  <2>3. QED BY <2>1, <2>2 DEF Injection, IsInjective
<1>9. IsFiniteSet(Tokens \ {t}) /\ Cardinality(Tokens \ {t}) = Cardinality(Tokens) - 1
  BY FS_RemoveElement
<1>10. Cardinality(1 .. n) = n
  <2>1. n >= 1 /\ n \in Int BY <1>2
  <2>2. Cardinality(1 .. n) = n - 1 + 1 BY <2>1, FS_Interval
  <2>3. QED BY <1>2, <2>2
<1>11. Cardinality(1 .. n) <= Cardinality(Tokens \ {t}) BY <1>8, <1>9, FS_Injection
<1>12. n <= Depth
  <2>1. Cardinality(Tokens) \in Nat BY FS_CardinalityType
  <2>2. QED BY <1>2, <1>9, <1>10, <1>11, <2>1
<1>13. n \in 1 .. Depth BY <1>2, <1>12
<1>14. QED BY <1>3, <1>13 DEF Within

\* What replaced a token was rotated after it, all along the way to a live one.
LEMMA AgesAlong ==
    ASSUME TokensInv, \A u \in Tokens : AgesFall(u), NEW t \in Tokens, token[t].client \in Browsers,
           token[t].state = "rotated", token[t].age < 2, Within(t)
    PROVE  LiveSuccessor(t)
<1>1. PICK n \in 1 .. Depth : \E p \in [1 .. n -> Tokens] : Path(t, n, p) BY DEF Within
<1>2. PICK p \in [1 .. n -> Tokens] : Path(t, n, p) BY <1>1
<1>3. n \in Nat \ {0} OBVIOUS
<1>4. \A i \in 1 .. n - 1 : token[p[i]].age < 2
  <2> DEFINE Old == {i \in 1 .. n - 1 : ~(token[p[i]].age < 2)}
  <2>1. SUFFICES ASSUME Old # {} PROVE FALSE OBVIOUS
  <2>2. PICK k \in Old : \A x \in Old : k <= x
    <3>1. Old \in SUBSET Nat OBVIOUS
    <3> HIDE DEF Old
    <3>2. QED BY <2>1, <3>1, LeastOf
  <2>3. k \in 1 .. n - 1 /\ k \in 1 .. n /\ ~(token[p[k]].age < 2) BY <1>3
  <2>4. token[p[k]].state = "rotated" /\ p[k] \in Tokens BY <1>2, <2>3 DEF Path
  <2>5. CASE k = 1
    <3>1. p[k] = token[t].next BY <1>2, <2>5 DEF Path
    <3>2. token[p[k]].age <= token[t].age BY <2>4, <3>1 DEF AgesFall
    <3>3. token[p[k]].age \in Nat /\ token[t].age \in Nat BY <2>4 DEF TokensInv, TokensTypeOK, TokenRows
    <3>4. QED BY <2>3, <3>2, <3>3
  <2>6. CASE k # 1
    <3>1. k - 1 \in 1 .. n - 1 /\ k - 1 \in 1 .. n /\ (k - 1) + 1 = k /\ ~(k <= k - 1) BY <1>3, <2>3, <2>6
    <3>2. token[p[k - 1]].age < 2
      <4>1. k - 1 \notin Old BY <2>2, <3>1
      <4>2. QED BY <3>1, <4>1
    <3> DEFINE u == p[k - 1]
    <3>3. /\ u \in Tokens /\ token[u].state = "rotated" /\ token[u].client \in Browsers
          /\ p[k] = token[u].next
      BY <1>2, <3>1 DEF Path
    <3>4. token[p[k]].age <= token[u].age BY <2>4, <3>3 DEF AgesFall
    <3>5. token[p[k]].age \in Nat /\ token[u].age \in Nat BY <2>4, <3>3 DEF TokensInv, TokensTypeOK, TokenRows
    <3>6. QED BY <2>3, <3>2, <3>4, <3>5
  <2>7. QED BY <2>5, <2>6
<1>5. QED BY <1>1, <1>2, <1>4 DEF LiveSuccessor, Path

\* No page asks with a token that is more rotations behind than the server follows (16
\* hops in rotateRefreshToken): it has had no answer for as many renewals.
WithinReach ==
    \A r \in Requests : refresh[r].pc = "sent" /\ refresh[r].client \in Browsers
                           /\ token[refresh[r].tok].state = "rotated" /\ Leads(refresh[r].tok)
                        => Within(refresh[r].tok)

\* Nothing is live of a browser, and nothing is about to be.
LEMMA Emptied ==
    ASSUME NEW c \in Browsers, device'[c].status = "none", LiveOf(c)' = {},
           \A r \in Requests : refresh'[r].client = c => refresh'[r].pc \notin {"issue", "mark", "reply"}
    PROVE  Followed(c)'
BY DEF Followed, WorkOf

\* What a request asks with is as good as the token it is.
LEMMA AskedIsGood ==
    ASSUME NEW r \in Requests, NEW t \in Tokens, refresh'[r].tok = t, Good(t)' PROVE Good(refresh[r].tok)'
<1> DEFINE G(x) == \/ token'[x].state = "live"
                   \/ /\ token'[x].state = "rotated"
                      /\ \E n \in Nat \ {0} : \E p \in [1 .. n -> Tokens] :
                           /\ p[1] = token'[x].next
                           /\ token'[p[n]].state = "live"
                           /\ \A i \in 1 .. n : token'[p[i]].client = token'[x].client
                           /\ \A i \in 1 .. n - 1 : /\ token'[p[i]].state = "rotated"
                                                    /\ p[i + 1] = token'[p[i]].next
<1>1. G(t) BY Zenon DEF Good, Leads, Path
<1> HIDE DEF G
<1>2. G(refresh'[r].tok) BY <1>1
<1>3. QED BY <1>2, Zenon DEF G, Good, Leads, Path

\* What a client holds is as good as the token it is.
LEMMA HeldIsGood ==
    ASSUME NEW c \in Clients, NEW t \in Tokens, held'[c] = t, Good(t)' PROVE Good(held[c])'
<1> DEFINE G(x) == \/ token'[x].state = "live"
                   \/ /\ token'[x].state = "rotated"
                      /\ \E n \in Nat \ {0} : \E p \in [1 .. n -> Tokens] :
                           /\ p[1] = token'[x].next
                           /\ token'[p[n]].state = "live"
                           /\ \A i \in 1 .. n : token'[p[i]].client = token'[x].client
                           /\ \A i \in 1 .. n - 1 : /\ token'[p[i]].state = "rotated"
                                                    /\ p[i + 1] = token'[p[i]].next
<1>1. G(t) BY Zenon DEF Good, Leads, Path
<1> HIDE DEF G
<1>2. G(held'[c]) BY <1>1
<1>3. QED BY <1>2, Zenon DEF G, Good, Leads, Path

\* A step that leaves what is good of a browser good, and whose requests go on as they
\* were or well.
LEMMA FollowedBy ==
    ASSUME TokensInv, NEW c \in Browsers, Followed(c),
           \A t \in Tokens : token[t].client = c /\ Good(t) => Good(t)',
           LiveOf(c) # {} <=> LiveOf(c)' # {},
           device'[c].status = "none",
           LiveOf(c)' # {} => held'[c] = held[c] \/ (held'[c] # None /\ Good(held[c])'),
           \A r \in Requests :
             \/ /\ refresh'[r] = refresh[r]
                /\ refresh[r].client = c /\ refresh[r].pc \in {"mark", "reply"} => token'[refresh[r].new].state = "live"
             \/ WorkOf(r, c)'
    PROVE  Followed(c)'
<1>1. ASSUME held'[c] = held[c], LiveOf(c) # {} PROVE held'[c] # None /\ Good(held[c])'
  <2>1. held[c] # None /\ Good(held[c]) BY <1>1 DEF Followed
  <2>2. PICK t \in Tokens : t = held[c] BY <2>1 DEF TokensInv, TokensTypeOK, Browsers
  <2>3. token[t].client = c BY <2>1, <2>2 DEF TokensInv, HeldFits, Browsers
  <2>4. Good(t)' BY <2>1, <2>2, <2>3
  <2>5. held'[c] = t BY <1>1, <2>2
  <2>6. Good(held[c])' BY <2>2, <2>4, <2>5, HeldIsGood DEF Browsers
  <2>7. QED BY <1>1, <2>1, <2>6
<1>2. ASSUME NEW r \in Requests, refresh'[r] = refresh[r],
             refresh[r].client = c /\ refresh[r].pc \in {"mark", "reply"} => token'[refresh[r].new].state = "live"
      PROVE  WorkOf(r, c)'
  <2>1. SUFFICES ASSUME refresh[r].client = c PROVE WorkOf(r, c)' BY <1>2 DEF WorkOf
  <2>2. ASSUME refresh[r].pc = "sent", LiveOf(c) # {} PROVE Good(refresh[r].tok)'
    <3>1. PICK t \in Tokens : t = refresh[r].tok BY <2>2 DEF TokensInv, BusyFits
    <3>2. token[t].client = c BY <2>1, <2>2, <3>1 DEF TokensInv, BusyFits
    <3>3. Good(t) BY <2>1, <2>2, <3>1 DEF Followed, WorkOf
    <3>4. Good(t)' BY <3>2, <3>3
    <3>5. refresh'[r].tok = t BY <1>2, <3>1
    <3>6. QED BY <3>4, <3>5, AskedIsGood
  <2>3. refresh[r].pc \in {"issue", "mark", "reply"} => LiveOf(c) # {} BY <2>1 DEF Followed, WorkOf
  <2>4. QED BY <1>2, <2>1, <2>2, <2>3 DEF WorkOf
<1>3. \A r \in Requests : WorkOf(r, c)' BY <1>2
<1>4. LiveOf(c)' # {} => held'[c] # None /\ Good(held[c])' BY <1>1
<1>5. QED BY <1>3, <1>4 DEF Followed

\* What a browser is about to be told of is its own.
LEMMA NewIsOwn ==
    ASSUME TokensInv, NEW c \in Browsers, Followed(c), NEW r \in Requests, refresh[r].client = c,
           refresh[r].pc \in {"mark", "reply"}
    PROVE  refresh[r].new \in Tokens /\ token[refresh[r].new].client = c /\ token[refresh[r].new].state = "live"
BY DEF TokensInv, NewApart, Followed, WorkOf

\* A step that does not touch the tokens of a browser.
LEMMA FollowedOn ==
    ASSUME TokensInv, NEW c \in Browsers, Followed(c), SameChains(c),
           device'[c].status = "none",
           LiveOf(c)' # {} => held'[c] = held[c] \/ (held'[c] # None /\ Good(held[c])'),
           \A r \in Requests : refresh'[r] = refresh[r] \/ WorkOf(r, c)'
    PROVE  Followed(c)'
<1>1. LiveOf(c)' = LiveOf(c) BY SameLive
<1>2. \A t \in Tokens : token[t].client = c /\ Good(t) => Good(t)' BY SameGood DEF SameChains, KeptChains
<1>3. \A r \in Requests :
        refresh[r].client = c /\ refresh[r].pc \in {"mark", "reply"} => token'[refresh[r].new].state = "live"
  BY NewIsOwn DEF SameChains, KeptChains
<1>4. QED BY <1>1, <1>2, <1>3, FollowedBy

\* Nothing was rotated, or grew older.
LEMMA AgesOn ==
    ASSUME \A u \in Tokens : AgesFall(u),
           \A u \in Tokens : token'[u].state = "rotated" =>
              /\ token[u].state = "rotated" /\ token'[u].client = token[u].client
              /\ token'[u].next = token[u].next /\ token'[u].age = token[u].age
    PROVE  \A u \in Tokens : AgesFall(u)'
<1>1. SUFFICES ASSUME NEW u \in Tokens, token'[u].state = "rotated", token'[u].client \in Browsers
               PROVE  /\ token'[u].next \in Tokens
                      /\ token'[token'[u].next].state = "rotated" => token'[token'[u].next].age <= token'[u].age
  BY DEF AgesFall, Browsers
<1>2. PICK n \in Tokens : n = token[u].next BY <1>1 DEF AgesFall
<1>3. token[n].state = "rotated" => token[n].age <= token[u].age BY <1>1, <1>2 DEF AgesFall
<1>4. QED BY <1>1, <1>2, <1>3

\* The tokens of a browser stay what they are when those of others are revoked.
LEMMA OthersRevoked ==
    ASSUME NEW C, NEW c \in Browsers, c \notin C, token \in [Tokens -> TokenRows], token' = Revoked(C)
    PROVE  SameChains(c)
<1>1. \A u \in Tokens : token'[u].client = token[u].client /\ token'[u].next = token[u].next
                        /\ (token[u].client = c => token'[u] = token[u])
  BY DEF Revoked, TokenRows
<1>2. QED BY <1>1 DEF SameChains, KeptChains

\* Its own are over.
LEMMA OwnRevoked ==
    ASSUME NEW C, NEW c \in C, token \in [Tokens -> TokenRows], token' = Revoked(C)
    PROVE  LiveOf(c)' = {}
<1>1. \A u \in Tokens : token'[u].client = token[u].client /\ (token[u].client = c => token'[u].state # "live")
  BY DEF Revoked, TokenRows
<1>2. QED BY <1>1 DEF LiveOf

\* To revoke is not to rotate.
LEMMA RevokedAges ==
    ASSUME NEW C, \A u \in Tokens : AgesFall(u), token \in [Tokens -> TokenRows], token' = Revoked(C)
    PROVE  \A u \in Tokens : AgesFall(u)'
<1>1. \A u \in Tokens : token'[u].state = "rotated" =>
              /\ token[u].state = "rotated" /\ token'[u].client = token[u].client
              /\ token'[u].next = token[u].next /\ token'[u].age = token[u].age
  BY DEF Revoked, TokenRows
<1>2. QED BY <1>1, AgesOn

\* Where no rotation of a browser is in service, whatever signs everybody out leaves nothing.
LEMMA Quiescent ==
    ASSUME TokensInv, "overlap" \notin Events, Undisturbed(Clients), NEW c \in Browsers,
           NEW r \in Requests, refresh[r].client = c
    PROVE  refresh[r].pc \notin {"issue", "mark", "reply"}
BY DEF Undisturbed, Browsers, Busy

-----------------------------------------------------------------------------
\* The steps that write no token.
LEMMA TokensAlone ==
    ASSUME ChainInv, token' = token
    PROVE  (\A u \in Tokens : AgesFall(u)') /\ \A c \in Browsers : SameChains(c)
<1>1. \A u \in Tokens : AgesFall(u)' BY AgesOn DEF ChainInv
<1>2. \A c \in Browsers : SameChains(c) BY DEF SameChains, KeptChains
<1>3. QED BY <1>1, <1>2

\* A page asks with the token it holds, which is good (fetchWithRefresh).
LEMMA ChainAsk ==
    ASSUME ChainInv, NEW r \in Requests, NEW d \in Clients, AskRefresh(r, d)
    PROVE  (\A u \in Tokens : AgesFall(u)') /\ \A c \in Browsers : Followed(c)'
<1>1. /\ token' = token /\ device' = device /\ held' = held /\ held[d] # None
      /\ refresh' = [refresh EXCEPT ![r] = [NoRefresh EXCEPT !.pc = "sent", !.client = d, !.tok = held[d]]]
  BY DEF AskRefresh
<1>2. ASSUME NEW c \in Browsers PROVE Followed(c)'
  <2>1. Followed(c) /\ TokensInv /\ SameChains(c) BY <1>1, TokensAlone DEF ChainInv
  <2>2. device'[c].status = "none" BY <1>1, <2>1 DEF Followed
  <2>3. \A q \in Requests \ {r} : refresh'[q] = refresh[q] BY <1>1, <2>1 DEF TokensInv, TokensTypeOK
  <2>4. WorkOf(r, c)'
    <3>1. refresh'[r].pc = "sent" /\ refresh'[r].client = d /\ refresh'[r].tok = held[d]
      BY <1>1, <2>1 DEF TokensInv, TokensTypeOK, NoRefresh
    <3>2. SUFFICES ASSUME d = c, LiveOf(c)' # {} PROVE Good(refresh[r].tok)' BY <3>1 DEF WorkOf
    <3>3. LiveOf(c) # {} BY <2>1, <3>2, SameLive
    <3>4. Good(held[c]) BY <2>1, <3>3 DEF Followed
    <3>5. PICK t \in Tokens : t = held[c] BY <1>1, <3>2 DEF ChainInv, TokensInv, TokensTypeOK
    <3>6. token[t].client = c BY <1>1, <2>1, <3>2, <3>5 DEF TokensInv, HeldFits
    <3>7. Good(t)' BY <2>1, <3>4, <3>5, <3>6, SameGood DEF SameChains
    <3>8. refresh'[r].tok = t BY <3>1, <3>2, <3>5
    <3>9. QED BY <3>7, <3>8, AskedIsGood
  <2>5. \A q \in Requests : refresh'[q] = refresh[q] \/ WorkOf(q, c)' BY <2>3, <2>4
  <2>6. held'[c] = held[c] BY <1>1
  <2>7. QED BY <2>1, <2>2, <2>5, <2>6, FollowedOn
<1>3. QED BY <1>1, <1>2, TokensAlone

\* A request that leaves the server, or raises the alarm, is nothing to the chains.
LEMMA ChainEnds ==
    ASSUME ChainInv, NEW r \in Requests, token' = token, device' = device, held' = held,
           \A q \in Requests \ {r} : refresh'[q] = refresh[q],
           refresh'[r].pc \in {"idle", "alarm"}
    PROVE  \A c \in Browsers : Followed(c)'
<1>1. SUFFICES ASSUME NEW c \in Browsers PROVE Followed(c)' OBVIOUS
<1>2. Followed(c) /\ TokensInv /\ SameChains(c) BY TokensAlone DEF ChainInv
<1>3. WorkOf(r, c)' BY DEF WorkOf
<1>4. device'[c].status = "none" BY <1>2 DEF Followed
<1>5. QED BY <1>2, <1>3, <1>4, FollowedOn

\* The server lets in only what leads to a live token.
LEMMA ChainAdmit ==
    ASSUME ChainInv, NEW r \in Requests, Admit(r) PROVE \A c \in Browsers : Followed(c)'
<1>1. SUFFICES ASSUME NEW c \in Browsers PROVE Followed(c)' OBVIOUS
<1>2. /\ token' = token /\ device' = device /\ held' = held /\ refresh[r].pc = "sent" /\ Usable(refresh[r].tok)
      /\ refresh' = [refresh EXCEPT ![r].pc = "issue", ![r].version = device[refresh[r].client].version]
  BY DEF Admit
<1>3. Followed(c) /\ TokensInv /\ SameChains(c) BY <1>2, TokensAlone DEF ChainInv
<1>4. /\ \A q \in Requests \ {r} : refresh'[q] = refresh[q]
      /\ refresh'[r].pc = "issue" /\ refresh'[r].client = refresh[r].client
  BY <1>2, <1>3 DEF TokensInv, TokensTypeOK, Renewals
<1>5. WorkOf(r, c)'
  <2>1. SUFFICES ASSUME refresh[r].client = c PROVE LiveOf(c)' # {} BY <1>4 DEF WorkOf
  <2>2. PICK t \in Tokens : t = refresh[r].tok BY <1>2, <1>3 DEF TokensInv, BusyFits
  <2>3. token[t].client = c BY <1>2, <1>3, <2>1, <2>2 DEF TokensInv, BusyFits
  <2>4. token[t].state = "live" \/ LiveSuccessor(t) BY <1>2, <2>2 DEF Usable
  <2>5. LiveOf(c) # {}
    <3>1. CASE token[t].state = "live" BY <2>3, <3>1 DEF LiveOf
    <3>2. CASE LiveSuccessor(t) BY <2>3, <3>2, SuccessorIsLive
    <3>3. QED BY <2>4, <3>1, <3>2
  <2>6. QED BY <1>3, <2>5, SameLive
<1>6. device'[c].status = "none" BY <1>2, <1>3 DEF Followed
<1>7. QED BY <1>2, <1>3, <1>4, <1>5, <1>6, FollowedOn

\* A page is refused only when nothing of its browser is live.
LEMMA RefusedIsOver ==
    ASSUME ChainInv, WithinReach, NEW r \in Requests, Refuse(r), NEW c \in Browsers, refresh[r].client = c
    PROVE  LiveOf(c) = {}
<1>1. SUFFICES ASSUME LiveOf(c) # {} PROVE FALSE OBVIOUS
<1>2. refresh[r].pc = "sent" /\ ~Usable(refresh[r].tok) /\ ~Stolen(refresh[r].tok) BY DEF Refuse
<1>3. PICK t \in Tokens : t = refresh[r].tok BY <1>2 DEF ChainInv, TokensInv, BusyFits
<1>4. token[t].client = c BY <1>2, <1>3 DEF ChainInv, TokensInv, BusyFits
<1>5. Good(t) BY <1>1, <1>2, <1>3 DEF ChainInv, Followed, WorkOf
<1>6. Fenced(t) BY <1>4 DEF Fenced, Browsers
<1>7. token[t].state = "rotated" /\ Leads(t) /\ token[t].age < 2
  BY <1>2, <1>3, <1>5, <1>6 DEF Usable, Stolen, Good, InGrace
<1>8. Within(t) BY <1>2, <1>3, <1>7 DEF WithinReach
<1>9. LiveSuccessor(t) BY <1>4, <1>7, <1>8, AgesAlong DEF ChainInv
<1>10. QED BY <1>2, <1>3, <1>6, <1>7, <1>9 DEF Usable, InGrace

\* A refused page forgets what it holds, and nothing is lost by it.
LEMMA ChainRefuse ==
    ASSUME ChainInv, WithinReach, NEW r \in Requests, Refuse(r) PROVE \A c \in Browsers : Followed(c)'
<1>1. SUFFICES ASSUME NEW c \in Browsers PROVE Followed(c)' OBVIOUS
<1>2. token' = token /\ device' = device /\ refresh' = [refresh EXCEPT ![r] = NoRefresh] /\ Forgets(r)
  BY DEF Refuse
<1>3. Followed(c) /\ TokensInv /\ SameChains(c) BY <1>2, TokensAlone DEF ChainInv
<1>4. /\ \A q \in Requests \ {r} : refresh'[q] = refresh[q]
      /\ refresh'[r] = NoRefresh
  BY <1>2, <1>3 DEF TokensInv, TokensTypeOK
<1>5. WorkOf(r, c)' BY <1>4 DEF WorkOf, NoRefresh
<1>6. device'[c].status = "none" BY <1>2, <1>3 DEF Followed
<1>7. LiveOf(c)' # {} => held'[c] = held[c]
  <2>1. CASE refresh[r].client = c BY <1>3, <2>1, RefusedIsOver, SameLive
  <2>2. CASE refresh[r].client # c BY <1>2, <2>2 DEF Forgets, Browsers
  <2>3. QED BY <2>1, <2>2
<1>8. QED BY <1>3, <1>4, <1>5, <1>6, <1>7, FollowedOn

\* The reply brings a live token.
LEMMA ChainStore ==
    ASSUME ChainInv, NEW r \in Requests, Store(r) PROVE \A c \in Browsers : Followed(c)'
<1>1. SUFFICES ASSUME NEW c \in Browsers PROVE Followed(c)' OBVIOUS
<1>2. /\ token' = token /\ device' = device /\ refresh' = [refresh EXCEPT ![r] = NoRefresh]
      /\ refresh[r].pc = "reply"
      /\ \/ held' = [held EXCEPT ![refresh[r].client] = refresh[r].new]
         \/ held' = held
  BY DEF Store
<1>3. Followed(c) /\ TokensInv /\ SameChains(c) BY <1>2, TokensAlone DEF ChainInv
<1>4. /\ \A q \in Requests \ {r} : refresh'[q] = refresh[q]
      /\ refresh'[r] = NoRefresh
  BY <1>2, <1>3 DEF TokensInv, TokensTypeOK
<1>5. WorkOf(r, c)' BY <1>4 DEF WorkOf, NoRefresh
<1>6. device'[c].status = "none" BY <1>2, <1>3 DEF Followed
<1>7. held'[c] = held[c] \/ (held'[c] # None /\ Good(held[c])')
  <2>1. CASE held' = held \/ refresh[r].client # c
    BY <1>2, <1>3, <2>1 DEF TokensInv, TokensTypeOK, Browsers
  <2>2. CASE held' = [held EXCEPT ![refresh[r].client] = refresh[r].new] /\ refresh[r].client = c
    <3>1. PICK n \in Tokens : n = refresh[r].new BY <1>2, <1>3 DEF TokensInv, NewApart
    <3>2. held'[c] = n BY <1>3, <2>2, <3>1 DEF TokensInv, TokensTypeOK, Browsers
    <3>3. token'[n].state = "live" BY <1>2, <1>3, <2>2, <3>1 DEF Followed, WorkOf
    <3>4. n # None BY TokensAssumption DEF TokensAssumption
    <3>5. QED BY <3>2, <3>3, <3>4 DEF Good
  <2>3. QED BY <1>2, <2>1, <2>2
<1>8. QED BY <1>3, <1>4, <1>5, <1>6, <1>7, FollowedOn

\* A new row is of its client alone.
LEMMA NewRowApart ==
    ASSUME ChainInv, NEW n \in Tokens, token[n].state = "free", NEW d \in Clients, NEW v \in Nat, NEW l \in Nat,
           \/ token' = [token EXCEPT ![n] = Created(d, v, l)]
           \/ d \in Apps /\ token' = [Revoked({d}) EXCEPT ![n] = Created(d, v, l)]
    PROVE  /\ \A u \in Tokens : AgesFall(u)'
           /\ \A c \in Browsers : KeptChains(c) /\ (c # d => SameChains(c))
           /\ token'[n].client = d /\ token'[n].state = "live"
<1>1. token \in [Tokens -> TokenRows] /\ token[n] = NoToken /\ None \notin Clients
  BY TokensAssumption DEF TokensAssumption, ChainInv, TokensInv, TokensTypeOK
<1>2. token[n].client = None BY <1>1 DEF NoToken
<1>3. Revoked({d}) \in [Tokens -> TokenRows]
  BY <1>1 DEF Revoked, TokenRows
<1>4. Created(d, v, l).client = d /\ Created(d, v, l).state = "live" BY DEF Created, NoToken
<1>5. token'[n] = Created(d, v, l) BY <1>1, <1>3
<1>6. ASSUME NEW u \in Tokens, u # n
      PROVE  /\ token'[u].client = token[u].client /\ token'[u].next = token[u].next
             /\ token'[u].age = token[u].age
             /\ token'[u].state = "rotated" => token[u].state = "rotated"
             /\ (token[u].client # d \/ d \notin Apps) => token'[u].state = token[u].state
  <2>1. token'[u] = token[u] \/ (d \in Apps /\ token'[u] = Revoked({d})[u]) BY <1>1, <1>3, <1>6
  <2>2. Revoked({d})[u] = token[u]
          \/ (token[u].client = d /\ Revoked({d})[u] = [token[u] EXCEPT !.state = "revoked"])
    BY DEF Revoked
  <2>3. token[u] \in TokenRows BY <1>1
  <2>4. QED BY <2>1, <2>2, <2>3 DEF TokenRows
<1>7. \A u \in Tokens : AgesFall(u)'
  <2>1. \A u \in Tokens : token'[u].state = "rotated" =>
              /\ token[u].state = "rotated" /\ token'[u].client = token[u].client
              /\ token'[u].next = token[u].next /\ token'[u].age = token[u].age
    BY <1>4, <1>5, <1>6
  <2>2. QED BY <2>1, AgesOn DEF ChainInv
<1>8. ASSUME NEW c \in Browsers PROVE KeptChains(c) /\ (c # d => SameChains(c))
  <2>1. c \in Clients /\ c # None /\ c \notin Apps BY <1>1 DEF Browsers
  <2>2. \A u \in Tokens : token[u].client = c =>
          token'[u].client = c /\ token'[u].state = token[u].state /\ token'[u].next = token[u].next
    <3>1. SUFFICES ASSUME NEW u \in Tokens, token[u].client = c
          PROVE token'[u].client = c /\ token'[u].state = token[u].state /\ token'[u].next = token[u].next
      OBVIOUS
    <3>2. u # n BY <1>2, <2>1, <3>1
    <3>3. token[u].client # d \/ d \notin Apps BY <2>1, <3>1
    <3>4. QED BY <1>6, <3>1, <3>2, <3>3
  <2>3. c # d => \A u \in Tokens : token'[u].client = c => token[u].client = c BY <1>4, <1>5, <1>6
  <2>4. QED BY <2>2, <2>3 DEF KeptChains, SameChains
<1>9. QED BY <1>4, <1>5, <1>7, <1>8

\* A sign-in gives a browser its first token.
LEMMA ChainSignIn ==
    ASSUME ChainInv, NEW d \in Clients, SignIn(d)
    PROVE  (\A u \in Tokens : AgesFall(u)') /\ \A c \in Browsers : Followed(c)'
<1>1. /\ BusyFor(d) = {} /\ refresh' = refresh
      /\ device' = [device EXCEPT ![d] =
                    [status |-> IF d \in Apps THEN "active" ELSE "none",
                     version |-> NextVersion(d), login |-> @.login + 1]]
  BY DEF SignIn
<1>2. PICK n \in FreeTokens :
           /\ token' = [token EXCEPT ![n] = Created(d, NextVersion(d), device[d].login + 1)]
           /\ held' = [held EXCEPT ![d] = n]
  BY DEF SignIn
<1>3. n \in Tokens /\ token[n].state = "free" BY DEF FreeTokens
<1>4. device \in [Clients -> Owners] /\ held \in [Clients -> Tokens \union {None}] /\ TokensInv
  BY DEF ChainInv, TokensInv, TokensTypeOK
<1>5. NextVersion(d) \in Nat /\ device[d].login + 1 \in Nat BY <1>4 DEF NextVersion, Owners
<1>6. /\ \A u \in Tokens : AgesFall(u)'
      /\ \A c \in Browsers : KeptChains(c) /\ (c # d => SameChains(c))
      /\ token'[n].client = d /\ token'[n].state = "live"
  BY <1>2, <1>3, <1>5, NewRowApart
<1>7. ASSUME NEW c \in Browsers, c # d PROVE Followed(c)'
  <2>1. Followed(c) /\ SameChains(c) /\ c \in Clients BY <1>6, <1>7 DEF ChainInv, Browsers
  <2>2. device'[c].status = "none" BY <1>1, <1>4, <1>7, <2>1 DEF Followed
  <2>3. held'[c] = held[c] BY <1>2, <1>4, <1>7, <2>1
  <2>4. QED BY <1>1, <1>4, <2>1, <2>2, <2>3, FollowedOn
<1>8. ASSUME d \in Browsers PROVE Followed(d)'
  <2>1. device'[d].status = "none" BY <1>1, <1>4, <1>8 DEF Browsers
  <2>2. held'[d] = n /\ n # None BY <1>2, <1>3, <1>4, TokensAssumption DEF TokensAssumption
  <2>3. Good(held[d])' BY <1>6, <2>2 DEF Good
  <2>4. \A r \in Requests : refresh[r].client = d => refresh[r].pc = "idle" BY <1>1 DEF BusyFor, Busy
  <2>5. \A r \in Requests : WorkOf(r, d)' BY <1>1, <2>4 DEF WorkOf
  <2>6. QED BY <2>1, <2>2, <2>3, <2>5 DEF Followed
<1>9. QED BY <1>6, <1>7, <1>8

\* An app that is installed again concerns no browser.
LEMMA ChainReinstall ==
    ASSUME ChainInv, NEW d \in Clients, Reinstall(d)
    PROVE  (\A u \in Tokens : AgesFall(u)') /\ \A c \in Browsers : Followed(c)'
<1>1. /\ device[d].status = "active"
      /\ device' = [device EXCEPT ![d].version = NextVersion(d), ![d].login = @ + 1]
      /\ refresh' = [r \in Requests |-> IF refresh[r].client = d /\ refresh[r].pc \notin {"issue", "mark"}
                                      THEN NoRefresh ELSE refresh[r]]
  BY DEF Reinstall
<1>2. PICK n \in FreeTokens :
           /\ token' = [Revoked({d}) EXCEPT ![n] = Created(d, NextVersion(d), device[d].login + 1)]
           /\ held' = [held EXCEPT ![d] = n]
  BY DEF Reinstall
<1>3. n \in Tokens /\ token[n].state = "free" BY DEF FreeTokens
<1>4. device \in [Clients -> Owners] /\ held \in [Clients -> Tokens \union {None}] /\ TokensInv
  BY DEF ChainInv, TokensInv, TokensTypeOK
<1>5. NextVersion(d) \in Nat /\ device[d].login + 1 \in Nat BY <1>4 DEF NextVersion, Owners
<1>6. d \in Apps /\ d \notin Browsers
  <2>1. d \notin Browsers BY <1>1 DEF ChainInv, Followed
  <2>2. QED BY <2>1 DEF Browsers
<1>7. /\ \A u \in Tokens : AgesFall(u)'
      /\ \A c \in Browsers : KeptChains(c) /\ (c # d => SameChains(c))
  BY <1>2, <1>3, <1>5, <1>6, NewRowApart
<1>8. ASSUME NEW c \in Browsers PROVE Followed(c)'
  <2>1. Followed(c) /\ SameChains(c) /\ c \in Clients /\ c # d BY <1>6, <1>7 DEF ChainInv, Browsers
  <2>2. device'[c].status = "none"
    <3>1. device'[c] = device[c] BY <1>1, <1>4, <2>1
    <3>2. QED BY <2>1, <3>1 DEF Followed
  <2>3. held'[c] = held[c] BY <1>2, <1>4, <2>1
  <2>4. ASSUME NEW r \in Requests PROVE refresh'[r] = refresh[r] \/ WorkOf(r, c)'
    <3>1. refresh'[r] = refresh[r] \/ refresh'[r] = NoRefresh BY <1>1
    <3>2. QED BY <3>1 DEF WorkOf, NoRefresh
  <2>5. QED BY <1>4, <2>1, <2>2, <2>3, <2>4, FollowedOn
<1>9. QED BY <1>7, <1>8

\* What signs every browser out: nothing of them is live, and nothing will be.
LEMMA AllOut ==
    ASSUME ChainInv, "overlap" \notin Events, Undisturbed(Clients), NEW C, Browsers \subseteq C,
           token' = Revoked(C), \A c \in Browsers : device'[c].status = "none",
           \A r \in Requests : refresh'[r] = refresh[r] \/ refresh'[r] = NoRefresh
    PROVE  (\A u \in Tokens : AgesFall(u)') /\ \A c \in Browsers : Followed(c)'
<1>1. token \in [Tokens -> TokenRows] /\ TokensInv BY DEF ChainInv, TokensInv, TokensTypeOK
<1>2. \A u \in Tokens : AgesFall(u)' BY <1>1, RevokedAges DEF ChainInv
<1>3. ASSUME NEW c \in Browsers PROVE Followed(c)'
  <2>1. LiveOf(c)' = {}
    <3>1. c \in C OBVIOUS
    <3>2. QED BY <1>1, <3>1, OwnRevoked
  <2>2. ASSUME NEW r \in Requests, refresh'[r].client = c PROVE refresh'[r].pc \notin {"issue", "mark", "reply"}
    <3>1. CASE refresh'[r] = refresh[r] BY <1>1, <2>2, <3>1, Quiescent
    <3>2. CASE refresh'[r] = NoRefresh BY <3>2 DEF NoRefresh
    <3>3. QED BY <3>1, <3>2
  <2>3. QED BY <2>1, <2>2, Emptied
<1>4. QED BY <1>2, <1>3

\* An app signs out its own tokens; a browser signs out every one without a device (logout).
LEMMA ChainSignOut ==
    ASSUME ChainInv, "overlap" \notin Events, NEW d \in Clients, SignOut(d)
    PROVE  (\A u \in Tokens : AgesFall(u)') /\ \A c \in Browsers : Followed(c)'
<1>1. /\ d \notin Apps => Undisturbed(Clients)
      /\ token' = SignedOut(d) /\ refresh' = refresh
      /\ device' = [device EXCEPT ![d].status = "none"]
      /\ held' = [held EXCEPT ![d] = None]
  BY DEF SignOut
<1>2. /\ device \in [Clients -> Owners] /\ held \in [Clients -> Tokens \union {None}] /\ TokensInv
      /\ token \in [Tokens -> TokenRows]
  BY DEF ChainInv, TokensInv, TokensTypeOK
<1>3. \A c \in Browsers : device'[c].status = "none"
  <2>1. SUFFICES ASSUME NEW c \in Browsers PROVE device'[c].status = "none" OBVIOUS
  <2>2. device[c].status = "none" /\ c \in Clients BY DEF ChainInv, Followed, Browsers
  <2>3. device'[c] = device[c] \/ device'[c] = [device[c] EXCEPT !.status = "none"] BY <1>1, <1>2, <2>2
  <2>4. device[c] \in Owners BY <1>2, <2>2
  <2>5. QED BY <2>2, <2>3, <2>4 DEF Owners
<1>4. CASE d \in Apps
  <2>1. \A u \in Tokens : \/ token'[u] = token[u]
                          \/ (token[u].client = d /\ token'[u] = [token[u] EXCEPT !.state = "deleted"])
    BY <1>1, <1>4 DEF SignedOut
  <2>2. \A u \in Tokens : token'[u].state = "rotated" =>
              /\ token[u].state = "rotated" /\ token'[u].client = token[u].client
              /\ token'[u].next = token[u].next /\ token'[u].age = token[u].age
    <3>1. SUFFICES ASSUME NEW u \in Tokens, token'[u].state = "rotated" PROVE token'[u] = token[u] OBVIOUS
    <3>2. token[u] \in TokenRows BY <1>2
    <3>3. QED BY <2>1, <3>1, <3>2 DEF TokenRows
  <2>3. \A u \in Tokens : AgesFall(u)' BY <2>2, AgesOn DEF ChainInv
  <2>4. ASSUME NEW c \in Browsers PROVE Followed(c)'
    <3>1. c # d /\ c \in Clients /\ Followed(c) BY <1>4 DEF Browsers, ChainInv
    <3>2. SameChains(c)
      <4>1. ASSUME NEW u \in Tokens
            PROVE  token'[u].client = token[u].client /\ (token[u].client = c => token'[u] = token[u])
        <5>1. token[u] \in TokenRows BY <1>2
        <5>2. QED BY <2>1, <3>1, <5>1 DEF TokenRows
      <4>2. QED BY <4>1 DEF SameChains, KeptChains
    <3>3. held'[c] = held[c] BY <1>1, <1>2, <3>1
    <3>4. QED BY <1>1, <1>2, <1>3, <3>1, <3>2, <3>3, FollowedOn
  <2>5. QED BY <2>3, <2>4
<1>5. CASE d \notin Apps
  <2>1. token' = Revoked(Browsers) /\ Undisturbed(Clients) BY <1>1, <1>5 DEF SignedOut, Browsers
  <2>2. \A r \in Requests : refresh'[r] = refresh[r] BY <1>1
  <2>3. QED BY <1>3, <2>1, <2>2, AllOut
<1>6. QED BY <1>4, <1>5

\* A revoked device concerns no browser.
LEMMA ChainKick ==
    ASSUME ChainInv, NEW d \in Clients, Kick(d)
    PROVE  (\A u \in Tokens : AgesFall(u)') /\ \A c \in Browsers : Followed(c)'
<1>1. /\ device[d].status = "active" /\ token' = Revoked({d}) /\ held' = held /\ refresh' = refresh
      /\ device' = [device EXCEPT ![d].status = "revoked", ![d].version = @ + 1]
  BY DEF Kick
<1>2. device \in [Clients -> Owners] /\ TokensInv /\ token \in [Tokens -> TokenRows]
  BY DEF ChainInv, TokensInv, TokensTypeOK
<1>3. \A u \in Tokens : AgesFall(u)' BY <1>1, <1>2, RevokedAges DEF ChainInv
<1>4. ASSUME NEW c \in Browsers PROVE Followed(c)'
  <2>1. c # d /\ c \in Clients /\ Followed(c) BY <1>1 DEF ChainInv, Followed, Browsers
  <2>2. SameChains(c)
    <3>1. c \notin {d} BY <2>1
    <3>2. QED BY <1>1, <1>2, <3>1, OthersRevoked
  <2>3. device'[c].status = "none"
    <3>1. device'[c] = device[c] BY <1>1, <1>2, <2>1
    <3>2. QED BY <2>1, <3>1 DEF Followed
  <2>4. QED BY <1>1, <1>2, <2>1, <2>2, <2>3, FollowedOn
<1>5. QED BY <1>3, <1>4

\* The alarm revokes every token of the account.
LEMMA ChainAlarm ==
    ASSUME ChainInv, "overlap" \notin Events, NEW r \in Requests, Alarm(r)
    PROVE  (\A u \in Tokens : AgesFall(u)') /\ \A c \in Browsers : Followed(c)'
<1>1. /\ Undisturbed(Clients) /\ token' = Revoked(Clients) /\ device' = device
      /\ refresh' = [refresh EXCEPT ![r] = NoRefresh]
  BY DEF Alarm
<1>2. \A q \in Requests : refresh'[q] = refresh[q] \/ refresh'[q] = NoRefresh
  BY <1>1 DEF ChainInv, TokensInv, TokensTypeOK
<1>3. \A c \in Browsers : device'[c].status = "none" BY <1>1 DEF ChainInv, Followed
<1>4. Browsers \subseteq Clients BY DEF Browsers
<1>5. QED BY <1>1, <1>2, <1>3, <1>4, AllOut

\* A new password revokes every token of the account.
LEMMA ChainRevokeAll ==
    ASSUME ChainInv, "overlap" \notin Events, RevokeAll
    PROVE  (\A u \in Tokens : AgesFall(u)') /\ \A c \in Browsers : Followed(c)'
<1>1. Undisturbed(Clients) /\ token' = Revoked(Clients) /\ device' = device /\ refresh' = refresh
  BY DEF RevokeAll
<1>2. \A q \in Requests : refresh'[q] = refresh[q] BY <1>1
<1>3. \A c \in Browsers : device'[c].status = "none" BY <1>1 DEF ChainInv, Followed
<1>4. Browsers \subseteq Clients BY DEF Browsers
<1>5. QED BY <1>1, <1>2, <1>3, <1>4, AllOut

-----------------------------------------------------------------------------
\* A row more, of a client that has a live one.
LEMMA ChainIssue ==
    ASSUME ChainInv, NEW r \in Requests, Issue(r)
    PROVE  (\A u \in Tokens : AgesFall(u)') /\ \A c \in Browsers : Followed(c)'
<1>1. refresh[r].pc = "issue" /\ held' = held /\ device' = device BY DEF Issue
<1>2. PICK n \in FreeTokens :
         /\ token' = [token EXCEPT ![n] = Created(refresh[r].client, refresh[r].version,
                                                  token[refresh[r].tok].login)]
         /\ refresh' = [refresh EXCEPT ![r].pc = "mark", ![r].new = n]
  BY DEF Issue
<1>3. n \in Tokens /\ token[n].state = "free" BY DEF FreeTokens
<1>4. TokensInv /\ refresh \in [Requests -> Renewals] /\ token \in [Tokens -> TokenRows]
  BY DEF ChainInv, TokensInv, TokensTypeOK
<1>5. PICK d \in Clients : d = refresh[r].client BY <1>1, <1>4 DEF TokensInv, BusyFits
<1>6. refresh[r].tok \in Tokens /\ refresh[r].version \in Nat /\ token[refresh[r].tok].login \in Nat
  BY <1>1, <1>4 DEF TokensInv, BusyFits, Renewals, TokenRows
<1>7. /\ \A u \in Tokens : AgesFall(u)'
      /\ \A c \in Browsers : KeptChains(c) /\ (c # d => SameChains(c))
      /\ token'[n].client = d /\ token'[n].state = "live"
  BY <1>2, <1>3, <1>5, <1>6, NewRowApart
<1>8. /\ \A q \in Requests \ {r} : refresh'[q] = refresh[q]
      /\ refresh'[r].pc = "mark" /\ refresh'[r].new = n /\ refresh'[r].client = d
  BY <1>2, <1>4, <1>5 DEF Renewals
<1>9. ASSUME NEW c \in Browsers PROVE Followed(c)'
  <2>1. Followed(c) /\ KeptChains(c) BY <1>7 DEF ChainInv
  <2>2. \A t \in Tokens : token[t].client = c /\ Good(t) => Good(t)' BY <2>1, SameGood
  <2>3. LiveOf(c) # {} <=> LiveOf(c)' # {}
    <3>1. CASE c = d
      <4>1. LiveOf(c) # {} BY <1>1, <1>5, <2>1, <3>1 DEF Followed, WorkOf
      <4>2. n \in LiveOf(c)' BY <1>3, <1>7, <3>1 DEF LiveOf
      <4>3. QED BY <4>1, <4>2
    <3>2. CASE c # d BY <1>7, <3>2, SameLive
    <3>3. QED BY <3>1, <3>2
  <2>4. WorkOf(r, c)'
    <3>1. SUFFICES ASSUME c = d PROVE WorkOf(r, c)' BY <1>8 DEF WorkOf
    <3>2. n \in LiveOf(c)' BY <1>3, <1>7, <3>1 DEF LiveOf
    <3>3. QED BY <1>7, <1>8, <3>2 DEF WorkOf
  <2>5. \A q \in Requests : refresh[q].client = c /\ refresh[q].pc \in {"mark", "reply"} =>
          token'[refresh[q].new].state = "live"
    BY <1>4, <2>1, NewIsOwn DEF KeptChains
  <2>6. device'[c].status = "none" BY <1>1, <2>1 DEF Followed
  <2>7. QED BY <1>1, <1>4, <1>8, <2>1, <2>2, <2>3, <2>4, <2>5, <2>6, FollowedBy
<1>10. QED BY <1>7, <1>9

\* The marked token points to a live one, so what led to it leads on.
LEMMA ChainReplace ==
    ASSUME ChainInv, NEW r \in Requests, Replace(r)
    PROVE  (\A u \in Tokens : AgesFall(u)') /\ \A c \in Browsers : Followed(c)'
<1>1. /\ refresh[r].pc = "mark" /\ held' = held /\ device' = device
      /\ token' = [token EXCEPT ![refresh[r].tok] = Rotated(token[refresh[r].tok], refresh[r].new)]
      /\ refresh' = [refresh EXCEPT ![r].pc = "reply"]
  BY DEF Replace
<1>2. TokensInv /\ refresh \in [Requests -> Renewals] /\ token \in [Tokens -> TokenRows]
  BY DEF ChainInv, TokensInv, TokensTypeOK
<1>3. PICK o \in Tokens : o = refresh[r].tok BY <1>1, <1>2 DEF TokensInv, BusyFits
<1>4. PICK n \in Tokens : n = refresh[r].new BY <1>1, <1>2 DEF TokensInv, NewApart
<1>5. PICK d \in Clients : d = refresh[r].client BY <1>1, <1>2 DEF TokensInv, BusyFits
<1>6. token[o].client = d /\ token[n].client = d /\ n # o
  BY <1>1, <1>2, <1>3, <1>4, <1>5 DEF TokensInv, BusyFits, NewApart
<1>7. /\ token'[o].state = "rotated" /\ token'[o].next = n /\ token'[o].age = 0 /\ token'[o].client = d
      /\ \A u \in Tokens \ {o} : token'[u] = token[u]
  BY <1>1, <1>2, <1>3, <1>4, <1>6 DEF Rotated, TokenRows
<1>8. /\ \A q \in Requests \ {r} : refresh'[q] = refresh[q]
      /\ refresh'[r].pc = "reply" /\ refresh'[r].new = n /\ refresh'[r].client = d
  BY <1>1, <1>2, <1>4, <1>5 DEF Renewals
<1>9. d \in Browsers => token[n].state = "live" BY <1>1, <1>4, <1>5 DEF ChainInv, Followed, WorkOf
<1>10. ASSUME NEW u \in Tokens, token'[u].state = "rotated", token'[u].client \in Browsers
       PROVE  /\ token'[u].next \in Tokens
              /\ token'[token'[u].next].state = "rotated" => token'[token'[u].next].age <= token'[u].age
  <2>1. CASE u = o BY <1>6, <1>7, <1>9, <1>10, <2>1
  <2>2. CASE u # o
    <3>1. token'[u] = token[u] BY <1>7, <2>2
    <3>2. PICK x \in Tokens : x = token[u].next BY <1>10, <3>1 DEF ChainInv, AgesFall
    <3>3. token[x].state = "rotated" => token[x].age <= token[u].age
      BY <1>10, <3>1, <3>2 DEF ChainInv, AgesFall
    <3>4. token[u].age \in Nat BY <1>2 DEF TokenRows
    <3>5. QED BY <1>7, <3>1, <3>2, <3>3, <3>4
  <2>3. QED BY <2>1, <2>2
<1>11. ASSUME NEW c \in Browsers, c = d PROVE Followed(c)'
  <2>1. Followed(c) /\ token[n].state = "live" BY <1>9, <1>11 DEF ChainInv
  <2>2. \A t \in Tokens : token[t].client = c /\ Good(t) => Good(t)'
    BY <1>1, <1>2, <1>3, <1>4, <1>6, <1>11, <2>1, StillGood
  <2>3. LiveOf(c) # {} /\ LiveOf(c)' # {}
    <3>1. n \in LiveOf(c) /\ n \in LiveOf(c)' BY <1>6, <1>7, <1>11, <2>1 DEF LiveOf
    <3>2. QED BY <3>1
  <2>4. WorkOf(r, c)' BY <1>6, <1>7, <1>8, <2>1, <2>3 DEF WorkOf
  <2>5. ASSUME NEW q \in Requests \ {r}, refresh[q].client = c, refresh[q].pc \in {"mark", "reply"}
        PROVE  token'[refresh[q].new].state = "live"
    <3>1. refresh[q].new \in Tokens /\ token[refresh[q].new].state = "live" BY <1>2, <2>1, <2>5, NewIsOwn
    <3>2. refresh[q].new # o BY <1>1, <1>2, <1>3, <2>5 DEF TokensInv, NewApart
    <3>3. QED BY <1>7, <3>1, <3>2
  <2>6. device'[c].status = "none" BY <1>1, <2>1 DEF Followed
  <2>7. QED BY <1>1, <1>2, <1>8, <2>1, <2>2, <2>3, <2>4, <2>5, <2>6, FollowedBy
<1>12. ASSUME NEW c \in Browsers, c # d PROVE Followed(c)'
  <2>1. Followed(c) BY DEF ChainInv
  <2>2. SameChains(c) BY <1>6, <1>7, <1>12 DEF SameChains, KeptChains
  <2>3. WorkOf(r, c)' BY <1>8, <1>12 DEF WorkOf
  <2>4. device'[c].status = "none" BY <1>1, <2>1 DEF Followed
  <2>5. QED BY <1>1, <1>2, <1>8, <2>1, <2>2, <2>3, <2>4, FollowedOn
<1>13. \A u \in Tokens : AgesFall(u)' BY <1>10 DEF AgesFall, Browsers
<1>14. QED BY <1>11, <1>12, <1>13

\* A lost reply changes no row: the page still holds what leads to the live token.
LEMMA ChainReplyLost ==
    ASSUME ChainInv, NEW r \in Requests, ReplyLost(r)
    PROVE  (\A u \in Tokens : AgesFall(u)') /\ \A c \in Browsers : Followed(c)'
<1>1. /\ held' = held /\ device' = device /\ token' = [token EXCEPT ![refresh[r].new].lost = TRUE]
      /\ refresh' = [refresh EXCEPT ![r] = NoRefresh]
  BY DEF ReplyLost
<1>2. TokensInv /\ refresh \in [Requests -> Renewals] /\ token \in [Tokens -> TokenRows]
  BY DEF ChainInv, TokensInv, TokensTypeOK
<1>3. \A u \in Tokens : /\ token'[u].client = token[u].client /\ token'[u].state = token[u].state
                        /\ token'[u].next = token[u].next /\ token'[u].age = token[u].age
  BY <1>1, <1>2 DEF TokenRows
<1>4. \A u \in Tokens : AgesFall(u)' BY <1>3, AgesOn DEF ChainInv
<1>5. \A c \in Browsers : SameChains(c) BY <1>3 DEF SameChains, KeptChains
<1>6. \A q \in Requests : refresh'[q] = refresh[q] \/ refresh'[q] = NoRefresh BY <1>1, <1>2
<1>7. ASSUME NEW c \in Browsers PROVE Followed(c)'
  <2>1. Followed(c) BY DEF ChainInv
  <2>2. device'[c].status = "none" BY <1>1, <2>1 DEF Followed
  <2>3. \A q \in Requests : refresh'[q] = refresh[q] \/ WorkOf(q, c)' BY <1>6 DEF WorkOf, NoRefresh
  <2>4. QED BY <1>1, <1>2, <1>5, <2>1, <2>2, <2>3, FollowedOn
<1>8. QED BY <1>4, <1>7

\* Time ages what a token was replaced by no sooner than the token.
LEMMA ChainAge ==
    ASSUME ChainInv, TokensAge
    PROVE  (\A u \in Tokens : AgesFall(u)') /\ \A c \in Browsers : Followed(c)'
<1>1. /\ held' = held /\ device' = device /\ refresh' = refresh
      /\ token' = [t \in Tokens |-> IF token[t].state = "rotated" /\ token[t].age < 2
                                  THEN [token[t] EXCEPT !.age = @ + 1] ELSE token[t]]
  BY DEF TokensAge
<1>2. TokensInv /\ token \in [Tokens -> TokenRows] BY DEF ChainInv, TokensInv, TokensTypeOK
<1>3. ASSUME NEW u \in Tokens
      PROVE  /\ token'[u].client = token[u].client /\ token'[u].state = token[u].state
             /\ token'[u].next = token[u].next /\ token[u].age \in Nat
             /\ token'[u].age = IF token[u].state = "rotated" /\ token[u].age < 2 THEN token[u].age + 1
                                ELSE token[u].age
  <2>1. token[u] \in TokenRows BY <1>2
  <2>2. token'[u] = IF token[u].state = "rotated" /\ token[u].age < 2
                    THEN [token[u] EXCEPT !.age = @ + 1] ELSE token[u]
    BY <1>1
  <2>3. QED BY <2>1, <2>2 DEF TokenRows
<1>4. ASSUME NEW u \in Tokens, token'[u].state = "rotated", token'[u].client \in Browsers
      PROVE  /\ token'[u].next \in Tokens
             /\ token'[token'[u].next].state = "rotated" => token'[token'[u].next].age <= token'[u].age
  <2>1. token[u].state = "rotated" /\ token[u].client \in Browsers BY <1>3, <1>4
  <2>2. PICK x \in Tokens : x = token[u].next BY <2>1 DEF ChainInv, AgesFall
  <2>3. token[x].state = "rotated" => token[x].age <= token[u].age BY <2>1, <2>2 DEF ChainInv, AgesFall
  <2>4. token'[u].next = x BY <1>3, <2>2
  <2>5. QED BY <1>3, <2>1, <2>3, <2>4
<1>5. \A u \in Tokens : AgesFall(u)' BY <1>4 DEF AgesFall, Browsers
<1>6. \A c \in Browsers : SameChains(c) BY <1>3 DEF SameChains, KeptChains
<1>7. ASSUME NEW c \in Browsers PROVE Followed(c)'
  <2>1. Followed(c) BY DEF ChainInv
  <2>2. device'[c].status = "none" BY <1>1, <2>1 DEF Followed
  <2>3. QED BY <1>1, <1>2, <1>6, <2>1, <2>2, FollowedOn
<1>8. QED BY <1>5, <1>7

-----------------------------------------------------------------------------
\* Every step of a refresh keeps the chains.
LEMMA ChainServe ==
    ASSUME ChainInv, WithinReach, "overlap" \notin Events, NEW r \in Requests,
           ServeRefresh(r) \/ ServerDies(r) \/ ReplyLost(r)
    PROVE  (\A u \in Tokens : AgesFall(u)') /\ \A c \in Browsers : Followed(c)'
<1>1. CASE Abandon(r) \/ ServerDies(r) \/ Suspect(r)
  <2>1. /\ token' = token /\ device' = device /\ held' = held
        /\ refresh' = [refresh EXCEPT ![r] = NoRefresh] \/ refresh' = [refresh EXCEPT ![r].pc = "alarm"]
    BY <1>1 DEF Abandon, ServerDies, Suspect
  <2>2. refresh \in [Requests -> Renewals] BY DEF ChainInv, TokensInv, TokensTypeOK
  <2>3. (\A q \in Requests \ {r} : refresh'[q] = refresh[q]) /\ refresh'[r].pc \in {"idle", "alarm"}
    BY <2>1, <2>2 DEF NoRefresh, Renewals
  <2>4. \A c \in Browsers : Followed(c)' BY <2>1, <2>3, ChainEnds
  <2>5. QED BY <2>1, <2>4, TokensAlone
<1>2. CASE Admit(r) \/ Refuse(r) \/ Store(r)
  <2>1. token' = token BY <1>2 DEF Admit, Refuse, Store
  <2>2. \A c \in Browsers : Followed(c)' BY <1>2, ChainAdmit, ChainRefuse, ChainStore
  <2>3. QED BY <2>1, <2>2, TokensAlone
<1>3. CASE Alarm(r) BY <1>3, ChainAlarm
<1>4. CASE Issue(r) BY <1>4, ChainIssue
<1>5. CASE Replace(r) BY <1>5, ChainReplace
<1>6. CASE ReplyLost(r) BY <1>6, ChainReplyLost
<1>7. QED BY <1>1, <1>2, <1>3, <1>4, <1>5, <1>6 DEF ServeRefresh

\* A live token is somebody's.
LEMMA OwnedStep ==
    ASSUME ChainInv, [TokensNext]_tokenVars
    PROVE  \A u \in Tokens : Owned(u)'
<1> SUFFICES ASSUME NEW u \in Tokens PROVE Owned(u)' OBVIOUS
<1>1. Owned(u) /\ token \in [Tokens -> TokenRows] /\ refresh \in [Requests -> Renewals]
  BY DEF ChainInv, TokensInv, TokensTypeOK
<1>2. token[u] \in TokenRows BY <1>1
<1>3. ASSUME NEW C, token' = Revoked(C) PROVE Owned(u)' BY <1>1, <1>2, <1>3 DEF Revoked, Owned, TokenRows
<1>4. ASSUME NEW n \in Tokens, NEW d \in Clients, NEW v, NEW l, NEW T \in [Tokens -> TokenRows],
             T = token \/ (\E C : T = Revoked(C)), token' = [T EXCEPT ![n] = Created(d, v, l)]
      PROVE  Owned(u)'
  <2>1. CASE u = n
    <3>1. token'[u] = Created(d, v, l) BY <1>4, <2>1
    <3>2. QED BY <3>1 DEF Created, NoToken, Owned
  <2>2. CASE u # n
    <3>1. token'[u] = T[u] BY <1>4, <2>2
    <3>2. CASE T = token BY <1>1, <3>1, <3>2 DEF Owned
    <3>3. ASSUME NEW C, T = Revoked(C) PROVE Owned(u)' BY <1>1, <1>2, <3>1, <3>3 DEF Revoked, Owned, TokenRows
    <3>4. QED BY <1>4, <3>2, <3>3
  <2>3. QED BY <2>1, <2>2
<1>5. ASSUME token'[u] = token[u] \/ (token'[u].client = token[u].client /\ token'[u].state = token[u].state)
             \/ token'[u].state # "live"
      PROVE  Owned(u)'
  BY <1>1, <1>5 DEF Owned
<1>6. ASSUME NEW d \in Clients, SignIn(d) \/ Reinstall(d) PROVE Owned(u)'
  <2>1. Revoked({d}) \in [Tokens -> TokenRows] BY <1>1 DEF Revoked, TokenRows
  <2>2. PICK n \in FreeTokens :
           \/ token' = [token EXCEPT ![n] = Created(d, NextVersion(d), device[d].login + 1)]
           \/ token' = [Revoked({d}) EXCEPT ![n] = Created(d, NextVersion(d), device[d].login + 1)]
    BY <1>6 DEF SignIn, Reinstall
  <2>3. n \in Tokens BY DEF FreeTokens
  <2>4. QED BY <1>1, <1>4, <2>1, <2>2, <2>3
<1>7. ASSUME NEW d \in Clients, SignOut(d) \/ Kick(d) PROVE Owned(u)'
  <2>1. \/ \E C : token' = Revoked(C)
        \/ token' = [t \in Tokens |-> IF token[t].client = d THEN [token[t] EXCEPT !.state = "deleted"] ELSE token[t]]
    BY <1>7 DEF SignOut, SignedOut, Kick
  <2>2. CASE token' = [t \in Tokens |-> IF token[t].client = d THEN [token[t] EXCEPT !.state = "deleted"] ELSE token[t]]
    <3>1. token'[u] = token[u] \/ token'[u] = [token[u] EXCEPT !.state = "deleted"] BY <2>2
    <3>2. QED BY <1>2, <1>5, <3>1 DEF TokenRows
  <2>3. QED BY <1>3, <2>1, <2>2
<1>8. ASSUME NEW r \in Requests, Issue(r) PROVE Owned(u)'
  <2>1. PICK n \in FreeTokens : token' = [token EXCEPT ![n] = Created(refresh[r].client, refresh[r].version,
                                                  token[refresh[r].tok].login)]
    BY <1>8 DEF Issue
  <2>2. refresh[r].client \in Clients /\ n \in Tokens
    BY <1>8 DEF Issue, ChainInv, TokensInv, BusyFits, FreeTokens
  <2>3. QED BY <1>1, <1>4, <2>1, <2>2
<1>9. ASSUME NEW r \in Requests, Replace(r) \/ ReplyLost(r) PROVE Owned(u)'
  <2>1. CASE Replace(r)
    <3>1. token'[u] = token[u] \/ token'[u] = Rotated(token[u], refresh[r].new) BY <1>1, <2>1 DEF Replace
    <3>2. QED BY <1>2, <1>5, <3>1 DEF Rotated, TokenRows
  <2>2. CASE ReplyLost(r)
    <3>1. token'[u] = token[u] \/ token'[u] = [token[u] EXCEPT !.lost = TRUE] BY <1>1, <2>2 DEF ReplyLost
    <3>2. QED BY <1>2, <1>5, <3>1 DEF TokenRows
  <2>3. QED BY <1>9, <2>1, <2>2
<1>10. ASSUME TokensAge PROVE Owned(u)'
  <2>1. token'[u] = token[u] \/ token'[u] = [token[u] EXCEPT !.age = @ + 1] BY <1>10 DEF TokensAge
  <2>2. QED BY <1>2, <1>5, <2>1 DEF TokenRows
<1>11. ASSUME token' = token PROVE Owned(u)' BY <1>1, <1>11 DEF Owned
<1>12. ASSUME NEW r \in Requests, NEW d \in Clients, AskRefresh(r, d) PROVE Owned(u)'
  BY <1>11, <1>12 DEF AskRefresh
<1>13. ASSUME NEW r \in Requests, ServeRefresh(r) \/ ServerDies(r) PROVE Owned(u)'
  <2>1. CASE Admit(r) \/ Refuse(r) \/ Suspect(r) \/ Abandon(r) \/ Store(r) \/ ServerDies(r)
    BY <1>11, <2>1 DEF Admit, Refuse, Suspect, Abandon, Store, ServerDies
  <2>2. CASE Alarm(r) BY <1>3, <2>2 DEF Alarm
  <2>3. QED BY <1>8, <1>9, <1>13, <2>1, <2>2 DEF ServeRefresh
<1>14. CASE RevokeAll BY <1>3, <1>14 DEF RevokeAll
<1>15. CASE UNCHANGED tokenVars BY <1>11, <1>15 DEF tokenVars
<1>16. QED BY <1>6, <1>7, <1>9, <1>10, <1>12, <1>13, <1>14, <1>15 DEF TokensNext

\* Every action keeps the invariant of the chains.
LEMMA ChainStep ==
    ASSUME ChainInv, WithinReach, "overlap" \notin Events, [TokensNext]_tokenVars
    PROVE  ChainInv'
<1>1. TokensInv' BY TokensStep DEF ChainInv
<1>2. (\A u \in Tokens : AgesFall(u)') /\ \A c \in Browsers : Followed(c)'
  <2>1. ASSUME NEW d \in Clients, SignIn(d) \/ Reinstall(d) \/ SignOut(d) \/ Kick(d)
        PROVE  (\A u \in Tokens : AgesFall(u)') /\ \A c \in Browsers : Followed(c)'
    BY <2>1, ChainSignIn, ChainReinstall, ChainSignOut, ChainKick
  <2>2. ASSUME NEW r \in Requests, NEW d \in Clients, AskRefresh(r, d)
        PROVE  (\A u \in Tokens : AgesFall(u)') /\ \A c \in Browsers : Followed(c)'
    BY <2>2, ChainAsk
  <2>3. ASSUME NEW r \in Requests, ServeRefresh(r) \/ ServerDies(r) \/ ReplyLost(r)
        PROVE  (\A u \in Tokens : AgesFall(u)') /\ \A c \in Browsers : Followed(c)'
    BY <2>3, ChainServe
  <2>4. CASE UNCHANGED tokenVars
    <3>1. token' = token /\ device' = device /\ held' = held /\ refresh' = refresh BY <2>4 DEF tokenVars
    <3>2. ASSUME NEW c \in Browsers PROVE Followed(c)'
      <4>1. Followed(c) /\ TokensInv /\ SameChains(c) BY <3>1, TokensAlone DEF ChainInv
      <4>2. device'[c].status = "none" BY <3>1, <4>1 DEF Followed
      <4>3. QED BY <3>1, <4>1, <4>2, FollowedOn
    <3>3. QED BY <3>1, <3>2, TokensAlone
  <2>5. CASE RevokeAll BY <2>5, ChainRevokeAll
  <2>6. CASE TokensAge BY <2>6, ChainAge
  <2>7. QED BY <2>1, <2>2, <2>3, <2>4, <2>5, <2>6 DEF TokensNext
<1>3. QED BY <1>1, <1>2, OwnedStep DEF ChainInv, Browsers

\* There are no tokens at first.
LEMMA ChainInitial == TokensInit => ChainInv
<1> SUFFICES ASSUME TokensInit PROVE ChainInv OBVIOUS
<1>1. TokensInv BY TokensInitial
<1>2. \A t \in Tokens : token[t] = NoToken BY DEF TokensInit
<1>3. \A t \in Tokens : AgesFall(t) BY <1>2 DEF AgesFall, NoToken
<1>4. ASSUME NEW c \in Browsers PROVE Followed(c)
  <2>1. device[c].status = "none" BY DEF TokensInit, Browsers
  <2>2. LiveOf(c) = {} BY <1>2 DEF LiveOf, NoToken
  <2>3. \A r \in Requests : refresh[r].pc = "idle" BY DEF TokensInit, NoRefresh
  <2>4. QED BY <2>1, <2>2, <2>3 DEF Followed, WorkOf
<1>5. \A t \in Tokens : Owned(t) BY <1>2 DEF Owned, NoToken
<1>6. QED BY <1>1, <1>3, <1>4, <1>5 DEF ChainInv

\* When every browser is out, no token without a device is good.
LEMMA NothingIsLeft == ASSUME ChainInv PROVE NothingLeftBehind
<1>1. SUFFICES ASSUME \A c \in Clients \ Apps : held[c] = None /\ BusyFor(c) = {},
                      NEW t \in Tokens, Usable(t)
               PROVE  token[t].client \in Apps
  BY DEF NothingLeftBehind
<1>2. token[t] \in TokenRows /\ (token[t].state = "live" \/ LiveSuccessor(t))
  BY <1>1 DEF ChainInv, TokensInv, TokensTypeOK, Usable
<1>3. LiveOf(token[t].client) # {}
  <2>1. CASE token[t].state = "live" BY <2>1 DEF LiveOf
  <2>2. CASE LiveSuccessor(t) BY <2>2, SuccessorIsLive
  <2>3. QED BY <1>2, <2>1, <2>2
<1>4. token[t].client \notin Browsers BY <1>1, <1>3 DEF ChainInv, Followed, Browsers
<1>5. token[t].client \in Clients BY <1>3 DEF LiveOf, ChainInv, Owned
<1>6. QED BY <1>4, <1>5 DEF Browsers

-----------------------------------------------------------------------------
\* The table has at most one row more than the server follows, so no chain is too long for it.
ShortChains == Depth \in Nat /\ IsFiniteSet(Tokens) /\ Cardinality(Tokens) <= Depth + 1

\* In a small table nothing is out of the server's reach.
LEMMA ShortIsWithin == ASSUME TokensInv, ShortChains PROVE WithinReach
<1> SUFFICES ASSUME NEW r \in Requests, refresh[r].pc = "sent",
                    token[refresh[r].tok].state = "rotated", Leads(refresh[r].tok)
             PROVE  Within(refresh[r].tok)
  BY DEF WithinReach
<1>1. refresh[r].tok \in Tokens BY DEF TokensInv, BusyFits
<1>2. QED BY <1>1, ShortPath DEF ShortChains

\* The refresh tokens are safe: no renewal outlives its device, honest pages never set off the
\* alarm, and once every browser is out no token without a device is accepted any more.  For
\* every number of clients, tokens and refreshes in progress, with crashes and lost replies
\* (rotateRefreshToken, logout), when nothing is revoked between the two writes of a
\* browser's rotation and no page asks with a token further behind than the server follows.
THEOREM RenewalsKept == "overlap" \notin Events => (MCSpec /\ []WithinReach => []TokensSafe)
<1> SUFFICES ASSUME "overlap" \notin Events PROVE MCSpec /\ []WithinReach => []TokensSafe OBVIOUS
<1>1. MCInit => ChainInv BY ChainInitial DEF MCInit
<1>2. ChainInv /\ WithinReach /\ [MCNext]_accountVars => ChainInv' BY TokenSteps, ChainStep
<1>3. ChainInv => NothingLeftBehind BY NothingIsLeft
<1>4. MCSpec => [](FormerLifeEnded /\ AlarmMeansLoss) BY TokensKept
<1>5. FormerLifeEnded /\ AlarmMeansLoss /\ NothingLeftBehind => TokensSafe BY DEF TokensSafe
<1>6. QED BY <1>1, <1>2, <1>3, <1>4, <1>5, PTL DEF MCSpec

\* They are safe whatever the pages miss while the account has at most one row more than a
\* rotation follows.  With more, a page that had no answer for that long is refused and forgets the
\* token that still lives, so the bound is needed.
THEOREM FewRenewalsKept == "overlap" \notin Events /\ ShortChains => (MCSpec => []TokensSafe)
<1> SUFFICES ASSUME "overlap" \notin Events, ShortChains PROVE MCSpec => []TokensSafe OBVIOUS
<1>1. MCInit => TokensInv BY TokensInitial DEF MCInit
<1>2. TokensInv /\ [MCNext]_accountVars => TokensInv' BY TokenSteps, TokensStep
<1>3. TokensInv => WithinReach BY ShortIsWithin
<1>4. MCSpec /\ []WithinReach => []TokensSafe BY RenewalsKept
<1>5. QED BY <1>1, <1>2, <1>3, <1>4, PTL DEF MCSpec

-----------------------------------------------------------------------------
(* The traffic of a plan.                                                  *)

\* A step of the whole is a step of the window, or leaves it alone.
LEMMA WindowSteps == ASSUME [MCNext]_accountVars PROVE [WindowNext]_windowVars
<1>1. CASE MCNext BY <1>1 DEF MCNext, Only
<1>2. CASE UNCHANGED accountVars BY <1>2 DEF accountVars, partVars
<1>3. QED BY <1>1, <1>2

\* A subscription's row.
Grants == [plan : Offers, tier : Int, created : Nat, until : Int, active : BOOLEAN]

\* The variables of the traffic window have their types.
WindowTypeOK ==
    /\ age \in Nat /\ grants \in Seq(Grants) /\ units \in Seq(Nat)
    /\ \A i \in DOMAIN grants : grants[i].tier = Tier[grants[i].plan] /\ grants[i].created <= age

\* Of the rows that run, a later one is of a lower tier: it was bought on top of a dearer one
\* and took over everything else.
Falling == \A i, j \in DOMAIN grants : i < j /\ Running(i) => grants[j].tier < grants[i].tier

\* The inductive invariant of the traffic window.
WindowInv == WindowTypeOK /\ Falling

\* Nothing is granted.
LEMMA WindowInitial == WindowInit => WindowInv
BY DEF WindowInit, WindowInv, WindowTypeOK, Falling

\* Every grant is a row of its table.
LEMMA GrantOf ==
    ASSUME WindowTypeOK
    PROVE  /\ Len(grants) \in Nat /\ DOMAIN grants = 1 .. Len(grants)
           /\ \A i \in DOMAIN grants : /\ grants[i] \in Grants /\ grants[i].tier = Tier[grants[i].plan]
                                       /\ grants[i].created <= age
<1>1. grants \in Seq(Grants) BY DEF WindowTypeOK
<1>2. Len(grants) \in Nat /\ DOMAIN grants = 1 .. Len(grants) BY <1>1
<1>3. \A i \in DOMAIN grants : grants[i] \in Grants BY <1>1, <1>2
<1>4. QED BY <1>2, <1>3 DEF WindowTypeOK

\* Rows that are turned off, and days that pass, leave no more running than there was.
LEMMA FallingStays ==
    ASSUME WindowInv, DOMAIN grants' = DOMAIN grants, age' \in Nat, age' >= age,
           \A i \in DOMAIN grants : /\ grants'[i].tier = grants[i].tier /\ grants'[i].until = grants[i].until
                                    /\ grants'[i].active => grants[i].active
    PROVE  Falling'
<1>1. \A i \in DOMAIN grants : grants[i].until \in Int BY GrantOf DEF Grants, WindowInv
<1>2. ASSUME NEW i \in DOMAIN grants, Running(i)' PROVE Running(i)
  <2>1. grants[i].until > age' /\ grants[i].active BY <1>2 DEF Running
  <2>2. QED BY <1>1, <2>1 DEF Running, WindowInv, WindowTypeOK
<1>3. QED BY <1>2 DEF Falling, WindowInv

\* What grantPlan writes: a row of the plan from where it begins, and an end to what it takes over.
LEMMA GivesShape ==
    ASSUME WindowInv, NEW p \in Offers, NEW mode, NEW start, Gives(p, mode, start), NEW n, n = Len(grants)
    PROVE  /\ n \in Nat /\ DOMAIN grants = 1 .. n /\ DOMAIN grants' = 1 .. n + 1 /\ grants' \in Seq(Grants)
           /\ start \in Int /\ age' = age /\ units' = units
           /\ \A i \in 1 .. n :
                /\ grants'[i].plan = grants[i].plan /\ grants'[i].tier = grants[i].tier
                /\ grants'[i].created = grants[i].created /\ grants'[i].until = grants[i].until
                /\ i \notin Taken(p, mode) => grants'[i].active = grants[i].active
                /\ i \in Taken(p, mode) => ~grants'[i].active
           /\ grants'[n + 1] = Term(p, start) /\ Term(p, start) \in Grants
           /\ \A i \in Taken(p, mode) : mode # "replace" => grants[i].until <= start
<1>1. n \in Nat /\ DOMAIN grants = 1 .. n /\ \A i \in 1 .. n : grants[i] \in Grants BY GrantOf DEF WindowInv
<1>2. age \in Nat /\ \A i \in 1 .. n : grants[i].until \in Int BY <1>1 DEF WindowInv, WindowTypeOK, Grants
<1>3. Taken(p, mode) \in SUBSET (1 .. n) BY <1>1 DEF Taken
<1>4. start \in Int BY <1>2, <1>3 DEF Gives, Begins
<1>5. Tier[p] \in Int /\ start + Terms[p] \in Int BY <1>4, OfferAssumption DEF OfferAssumption
<1>6. Term(p, start) \in Grants BY <1>2, <1>5 DEF Term, Grants
<1> DEFINE over == [i \in DOMAIN grants |-> IF i \in Taken(p, mode) THEN [grants[i] EXCEPT !.active = FALSE]
                                            ELSE grants[i]]
<1>7. grants' = Append(over, Term(p, start)) /\ age' = age /\ units' = units BY DEF Gives, TakenOver
<1>8. ASSUME NEW i \in 1 .. n
      PROVE  /\ over[i] \in Grants /\ over[i].plan = grants[i].plan /\ over[i].tier = grants[i].tier
             /\ over[i].created = grants[i].created /\ over[i].until = grants[i].until
             /\ i \notin Taken(p, mode) => over[i].active = grants[i].active
             /\ i \in Taken(p, mode) => ~over[i].active
  <2>1. PICK was \in Grants : was = grants[i] BY <1>1
  <2> DEFINE k == [was EXCEPT !.active = FALSE]
  <2>2. /\ k \in Grants /\ k.plan = was.plan /\ k.tier = was.tier /\ k.created = was.created
        /\ k.until = was.until /\ k.active = FALSE
    BY DEF Grants
  <2>3. (i \in Taken(p, mode) => over[i] = k) /\ (i \notin Taken(p, mode) => over[i] = was) BY <1>1, <2>1
  <2> HIDE DEF k, over
  <2>4. QED BY <2>1, <2>2, <2>3
<1>9. over = [i \in 1 .. n |-> over[i]] BY <1>1
<1>10. \A i \in Taken(p, mode) : mode # "replace" => grants[i].until <= start BY DEF Gives, Begins
<1> HIDE DEF over
<1>11. over \in Seq(Grants) /\ Len(over) = n BY <1>1, <1>8, <1>9
<1>12. /\ grants' \in Seq(Grants) /\ DOMAIN grants' = 1 .. n + 1 /\ grants'[n + 1] = Term(p, start)
       /\ \A i \in 1 .. n : grants'[i] = over[i]
  BY <1>1, <1>6, <1>7, <1>11
<1>13. QED BY <1>1, <1>4, <1>6, <1>7, <1>8, <1>10, <1>12

\* A grant, whatever its mode, keeps the invariant.
LEMMA GivesFits ==
    ASSUME WindowInv, NEW p \in Offers, NEW mode, NEW start, Gives(p, mode, start)
    PROVE  WindowInv'
<1>1. PICK n : n = Len(grants) OBVIOUS
<1>2. /\ n \in Nat /\ DOMAIN grants = 1 .. n /\ DOMAIN grants' = 1 .. n + 1 /\ grants' \in Seq(Grants)
      /\ start \in Int /\ age' = age /\ units' = units
      /\ \A i \in 1 .. n :
           /\ grants'[i].plan = grants[i].plan /\ grants'[i].tier = grants[i].tier
           /\ grants'[i].created = grants[i].created /\ grants'[i].until = grants[i].until
           /\ i \notin Taken(p, mode) => grants'[i].active = grants[i].active
           /\ i \in Taken(p, mode) => ~grants'[i].active
      /\ grants'[n + 1] = Term(p, start) /\ Term(p, start) \in Grants
  BY <1>1, GivesShape
<1>3. age \in Nat BY DEF WindowInv, WindowTypeOK
<1>4. Term(p, start).plan = p /\ Term(p, start).tier = Tier[p] /\ Term(p, start).created = age BY DEF Term
<1>5. \A i \in 1 .. n : grants[i].tier = Tier[grants[i].plan] /\ grants[i].created <= age BY <1>2, GrantOf DEF WindowInv
<1>6. \A i \in DOMAIN grants' : i = n + 1 \/ i \in 1 .. n BY <1>2
<1>7. \A i \in DOMAIN grants' : grants'[i].tier = Tier[grants'[i].plan] /\ grants'[i].created <= age'
  BY <1>2, <1>3, <1>4, <1>5, <1>6
<1>8. WindowTypeOK' BY <1>2, <1>3, <1>7 DEF WindowTypeOK, WindowInv
<1>9. Falling'
  <2>1. SUFFICES ASSUME NEW i \in DOMAIN grants', NEW j \in DOMAIN grants', i < j, Running(i)'
                 PROVE  grants'[j].tier < grants'[i].tier
    BY DEF Falling
  <2>2. i \in 1 .. n BY <1>2, <2>1
  <2>3. grants'[i].active /\ grants'[i].until > age BY <1>2, <2>1 DEF Running
  <2>4. i \notin Taken(p, mode) /\ Running(i) BY <1>2, <2>2, <2>3 DEF Running
  <2>5. CASE j \in 1 .. n BY <1>2, <2>1, <2>2, <2>4, <2>5 DEF WindowInv, Falling
  <2>6. CASE j = n + 1
    <3>1. ~(grants[i].tier <= Tier[p]) BY <1>2, <2>2, <2>4 DEF Taken
    <3>2. grants[i].tier \in Int /\ Tier[p] \in Int
      BY <1>2, <2>2, GrantOf, OfferAssumption DEF Grants, OfferAssumption, WindowInv
    <3>3. QED BY <1>2, <1>4, <2>2, <2>6, <3>1, <3>2
  <2>7. QED BY <1>6, <2>5, <2>6
<1>10. QED BY <1>8, <1>9 DEF WindowInv

\* Every step of the window keeps the invariant.
LEMMA WindowStep == ASSUME WindowInv, [WindowNext]_windowVars PROVE WindowInv'
<1>1. age \in Nat /\ units \in Seq(Nat) /\ grants \in Seq(Grants) BY DEF WindowInv, WindowTypeOK
<1>2. CASE UNCHANGED <<age, grants>> /\ units' \in Seq(Nat)
  BY <1>2 DEF WindowInv, WindowTypeOK, Falling, Running
<1>3. CASE Spends BY <1>1, <1>2, <1>3 DEF Spends
<1>4. CASE ADayLater
  <2>1. age' = age + 1 /\ grants' = grants /\ units' = units BY <1>4 DEF ADayLater
  <2>2. \A i \in DOMAIN grants : grants[i].created \in Nat /\ grants[i].created <= age
    BY GrantOf DEF Grants, WindowInv
  <2>3. WindowTypeOK' BY <1>1, <2>1, <2>2 DEF WindowInv, WindowTypeOK
  <2>4. Falling' BY <1>1, <2>1, FallingStays
  <2>5. QED BY <2>3, <2>4 DEF WindowInv
<1>5. CASE TurnsOff
  <2>1. /\ grants' = [i \in DOMAIN grants |-> [grants[i] EXCEPT !.active = FALSE]]
        /\ age' = age /\ units' = units
    BY <1>5 DEF TurnsOff
  <2>2. /\ Len(grants) \in Nat /\ DOMAIN grants = 1 .. Len(grants)
        /\ \A i \in DOMAIN grants : grants[i] \in Grants /\ grants[i].tier = Tier[grants[i].plan]
                                    /\ grants[i].created <= age
    BY GrantOf DEF WindowInv
  <2>3. \A was \in Grants : LET k == [was EXCEPT !.active = FALSE] IN
          /\ k \in Grants /\ k.plan = was.plan /\ k.tier = was.tier /\ k.created = was.created
          /\ k.until = was.until /\ k.active = FALSE
    BY DEF Grants
  <2>4. \A i \in DOMAIN grants : grants'[i] = [grants[i] EXCEPT !.active = FALSE] BY <2>1
  <2>5. \A i \in DOMAIN grants :
          /\ grants'[i] \in Grants /\ grants'[i].plan = grants[i].plan /\ grants'[i].tier = grants[i].tier
          /\ grants'[i].created = grants[i].created /\ grants'[i].until = grants[i].until /\ ~grants'[i].active
    BY <2>2, <2>3, <2>4, ZenonT(30)
  <2>6. DOMAIN grants' = DOMAIN grants /\ grants' = [i \in 1 .. Len(grants) |-> grants'[i]] BY <2>1, <2>2
  <2>7. grants' \in Seq(Grants) BY <2>2, <2>5, <2>6
  <2>8. WindowTypeOK' BY <1>1, <2>1, <2>2, <2>5, <2>6, <2>7 DEF WindowTypeOK
  <2>9. age' \in Nat /\ age' >= age BY <1>1, <2>1
  <2>10. Falling' BY <2>5, <2>6, <2>9, FallingStays
  <2>11. QED BY <2>8, <2>10 DEF WindowInv
<1>6. CASE \E p \in Offers : Extends(p) \/ Replaces(p) BY <1>6, GivesFits DEF Extends, Replaces
<1>7. CASE UNCHANGED windowVars BY <1>1, <1>2, <1>7 DEF windowVars
<1>8. QED BY <1>3, <1>4, <1>5, <1>6, <1>7 DEF WindowNext

-----------------------------------------------------------------------------
\* The one of highest tier, where the others are lower, is in force.
LEMMA OnlyTop ==
    ASSUME NEW g, NEW live, NEW b \in live, \A i \in live : g[i].tier \in Int /\ g[i].until \in Int,
           \A i \in live \ {b} : g[i].tier < g[b].tier
    PROVE  (CHOOSE i \in {x \in live : \A j \in live : g[j].tier <= g[x].tier} :
              \A j \in {x \in live : \A y \in live : g[y].tier <= g[x].tier} : g[j].until <= g[i].until) = b
<1> DEFINE top == {x \in live : \A j \in live : g[j].tier <= g[x].tier}
<1>1. b \in top OBVIOUS
<1>2. \A x \in top : x = b OBVIOUS
<1>3. top = {b} BY <1>1, <1>2
<1> HIDE DEF top
<1>4. (CHOOSE i \in top : \A j \in top : g[j].until <= g[i].until) = b BY <1>3
<1>5. QED BY <1>4 DEF top

\* The rows of a plan that a chain of renewals joins to the last of them, and the first of these.
Linked(g, S, j) == \A k \in S : k > j => g[Max({x \in S : x < k})].until + Slack >= g[k].created
\* The first of the rows in S that a chain of terms without a gap links to the rest.
FirstOf(g, S) == Min({j \in S : Linked(g, S, j)})

\* The window of a row begins where the first of its chain was made.
LEMMA ChainIs == ASSUME NEW i PROVE ChainStart(i) = grants[FirstOf(grants, SamePlan(i))].created
BY DEF ChainStart, FirstOf, Linked

\* Of finitely many rows there is a last one.
LEMMA LastIn ==
    ASSUME NEW n \in Nat, NEW S \in SUBSET (1 .. n), S # {}
    PROVE  Max(S) \in S /\ \A x \in S : x <= Max(S)
<1>1. PICK m \in S : \A x \in S : x <= m BY GreatestOf
<1>2. \E x \in S : \A y \in S : x >= y BY <1>1
<1>3. Max(S) = CHOOSE x \in S : \A y \in S : x >= y BY DEF Max
<1>4. Max(S) \in S /\ \A y \in S : Max(S) >= y BY <1>2, <1>3
<1>5. QED BY <1>4

\* Of some rows there is a first one.
LEMMA FirstIn ==
    ASSUME NEW S \in SUBSET Nat, S # {}
    PROVE  Min(S) \in S /\ \A x \in S : Min(S) <= x
<1>1. PICK m \in S : \A x \in S : m <= x BY LeastOf
<1>2. \E x \in S : \A y \in S : x =< y BY <1>1
<1>3. Min(S) = CHOOSE x \in S : \A y \in S : x =< y BY DEF Min
<1>4. QED BY <1>2, <1>3

\* A chain begins with one of its rows, and goes by nothing but the rows of its plan.
LEMMA FirstFits ==
    ASSUME NEW b \in Nat, NEW S \in SUBSET (1 .. b), b \in S, NEW g
    PROVE  FirstOf(g, S) \in S /\ b \in {j \in S : Linked(g, S, j)}
<1>1. Linked(g, S, b)
  <2>1. \A k \in S : ~(k > b) OBVIOUS
  <2>2. QED BY <2>1 DEF Linked
<1>2. {j \in S : Linked(g, S, j)} \in SUBSET Nat /\ {j \in S : Linked(g, S, j)} # {}
  <2>1. \A j \in S : j \in Nat OBVIOUS
  <2>2. QED BY <1>1, <2>1
<1>3. FirstOf(g, S) \in {j \in S : Linked(g, S, j)} BY <1>2, FirstIn DEF FirstOf
<1>4. QED BY <1>1, <1>3

\* What a chain is depends on when its rows were made and when they end, and on nothing else.
LEMMA LinkedSame ==
    ASSUME NEW n \in Nat, NEW S \in SUBSET (1 .. n), NEW g, NEW h,
           \A i \in S : g[i].until = h[i].until /\ g[i].created = h[i].created
    PROVE  FirstOf(g, S) = FirstOf(h, S)
<1>1. ASSUME NEW j \in S, NEW k \in S, k > j
      PROVE  (g[Max({x \in S : x < k})].until + Slack >= g[k].created)
                <=> (h[Max({x \in S : x < k})].until + Slack >= h[k].created)
  <2>1. j \in {x \in S : x < k} /\ {x \in S : x < k} \in SUBSET (1 .. n) BY <1>1
  <2>2. Max({x \in S : x < k}) \in S BY <2>1, LastIn
  <2>3. QED BY <2>2
<1>2. \A j \in S : Linked(g, S, j) <=> Linked(h, S, j) BY <1>1 DEF Linked
<1>3. {j \in S : Linked(g, S, j)} = {j \in S : Linked(h, S, j)} BY <1>2
<1>4. QED BY <1>3 DEF FirstOf

\* A renewal that is in time joins its chain, and leaves its beginning where it was.
LEMMA ChainGrows ==
    ASSUME NEW b \in Nat, NEW n \in Nat, b <= n, NEW S \in SUBSET (1 .. b), b \in S, NEW g,
           g[b].until + Slack >= g[n + 1].created
    PROVE  FirstOf(g, S \union {n + 1}) = FirstOf(g, S)
<1> DEFINE T == S \union {n + 1}
           J == {j \in S : Linked(g, S, j)}
<1>1. \A j \in S : j \in Nat /\ j <= b /\ j < n + 1 OBVIOUS
<1>2. \A k \in S : {x \in T : x < k} = {x \in S : x < k} BY <1>1
<1>3. {x \in T : x < n + 1} = S
  <2>1. ~(n + 1 < n + 1) OBVIOUS
  <2>2. QED BY <1>1, <2>1
<1>4. Max(S) = b
  <2>1. Max(S) \in S /\ \A x \in S : x <= Max(S) BY LastIn
  <2>2. Max(S) \in Nat /\ Max(S) <= b BY <1>1, <2>1
  <2>3. b <= Max(S) BY <2>1
  <2>4. QED BY <2>2, <2>3
<1>5. ASSUME NEW j \in S PROVE Linked(g, T, j) <=> Linked(g, S, j)
  <2>1. g[Max({x \in T : x < n + 1})].until + Slack >= g[n + 1].created BY <1>3, <1>4
  <2>2. QED BY <1>2, <2>1 DEF Linked
<1>6. Linked(g, T, n + 1)
  <2>1. \A k \in T : ~(k > n + 1) BY <1>1
  <2>2. QED BY <2>1 DEF Linked
<1>7. {j \in T : Linked(g, T, j)} = J \union {n + 1} BY <1>5, <1>6
<1>8. J \in SUBSET Nat /\ b \in J /\ \A j \in J : j <= b BY <1>1, FirstFits
<1> DEFINE K == J \union {n + 1}
<1>9. K \in SUBSET Nat /\ K # {} BY <1>8
<1> HIDE DEF J, T
<1>10. Min(J) \in J /\ \A x \in J : Min(J) <= x BY <1>8, FirstIn
<1>11. Min(K) \in K /\ \A x \in K : Min(K) <= x BY <1>9, FirstIn
<1>12. Min(J) = Min(K)
  <2>1. Min(K) <= b BY <1>8, <1>11
  <2>2. Min(K) \in J BY <1>8, <1>11, <2>1
  <2>3. Min(J) <= Min(K) /\ Min(K) <= Min(J) BY <1>10, <1>11, <2>2
  <2>4. Min(J) \in Nat /\ Min(K) \in Nat BY <1>8, <1>10, <2>2
  <2>5. QED BY <2>3, <2>4
<1>13. FirstOf(g, T) = Min(K) /\ FirstOf(g, S) = Min(J) BY <1>7 DEF FirstOf, J
<1>14. QED BY <1>12, <1>13 DEF T

-----------------------------------------------------------------------------
\* The plan in force is the first of the rows that run, and the others are lower.
LEMMA BestNow ==
    ASSUME WindowInv
    PROVE  \/ InForce = None /\ \A i \in DOMAIN grants : ~Running(i)
           \/ \E b \in DOMAIN grants : /\ InForce = b /\ Running(b)
                                       /\ \A i \in DOMAIN grants : Running(i) /\ i # b => grants[i].tier < grants[b].tier
<1> DEFINE live == {i \in DOMAIN grants : Running(i)}
<1>1. Len(grants) \in Nat /\ DOMAIN grants = 1 .. Len(grants) BY GrantOf DEF WindowInv
<1>2. \A i \in DOMAIN grants : grants[i].tier \in Int /\ grants[i].until \in Int BY GrantOf DEF Grants, WindowInv
<1>3. CASE live = {} BY <1>3 DEF InForce
<1>4. CASE live # {}
  <2>1. live \in SUBSET Nat BY <1>1
  <2>2. PICK b \in live : \A i \in live : b <= i BY <1>4, <2>1, LeastOf
  <2>3. \A i \in live \ {b} : grants[i].tier < grants[b].tier
    <3>1. SUFFICES ASSUME NEW i \in live \ {b} PROVE grants[i].tier < grants[b].tier OBVIOUS
    <3>2. b \in Nat /\ i \in Nat /\ b <= i /\ i # b BY <2>1, <2>2
    <3>3. b < i BY <3>2
    <3>4. QED BY <3>3 DEF WindowInv, Falling
  <2>4. \A i \in live : grants[i].tier \in Int /\ grants[i].until \in Int BY <1>2
  <2>5. InForce = CHOOSE i \in {x \in live : \A j \in live : grants[j].tier <= grants[x].tier} :
                    \A j \in {x \in live : \A y \in live : grants[y].tier <= grants[x].tier} :
                        grants[j].until <= grants[i].until
    BY <1>4 DEF InForce
  <2>6. b \in live /\ live # {} BY <1>4
  <2>7. b \in DOMAIN grants /\ Running(b) /\ \A i \in DOMAIN grants : Running(i) => i \in live OBVIOUS
  <2> HIDE DEF live
  <2>8. InForce = b BY <2>3, <2>4, <2>5, <2>6, OnlyTop
  <2>9. QED BY <2>3, <2>7, <2>8
<1>5. QED BY <1>3, <1>4

\* The window of a plan begins where a row of the account was made.
LEMMA ChainWithin ==
    ASSUME WindowInv, NEW b \in DOMAIN grants
    PROVE  /\ ChainStart(b) \in Nat /\ ChainStart(b) <= age
           /\ SamePlan(b) \in SUBSET (1 .. b) /\ b \in SamePlan(b) /\ b \in Nat
<1>1. Len(grants) \in Nat /\ DOMAIN grants = 1 .. Len(grants) BY GrantOf DEF WindowInv
<1>2. b \in Nat /\ SamePlan(b) \in SUBSET (1 .. b) /\ b \in SamePlan(b) BY <1>1 DEF SamePlan
<1>3. FirstOf(grants, SamePlan(b)) \in SamePlan(b) BY <1>2, FirstFits
<1>4. FirstOf(grants, SamePlan(b)) \in DOMAIN grants BY <1>1, <1>2, <1>3
<1>5. ChainStart(b) \in Nat /\ ChainStart(b) <= age BY <1>4, GrantOf, ChainIs DEF Grants, WindowInv
<1>6. QED BY <1>2, <1>5

\* A grant that leaves the same plan in force leaves its window.
LEMMA GivesKeeps ==
    ASSUME WindowInv, NEW p \in Offers, NEW mode, NEW start, Gives(p, mode, start),
           PlanOf(InForce) = PlanOf(InForce)'
    PROVE  PeriodStart(Anchor(InForce))' = PeriodStart(Anchor(InForce))
<1>1. PICK n : n = Len(grants) OBVIOUS
<1>2. /\ n \in Nat /\ DOMAIN grants = 1 .. n /\ DOMAIN grants' = 1 .. n + 1 /\ grants' \in Seq(Grants)
      /\ start \in Int /\ age' = age /\ units' = units
      /\ \A i \in 1 .. n :
           /\ grants'[i].plan = grants[i].plan /\ grants'[i].tier = grants[i].tier
           /\ grants'[i].created = grants[i].created /\ grants'[i].until = grants[i].until
           /\ i \notin Taken(p, mode) => grants'[i].active = grants[i].active
           /\ i \in Taken(p, mode) => ~grants'[i].active
      /\ grants'[n + 1] = Term(p, start) /\ Term(p, start) \in Grants
      /\ \A i \in Taken(p, mode) : mode # "replace" => grants[i].until <= start
  BY <1>1, GivesShape
<1>3. age \in Nat /\ Terms[p] \in Nat /\ Tier[p] \in Int BY OfferAssumption DEF OfferAssumption, WindowInv, WindowTypeOK
<1>4. /\ Term(p, start).plan = p /\ Term(p, start).tier = Tier[p] /\ Term(p, start).created = age
      /\ Term(p, start).until = start + Terms[p]
  BY DEF Term
<1>5. \A i \in 1 .. n : /\ grants[i].tier \in Int /\ grants[i].until \in Int /\ grants[i].plan \in Offers
                        /\ grants[i].tier = Tier[grants[i].plan]
  BY <1>2, GrantOf DEF Grants, WindowInv
<1>6. \A i \in 1 .. n : Running(i)' <=> Running(i) /\ i \notin Taken(p, mode)
  BY <1>2 DEF Running
<1>7. WindowInv' BY GivesFits
<1> DEFINE live == {i \in DOMAIN grants' : Running(i)'}
<1>8. ASSUME NEW b \in live, \A i \in live \ {b} : grants'[i].tier < grants'[b].tier
      PROVE  InForce' = b
  <2>1. \A i \in live : grants'[i].tier \in Int /\ grants'[i].until \in Int
    <3>1. SUFFICES ASSUME NEW i \in live PROVE grants'[i].tier \in Int /\ grants'[i].until \in Int OBVIOUS
    <3>2. i = n + 1 \/ i \in 1 .. n BY <1>2
    <3>3. QED BY <1>2, <1>5, <3>2 DEF Grants
  <2>2. live # {} OBVIOUS
  <2>3. InForce' = CHOOSE i \in {x \in live : \A j \in live : grants'[j].tier <= grants'[x].tier} :
                      \A j \in {x \in live : \A y \in live : grants'[y].tier <= grants'[x].tier} :
                          grants'[j].until <= grants'[i].until
    BY <2>2 DEF InForce
  <2> HIDE DEF live
  <2>4. QED BY <1>8, <2>1, <2>3, OnlyTop
<1>9. live = {} => InForce' = None BY DEF InForce
<1>10. \A x \in DOMAIN grants' : x # None BY <1>2, OfferAssumption DEF OfferAssumption
<1>11. ASSUME live \subseteq {n + 1}
       PROVE  (InForce' = None /\ PlanOf(InForce)' = NoPlan) \/ (InForce' = n + 1 /\ PlanOf(InForce)' = p)
  <2>1. CASE n + 1 \in live
    <3>1. InForce' = n + 1 BY <1>8, <1>11, <2>1
    <3>2. n + 1 # None BY <1>2, <1>10
    <3>3. QED BY <1>2, <1>4, <3>1, <3>2 DEF PlanOf
  <2>2. CASE n + 1 \notin live
    <3>1. live = {} BY <1>11, <2>2
    <3>2. QED BY <1>9, <3>1 DEF PlanOf
  <2>3. QED BY <2>1, <2>2
<1>12. p # NoPlan /\ \A i \in 1 .. n : grants[i].plan # NoPlan BY <1>5, OfferAssumption DEF OfferAssumption
<1>13. CASE InForce = None /\ \A i \in DOMAIN grants : ~Running(i)
  <2>1. live \subseteq {n + 1} BY <1>2, <1>6, <1>13
  <2>2. PlanOf(InForce) = NoPlan BY <1>13 DEF PlanOf
  <2>3. InForce' = None BY <1>11, <1>12, <2>1, <2>2
  <2>4. Anchor(InForce)' = 0 /\ Anchor(InForce) = 0 BY <1>13, <2>3 DEF Anchor
  <2>5. QED BY <1>2, <2>4 DEF PeriodStart
<1>14. ASSUME NEW b \in DOMAIN grants, InForce = b, Running(b),
              \A i \in DOMAIN grants : Running(i) /\ i # b => grants[i].tier < grants[b].tier
       PROVE  PeriodStart(Anchor(InForce))' = PeriodStart(Anchor(InForce))
  <2>1. b \in 1 .. n /\ b # None /\ b \in DOMAIN grants' BY <1>2, <1>10, <1>14
  <2>2. PlanOf(InForce) = grants[b].plan /\ Anchor(InForce) = ChainStart(b) BY <1>14, <2>1 DEF PlanOf, Anchor
  <2>3. /\ SamePlan(b) \in SUBSET (1 .. b) /\ b \in SamePlan(b) /\ b \in Nat BY <1>14, ChainWithin
  <2>4. FirstOf(grants, SamePlan(b)) \in SamePlan(b) BY <2>3, FirstFits
  <2>5. \A i \in SamePlan(b) : i \in 1 .. n
    <3>1. b <= n /\ n \in Nat BY <1>2, <2>1
    <3>2. \A i \in 1 .. b : i \in 1 .. n BY <2>3, <3>1
    <3>3. QED BY <2>3, <3>2
  <2>6. FirstOf(grants', SamePlan(b)) = FirstOf(grants, SamePlan(b)) BY <1>2, <2>3, <2>5, LinkedSame
  <2>7. SUFFICES Anchor(InForce)' = ChainStart(b) BY <1>2, <2>2 DEF PeriodStart
  <2>8. CASE b \notin Taken(p, mode)
    <3>1. mode # "replace" /\ ~(grants[b].tier <= Tier[p]) BY <1>14, <2>8 DEF Taken
    <3>2. b \in live BY <1>6, <1>14, <2>1, <2>8
    <3>3. ASSUME NEW i \in live \ {b} PROVE grants'[i].tier < grants'[b].tier
      <4>1. i = n + 1 \/ i \in 1 .. n BY <1>2
      <4>2. CASE i = n + 1 BY <1>2, <1>3, <1>4, <1>5, <2>1, <3>1, <4>2
      <4>3. CASE i \in 1 .. n
        <5>1. Running(i) BY <1>6, <4>3
        <5>2. QED BY <1>2, <1>14, <2>1, <4>3, <5>1
      <4>4. QED BY <4>1, <4>2, <4>3
    <3>4. InForce' = b BY <1>8, <3>2, <3>3
    <3>5. SamePlan(b)' = SamePlan(b)
      <4>1. \A j \in 1 .. b : j \in 1 .. n
        <5>1. b <= n /\ n \in Nat BY <1>2, <2>1
        <5>2. QED BY <2>3, <5>1
      <4>2. QED BY <1>2, <2>1, <4>1 DEF SamePlan
    <3>6. ChainStart(b)' = grants'[FirstOf(grants', SamePlan(b)')].created
      BY DEF ChainStart, FirstOf, Linked
    <3>7. ChainStart(b)' = ChainStart(b) BY <1>2, <2>4, <2>5, <2>6, <3>5, <3>6, ChainIs
    <3>8. QED BY <2>1, <3>4, <3>7 DEF Anchor
  <2>9. CASE b \in Taken(p, mode)
    <3>1. live \subseteq {n + 1}
      <4>1. SUFFICES ASSUME NEW i \in 1 .. n, Running(i)' PROVE FALSE BY <1>2
      <4>2. Running(i) /\ i \notin Taken(p, mode) BY <1>6, <4>1
      <4>3. i # b /\ i \in DOMAIN grants BY <1>2, <2>9, <4>2
      <4>4. grants[i].tier < grants[b].tier BY <1>14, <4>2, <4>3
      <4>5. mode # "replace" /\ ~(grants[i].tier <= Tier[p]) BY <4>2, <4>3 DEF Taken
      <4>6. grants[b].tier <= Tier[p] BY <2>9, <4>5 DEF Taken
      <4>7. QED BY <1>3, <1>5, <2>1, <4>4, <4>5, <4>6
    <3>2. InForce' = n + 1 /\ p = grants[b].plan BY <1>11, <1>12, <2>1, <2>2, <3>1
    <3>3. SamePlan(n + 1)' = SamePlan(b) \union {n + 1}
      <4>1. ASSUME NEW j \in 1 .. n, grants[j].plan = p PROVE j \in SamePlan(b)
        <5>1. grants[j].tier = grants[b].tier BY <1>5, <2>1, <3>2, <4>1
        <5>2. ~(b < j) BY <1>2, <1>5, <1>14, <4>1, <5>1 DEF WindowInv, Falling
        <5>3. j \in 1 .. b BY <2>1, <5>2
        <5>4. QED BY <3>2, <4>1, <5>3 DEF SamePlan
      <4>2. \A j \in SamePlan(b) : grants'[j].plan = p BY <1>2, <2>5, <3>2 DEF SamePlan
      <4>3. SamePlan(n + 1)' = {j \in 1 .. n + 1 : grants'[j].plan = p} BY <1>2, <1>4 DEF SamePlan
      <4>4. \A j \in 1 .. n + 1 : j = n + 1 \/ j \in 1 .. n BY <1>2
      <4>5. n + 1 \in 1 .. n + 1 /\ \A j \in 1 .. n : j \in 1 .. n + 1 BY <1>2
      <4>6. QED BY <1>2, <1>4, <2>5, <4>1, <4>2, <4>3, <4>4, <4>5
    <3>4. grants'[b].until + Slack >= grants'[n + 1].created
      BY <1>2, <1>3, <1>4, <1>5, <1>14, <2>1, OfferAssumption DEF Running, OfferAssumption
    <3>5. FirstOf(grants', SamePlan(b) \union {n + 1}) = FirstOf(grants', SamePlan(b))
      <4>1. b <= n BY <2>1
      <4>2. QED BY <1>2, <2>3, <3>4, <4>1, ChainGrows
    <3>6. ChainStart(n + 1)' = grants'[FirstOf(grants', SamePlan(n + 1)')].created
      BY DEF ChainStart, FirstOf, Linked
    <3>7. ChainStart(n + 1)' = ChainStart(b) BY <1>2, <2>4, <2>5, <2>6, <3>3, <3>5, <3>6, ChainIs
    <3>8. n + 1 # None BY <1>2, <1>10
    <3>9. QED BY <3>2, <3>7, <3>8 DEF Anchor
  <2>10. QED BY <2>8, <2>9
<1>15. QED BY <1>13, <1>14, BestNow

-----------------------------------------------------------------------------
\* A grant that extends writes a term that outlives, at no lower a plan, whatever it takes over.
LEMMA DaysKept ==
    ASSUME WindowInv, NEW p \in Offers, Extends(p), NEW i \in DOMAIN grants, grants[i].active
    PROVE  \E j \in DOMAIN grants' : /\ grants'[j].active
                                     /\ grants'[j].tier >= grants[i].tier /\ grants'[j].until >= grants[i].until
<1>1. PICK start : Gives(p, "extend", start) BY DEF Extends
<1>2. PICK n : n = Len(grants) OBVIOUS
<1>3. /\ n \in Nat /\ DOMAIN grants = 1 .. n /\ DOMAIN grants' = 1 .. n + 1 /\ start \in Int
      /\ \A k \in 1 .. n :
           /\ grants'[k].tier = grants[k].tier /\ grants'[k].until = grants[k].until
           /\ k \notin Taken(p, "extend") => grants'[k].active = grants[k].active
      /\ grants'[n + 1] = Term(p, start)
      /\ \A k \in Taken(p, "extend") : grants[k].until <= start
  BY <1>1, <1>2, GivesShape
<1>4. grants[i].tier \in Int /\ grants[i].until \in Int BY GrantOf DEF Grants, WindowInv
<1>5. CASE i \notin Taken(p, "extend")
  <2>1. i \in DOMAIN grants' /\ i \in 1 .. n BY <1>3
  <2>2. QED BY <1>3, <1>4, <1>5, <2>1
<1>6. CASE i \in Taken(p, "extend")
  <2>1. grants[i].tier <= Tier[p] /\ grants[i].until <= start BY <1>3, <1>6 DEF Taken
  <2>2. Tier[p] \in Int /\ Terms[p] \in Nat BY OfferAssumption DEF OfferAssumption
  <2>3. start + Terms[p] >= grants[i].until BY <1>3, <1>4, <2>1, <2>2
  <2>4. Term(p, start).active /\ Term(p, start).tier = Tier[p] /\ Term(p, start).until = start + Terms[p] BY DEF Term
  <2>5. Tier[p] >= grants[i].tier BY <1>4, <2>1, <2>2
  <2>6. n + 1 \in DOMAIN grants' BY <1>3
  <2>7. QED BY <1>3, <2>3, <2>4, <2>5, <2>6
<1>7. QED BY <1>5, <1>6

\* Whole windows since the anchor: the present one began less than a window ago.
LEMMA WindowIsRecent ==
    ASSUME WindowInv, NEW anchor \in Nat, anchor <= age
    PROVE  PeriodStart(anchor) \in Int /\ PeriodStart(anchor) > age - Window
<1>1. PICK x \in Nat : x = age - anchor BY DEF WindowInv, WindowTypeOK
<1>2. PICK w \in Nat \ {0} : w = Window BY OfferAssumption DEF OfferAssumption
<1>3. w * (x \div w) <= x /\ x < w * (x \div w) + w /\ x \div w \in Nat BY SMT
<1>4. w * (x \div w) \in Int BY <1>3
<1>5. PICK m \in Int : m = w * (x \div w) BY <1>4
<1>6. PeriodStart(anchor) = anchor + m BY <1>1, <1>2, <1>5 DEF PeriodStart
<1>7. age \in Nat /\ age = anchor + x BY <1>1 DEF WindowInv, WindowTypeOK
<1>8. QED BY <1>2, <1>3, <1>5, <1>6, <1>7

\* With the terms in falling order, nobody is barred longer by a renewal than without it.
LEMMA NobodyBarredLonger == ASSUME WindowInv PROVE NeverBarredLonger
<1> SUFFICES ASSUME SpentAll PROVE \E n \in DOMAIN units : units[n] > age - Window BY DEF NeverBarredLonger
<1> DEFINE start == PeriodStart(Anchor(InForce))
           S == {n \in DOMAIN units : units[n] >= start}
<1>1. \A i \in DOMAIN grants : i # None /\ grants[i].plan \in Offers
  BY GrantOf, OfferAssumption DEF Grants, OfferAssumption, WindowInv
<1>2. /\ Anchor(InForce) \in Nat /\ Anchor(InForce) <= age /\ PlanOf(InForce) \in Offers \union {NoPlan}
  <2>1. CASE InForce = None BY <2>1 DEF Anchor, PlanOf, WindowInv, WindowTypeOK
  <2>2. ASSUME NEW b \in DOMAIN grants, InForce = b
        PROVE  Anchor(InForce) \in Nat /\ Anchor(InForce) <= age /\ PlanOf(InForce) \in Offers \union {NoPlan}
    BY <1>1, <2>2, ChainWithin DEF Anchor, PlanOf
  <2>3. QED BY <2>1, <2>2, BestNow
<1>3. Cardinality(S) >= Cap[PlanOf(InForce)] BY DEF SpentAll, UsedInPeriod
<1>4. Cap[PlanOf(InForce)] \in Nat \ {0} BY <1>2, OfferAssumption DEF OfferAssumption
<1>5. S # {}
  <2>1. SUFFICES ASSUME S = {} PROVE FALSE OBVIOUS
  <2>2. Cardinality(S) = 0 BY <2>1, FS_EmptySet
  <2> HIDE DEF S
  <2>3. QED BY <1>3, <1>4, <2>2
<1>6. PICK n \in DOMAIN units : units[n] >= start BY <1>5
<1>7. start \in Int /\ start > age - Window BY <1>2, WindowIsRecent
<1>8. units[n] \in Nat BY DEF WindowInv, WindowTypeOK
<1>9. age - Window \in Int BY OfferAssumption DEF WindowInv, WindowTypeOK, OfferAssumption
<1> HIDE DEF start
<1>10. units[n] > age - Window BY <1>6, <1>7, <1>8, <1>9
<1>11. QED BY <1>10

\* Theorem: a renewal of the plan in force leaves the traffic window where it was, however many
\* come and however early; no term that is bought leaves a day of one that runs with a lower plan;
\* and who is out of traffic has used some in the last Window days.  For every table of plans
\* and of their tiers, terms and caps.
THEOREM WindowsKept == MCSpec => WindowsHold
<1>1. MCInit => WindowInv BY WindowInitial DEF MCInit
<1>2. WindowInv /\ [MCNext]_accountVars => WindowInv' BY WindowSteps, WindowStep
<1>3. WindowInv => NeverBarredLonger BY NobodyBarredLonger
<1>4. WindowInv /\ [MCNext]_accountVars =>
        [(Len(grants') > Len(grants) /\ PlanOf(InForce) = PlanOf(InForce)') =>
            PeriodStart(Anchor(InForce))' = PeriodStart(Anchor(InForce))]_windowVars
  <2> SUFFICES ASSUME WindowInv, [MCNext]_accountVars, Len(grants') > Len(grants),
                      PlanOf(InForce) = PlanOf(InForce)'
               PROVE  PeriodStart(Anchor(InForce))' = PeriodStart(Anchor(InForce))
    OBVIOUS
  <2>1. [WindowNext]_windowVars BY WindowSteps
  <2>2. Len(grants) \in Nat BY GrantOf DEF WindowInv
  <2>3. ~(Len(grants) > Len(grants)) BY <2>2
  <2>4. grants' # grants BY <2>3
  <2>5. CASE TurnsOff
    <3>1. DOMAIN grants = 1 .. Len(grants) /\ grants \in Seq(Grants) BY GrantOf DEF WindowInv, WindowTypeOK
    <3>2. grants' = [i \in 1 .. Len(grants) |-> [grants[i] EXCEPT !.active = FALSE]] BY <2>5, <3>1 DEF TurnsOff
    <3>3. Len(grants') = Len(grants) BY <2>2, <3>2
    <3>4. QED BY <2>3, <3>3
  <2>6. CASE \E p \in Offers : Extends(p) \/ Replaces(p)
    BY <2>6, GivesKeeps DEF Extends, Replaces
  <2>7. QED BY <2>1, <2>4, <2>5, <2>6 DEF WindowNext, Spends, ADayLater, windowVars
<1>5. WindowInv /\ [MCNext]_accountVars =>
        [(\E p \in Offers : Extends(p)) =>
            \A i \in DOMAIN grants : grants[i].active => \E j \in DOMAIN grants' :
                /\ grants'[j].active
                /\ grants'[j].tier >= grants[i].tier /\ grants'[j].until >= grants[i].until]_windowVars
  BY DaysKept
<1>6. QED BY <1>1, <1>2, <1>3, <1>4, <1>5, PTL DEF MCSpec, WindowsHold, RenewalKeepsWindow, PaidDaysKept
=============================================================================
