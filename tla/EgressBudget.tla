---------------------------- MODULE EgressBudget ----------------------------
(***************************************************************************)
(* Outbound traffic against the provider's allowance: billing cycles that  *)
(* begin on the day of the month on which the subscription began, a meter  *)
(* that is polled, and thresholds announced to the operator.               *)
(***************************************************************************)
EXTENDS Happenings, FiniteSetsExt

CONSTANTS
    MonthDays,  \* lengths of the months, in turn
    AnchorDay,  \* day of month 0 on which the subscription began
    MaxDay,     \* bound of the model: the days that pass
    Thresholds, \* parseThresholds
    MaxTraffic  \* bound of the model: traffic of a cycle

\* A month has days; the subscription began within month 0 and before the model's end;
\* thresholds are numbers in a list that can be sorted (parseThresholds); None is not a row.
ASSUME EgressAssumption ==
    /\ MonthDays \in Seq(Nat \ {0}) /\ MonthDays # <<>>
    /\ AnchorDay \in 1 .. MonthDays[1] /\ AnchorDay - 1 <= MaxDay /\ MaxDay \in Nat
    /\ Thresholds \subseteq Nat
    /\ \A some \in SUBSET Thresholds : some # {} => \E t \in some : \A u \in some : t <= u
    /\ None \notin [bytes : Nat, alerted : SUBSET Thresholds]

VARIABLES
    today,
    traffic,    \* traffic[s]: what really went out in the cycle that begins on s
    cycle,      \* cycle[s]: the row of that cycle, or None
    poll,       \* the tick under way
    sent        \* sent[s][t]: announcements of a threshold

egressVars == <<today, traffic, cycle, poll, sent>>

-----------------------------------------------------------------------------
\* The calendar: months follow each other, days are counted from month 0.
LastDay(m) == MonthDays[(m % Len(MonthDays)) + 1]
MonthStart[m \in Nat] == IF m = 0 THEN 0 ELSE MonthStart[m - 1] + LastDay(m - 1)
Months == 0 .. MaxDay
Date(m, d) == MonthStart[m] + d - 1
MonthOf(day) == CHOOSE m \in Months : MonthStart[m] <= day /\ day < MonthStart[m + 1]

\* Fault: a day that a month does not have rolls into the next.
Rolled(m, d) == d
\* clampDay.
Clamped(m, d) == Min({d, LastDay(m)})

Anniversary(m) == Date(m, Clamped(m, AnchorDay))

CycleStart(now) == LET m == MonthOf(now) IN IF Anniversary(m) <= now THEN Anniversary(m) ELSE Anniversary(m - 1)
CycleEnd(start) == Anniversary(MonthOf(start) + 1)

Days == AnchorDay - 1 .. MaxDay
Starts == {CycleStart(d) : d \in Days}
NoPoll == [stage |-> "idle", start |-> 0, bytes |-> 0, due |-> {}]

EgressInit ==
    /\ today = AnchorDay - 1
    /\ traffic = [s \in Starts |-> 0]
    /\ cycle = [s \in Starts |-> None]
    /\ poll = NoPoll
    /\ sent = [s \in Starts |-> [t \in Thresholds |-> 0]]

-----------------------------------------------------------------------------
DayPasses ==
    /\ today < MaxDay
    /\ today' = today + 1
    /\ UNCHANGED <<traffic, cycle, poll, sent>> /\ Quiet

TrafficFlows ==
    /\ traffic[CycleStart(today)] < MaxTraffic
    /\ traffic' = [traffic EXCEPT ![CycleStart(today)] = @ + 1]
    /\ UNCHANGED <<today, cycle, poll, sent>> /\ Quiet

\* The timer, unless a tick is under way: rowForCycle, and the question to the meter.
StartPoll ==
    /\ poll = NoPoll
    /\ LET s == CycleStart(today) IN
          /\ cycle' = [cycle EXCEPT ![s] = IF @ = None THEN [bytes |-> 0, alerted |-> {}] ELSE @]
          /\ poll' = [NoPoll EXCEPT !.stage = "asked", !.start = s]
    /\ UNCHANGED <<today, traffic, sent>> /\ Quiet

\* Fault: a failed tick is under way for ever.
StillRunning == [poll EXCEPT !.stage = "failed"]
\* finally: running = false.
Freed == NoPoll

\* The meter answers, with less than there was when it has a gap, or not at all.
MeterAnswers ==
    /\ poll.stage = "asked"
    /\ \/ Quiet /\ poll' = [poll EXCEPT !.stage = "answered", !.bytes = traffic[poll.start]]
       \/ /\ Happens("metric_gap")
          /\ \E b \in 0 .. traffic[poll.start] - 1 : poll' = [poll EXCEPT !.stage = "answered", !.bytes = b]
       \/ Happens("poll_failed") /\ poll' = Freed
    /\ UNCHANGED <<today, traffic, cycle, sent>>

\* Fault: the figure that the meter gave.
AsMetered(stored, metered) == metered
\* A cycle's total only grows.
Grown(stored, metered) == Max({stored, metered})

\* Fault: every threshold that the total is above, each time.
AllCrossed(r, total) == {t \in Thresholds : total >= t}
\* The thresholds that the row does not have as announced.
Crossed(r, total) == {t \in Thresholds : total >= t} \ r.alerted

\* The update records the announcements before any is sent.
WriteCycle ==
    /\ poll.stage = "answered"
    /\ LET r == cycle[poll.start]
           total == Grown(r.bytes, poll.bytes)
           due == Crossed(r, total)
       IN  /\ cycle' = [cycle EXCEPT ![poll.start] = [bytes |-> total, alerted |-> r.alerted \union due]]
           /\ poll' = [poll EXCEPT !.stage = "written", !.due = due]
    /\ UNCHANGED <<today, traffic, sent>> /\ Quiet

\* alert: a message that is not delivered is logged and that is all.
Announce ==
    /\ poll.stage = "written"
    /\ IF poll.due = {} THEN poll' = Freed /\ UNCHANGED sent
       ELSE /\ sent' = [sent EXCEPT ![poll.start][Min(poll.due)] = @ + 1]
            /\ poll' = [poll EXCEPT !.due = @ \ {Min(poll.due)}]
    /\ UNCHANGED <<today, traffic, cycle>> /\ Quiet

\* The server restarts in the middle of a tick, or between two announcements.
MeterServerDies ==
    /\ poll # NoPoll
    /\ IF poll.due = {} THEN Happens("server_crash") ELSE Happens("crash_before_alert")
    /\ poll' = NoPoll
    /\ UNCHANGED <<today, traffic, cycle, sent>>

EgressNext ==
    \/ DayPasses \/ TrafficFlows
    \/ StartPoll \/ MeterAnswers \/ WriteCycle \/ Announce \/ MeterServerDies

\* The poll's timer, and answers or errors of the meter and of Telegram.
MeterWorks == StartPoll \/ MeterAnswers \/ WriteCycle \/ Announce

EgressFairness == WF_egressVars(Runs("egress") /\ MeterWorks)

-----------------------------------------------------------------------------
\* Every day is in the cycle that is computed for it, and all days of a cycle agree on
\* it, in months that do not have the anniversary, too.
WindowsFit ==
    LET s == CycleStart(today) IN
    s <= today /\ today < CycleEnd(s) /\ \A d \in s .. Min({CycleEnd(s) - 1, MaxDay}) : CycleStart(d) = s

\* A threshold is announced at most once a cycle, whatever the meter answers and however
\* often the server restarts.
AnnouncedOnce == \A s \in Starts, t \in Thresholds : sent[s][t] <= 1

\* The recorded total of a cycle never walks back, and never exceeds what went out.
TotalGrows ==
    [][\A s \in Starts : cycle[s] # None => cycle'[s] # None /\ cycle'[s].bytes >= cycle[s].bytes /\ cycle'[s].bytes <= traffic'[s]]_egressVars

\* What the cycle that the clock stops in has used up is announced.
Told ==
    \A s \in Starts, t \in Thresholds :
       []<>(traffic[s] >= t /\ CycleStart(today) = s => sent[s][t] > 0)

\* The egress budget: the window of today, a total that grows with the traffic, and no
\* threshold told twice.
EgressHolds == []WindowsFit /\ []AnnouncedOnce /\ TotalGrows
=============================================================================
