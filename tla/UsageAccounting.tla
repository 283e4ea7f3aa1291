-------------------------- MODULE UsageAccounting --------------------------
(***************************************************************************)
(* How a byte becomes part of an account's allowance: the counters of      *)
(* sing-box, of the kernel's peers and of the browser gateway, the reports *)
(* that carry them, the rows of sessions and the hourly buckets, the       *)
(* quota, and the monitor that cuts the sessions of who has spent it.      *)
(***************************************************************************)
EXTENDS Happenings, FiniteSetsExt

CONSTANTS
    Meters,     \* the devices of one account
    Mixes,      \* what the devices' traffic goes through: "vless", "peer" or "proxy"
    MaxBytes,   \* bound of the model: what a device moves in all
    Allowance   \* bytes of the plan's window

ASSUME UsageAssumption ==
    /\ Mixes \subseteq [Meters -> {"vless", "peer", "proxy"}]
    /\ None \notin [drained : [Meters -> Nat], peers : [Meters -> Nat], todo : SUBSET Meters, begun : BOOLEAN]

VARIABLES
    plane,      \* plane[d]: what the device's traffic goes through
    counter,    \* counter[d]: the cumulative counter of that plane
    seen,       \* seen[d]: its value at the last sample or flush
    delta,      \* delta[d]: bytes of VLESS that the agent has yet to report
    report,     \* the agent's report on the server, or None
    posts,      \* the gateway's posts on the server
    row,        \* row[d]: the device's session
    bucket,     \* bucket[d]: the sum of the device's hourly buckets
    base,       \* the account's sum when the present window began
    sweep,      \* sessions that the monitor is about to close
    moved       \* moved[d]: bytes that have really gone through

usageVars == <<plane, counter, seen, delta, report, posts, row, bucket, base, sweep, moved>>

UsageInit ==
    /\ plane \in Mixes
    /\ counter = [d \in Meters |-> 0] /\ seen = counter /\ delta = counter /\ bucket = counter
    /\ moved = counter
    /\ row = [d \in Meters |-> [live |-> TRUE, bytes |-> 0]]
    /\ report = None /\ posts = {} /\ base = 0 /\ sweep = {}

Larger(a, b) == IF a > b THEN a ELSE b
Used == FoldSet(LAMBDA d, n : n + bucket[d], 0, Meters) - base
Over(x) == [d \in Meters |-> IF plane[d] = x THEN counter[d] ELSE 0]

Moves(d) ==
    /\ row[d].live /\ moved[d] < MaxBytes
    /\ moved' = [moved EXCEPT ![d] = @ + 1]
    /\ counter' = [counter EXCEPT ![d] = @ + 1]
    /\ UNCHANGED <<plane, seen, delta, report, posts, row, bucket, base, sweep>> /\ Quiet

-----------------------------------------------------------------------------
\* Fault: the last writer wins.
AsWritten(old, new) == new
\* The trigger compares with the row that it holds locked.
Greatest(old, new) == Larger(old, new)

\* capture_session_usage: the row never falls, and its increase goes to the bucket.
Stores(d, value) ==
    LET new == Greatest(row[d].bytes, value)
    IN /\ row' = [row EXCEPT ![d].bytes = new]
       /\ bucket' = [bucket EXCEPT ![d] = @ + new - row[d].bytes]

\* Fault: a connection is always new.
WholeCounter(d) == counter[d]
\* ConnectionTracker.ingest: a connection that was seen before counts by its increase.
Increase(d) == counter[d] - seen[d]

Samples ==
    LET some == {d \in Meters : plane[d] = "vless" /\ counter[d] # seen[d]}
    IN /\ some # {}
       /\ delta' = [d \in Meters |-> IF d \in some THEN delta[d] + Increase(d) ELSE delta[d]]
       /\ seen' = [d \in Meters |-> IF d \in some THEN counter[d] ELSE seen[d]]
       /\ UNCHANGED <<plane, counter, report, posts, row, bucket, base, sweep, moved>> /\ Quiet

\* Fault: what was drained is gone.
Forgotten(d, drained) == delta[d]
\* ConnectionTracker.restore.
Restored(d, drained) == delta[d] + drained[d]

Drained == [d \in Meters |-> IF plane[d] = "vless" THEN delta[d] ELSE 0]
RestoreAll(drained) == delta' = [d \in Meters |-> Restored(d, drained)]

\* sendReport: the deltas are taken out of the tracker; the server reads the live sessions.
SendsReport ==
    /\ report = None
    /\ \E d \in Meters : delta[d] > 0 \/ (plane[d] = "peer" /\ row[d].live /\ counter[d] > row[d].bytes)
    /\ report' = [drained |-> Drained, peers |-> Over("peer"), todo |-> {d \in Meters : row[d].live}, begun |-> FALSE]
    /\ delta' = [d \in Meters |-> delta[d] - Drained[d]]
    /\ UNCHANGED <<plane, counter, seen, posts, row, bucket, base, sweep, moved>> /\ Quiet

\* The report does not reach the server, and restoreReport puts the deltas back.
ReportLost ==
    /\ report # None /\ ~report.begun
    /\ Happens("request_lost")
    /\ RestoreAll(report.drained)
    /\ report' = None
    /\ UNCHANGED <<plane, counter, seen, posts, row, bucket, base, sweep, moved>>

\* An entry of the report: increments for VLESS, the cumulative counter of a peer.
AppliesEntry(d) ==
    /\ report # None /\ d \in report.todo
    /\ Stores(d, IF plane[d] = "vless" THEN row[d].bytes + report.drained[d]
                 ELSE Larger(row[d].bytes, report.peers[d]))
    /\ report' = [drained |-> report.drained, peers |-> report.peers, todo |-> report.todo \ {d}, begun |-> TRUE]
    /\ UNCHANGED <<plane, counter, seen, delta, posts, base, sweep, moved>> /\ Quiet

\* The answer arrives, or the agent puts back what the server has already counted.
ReportEnds ==
    /\ report # None /\ report.todo = {}
    /\ \/ Quiet /\ UNCHANGED delta
       \/ Happens("report_repeated") /\ RestoreAll(report.drained)
    /\ report' = None
    /\ UNCHANGED <<plane, counter, seen, posts, row, bucket, base, sweep, moved>>

-----------------------------------------------------------------------------
\* The gateway's timer; the value counts as reported before it is.
Flushes(d) ==
    /\ plane[d] = "proxy" /\ counter[d] # seen[d] /\ row[d].live
    /\ seen' = [seen EXCEPT ![d] = counter[d]]
    /\ posts' = posts \union {[of |-> d, value |-> counter[d], read |-> row[d].bytes]}
    /\ UNCHANGED <<plane, counter, delta, report, row, bucket, base, sweep, moved>> /\ Quiet

\* /api/vpn/stats writes the larger of what it had read and what it was sent, whether or
\* not the session has ended in between.
Posted(p) ==
    /\ p \in posts
    /\ Stores(p.of, Larger(p.read, p.value))
    /\ posts' = posts \ {p}
    /\ UNCHANGED <<plane, counter, seen, delta, report, base, sweep, moved>> /\ Quiet

ProxyRestarts ==
    /\ \E d \in Meters : plane[d] = "proxy" /\ counter[d] > 0
    /\ Happens("proxy_restart")
    /\ counter' = [d \in Meters |-> IF plane[d] = "proxy" THEN 0 ELSE counter[d]]
    /\ seen' = [d \in Meters |-> IF plane[d] = "proxy" THEN 0 ELSE seen[d]]
    /\ UNCHANGED <<plane, delta, report, posts, row, bucket, base, sweep, moved>>

-----------------------------------------------------------------------------
\* The end of a session ends its connections; a peer stays until the node removes it, and
\* the gateway goes on counting for the device.
Ending(d) ==
    /\ row' = [row EXCEPT ![d].live = FALSE]
    /\ counter' = [counter EXCEPT ![d] = IF plane[d] = "vless" THEN 0 ELSE @]
    /\ seen' = [seen EXCEPT ![d] = IF plane[d] = "vless" THEN 0 ELSE @]

\* REMOVE_PEER: the kernel's counter goes with the peer.
PeerGoes(d) ==
    /\ plane[d] = "peer" /\ ~row[d].live /\ counter[d] > 0
    /\ counter' = [counter EXCEPT ![d] = 0]
    /\ UNCHANGED <<plane, seen, delta, report, posts, row, bucket, base, sweep, moved>> /\ Quiet

Disconnects(d) ==
    /\ row[d].live
    /\ Happens("disconnect")
    /\ Ending(d)
    /\ UNCHANGED <<plane, delta, report, posts, bucket, base, sweep, moved>>

\* connect refuses an account whose allowance is spent. A counter that a former session has
\* left behind is the new row's as well. (What is on its way for the former row is settled
\* first: it would charge the same bucket.)
Connects(d) ==
    /\ ~row[d].live /\ Used < Allowance
    /\ (report # None => d \notin report.todo) /\ \A p \in posts : p.of # d
    /\ Happens(IF counter[d] > 0 THEN "carried" ELSE "connect")
    /\ row' = [row EXCEPT ![d] = [live |-> TRUE, bytes |-> 0]]
    /\ UNCHANGED <<plane, counter, seen, delta, report, posts, bucket, base, sweep, moved>>

\* Fault: the allowance is spent only when it is passed.
Passed(n) == n > Allowance
\* quotaStatusFor.
Exceeded(n) == n >= Allowance

\* The monitor finds the account over its quota, and closes its sessions one by one.
Sweeps ==
    /\ sweep = {} /\ Exceeded(Used)
    /\ sweep' = {d \in Meters : row[d].live} /\ sweep' # {}
    /\ UNCHANGED <<plane, counter, seen, delta, report, posts, row, bucket, base, moved>> /\ Quiet

Cuts(d) ==
    /\ d \in sweep
    /\ sweep' = sweep \ {d}
    /\ IF row[d].live THEN Ending(d) ELSE UNCHANGED <<row, counter, seen>>
    /\ UNCHANGED <<plane, delta, report, posts, bucket, base, moved>> /\ Quiet

\* quotaPeriod: thirty days from the start of the term.
NewPeriod ==
    /\ Used > 0
    /\ Happens("new_period")
    /\ base' = base + Used
    /\ UNCHANGED <<plane, counter, seen, delta, report, posts, row, bucket, sweep, moved>>

UsageNext ==
    \/ Samples \/ SendsReport \/ ReportLost \/ ReportEnds \/ ProxyRestarts \/ Sweeps \/ NewPeriod
    \/ \E d \in Meters : Moves(d) \/ AppliesEntry(d) \/ Flushes(d) \/ Disconnects(d) \/ Connects(d) \/ Cuts(d)
          \/ PeerGoes(d)
    \/ \E p \in posts : Posted(p)

\* The agent samples and reports, the gateway flushes, the monitor ticks, and what the
\* server has begun it finishes.
UsageFairness ==
    /\ WF_usageVars(Runs("usage") /\ Samples) /\ WF_usageVars(Runs("usage") /\ SendsReport) /\ WF_usageVars(Runs("usage") /\ ReportEnds) /\ WF_usageVars(Runs("usage") /\ Sweeps)
    /\ \A d \in Meters : WF_usageVars(Runs("usage") /\ AppliesEntry(d)) /\ WF_usageVars(Runs("usage") /\ Flushes(d)) /\ WF_usageVars(Runs("usage") /\ Cuts(d))
    /\ WF_usageVars(Runs("usage") /\ \E p \in posts : Posted(p))

-----------------------------------------------------------------------------
\* No byte is charged twice: samples of one connection, the report after one that never
\* reached the server, and two posts of the gateway at once add up to what was moved.
ChargedOnce == \A d \in Meters : bucket[d] <= moved[d]

\* What a session has used never falls while it lives, whatever a slow request had read.
NeverBackwards ==
    [][\A d \in Meters : row[d].live /\ row'[d].live => row'[d].bytes >= row[d].bytes]_usageVars

\* What the agent has sampled of a session reaches its row, through lost requests too.
SampledIsCharged ==
    \A d \in Meters, n \in 1..MaxBytes :
        (plane[d] = "vless" /\ row[d].live /\ seen[d] >= n) ~> (row[d].bytes >= n \/ ~row[d].live)

\* An allowance that is spent ends every session of the account, or the window rolls over.
SpentIsCut ==
    \A d \in Meters : []<>(Used >= Allowance => ~row[d].live)

\* Accounting: what was moved is charged once, and never taken back.
UsageHolds == []ChargedOnce /\ NeverBackwards
=============================================================================
