----------------------------- MODULE Deployment -----------------------------
(***************************************************************************)
(* Deployments: the panel's buttons put a job into a queue of one, and a   *)
(* worker runs one fixed script for it.  Prod gets the release that beta   *)
(* runs; a script that dies in the middle leaves what it had switched.     *)
(***************************************************************************)
EXTENDS Happenings

CONSTANTS
    Panels,     \* panels of administrators, on prod
    DeedsOf,    \* bound of the model: the buttons that the user of a panel presses
    MaxJobs     \* bound of the model: jobs; the n-th builds release n

ASSUME DeployAssumption == \A p \in Panels : DeedsOf[p] \subseteq {"DEPLOY_BETA", "PROMOTE", "ROLLBACK", "START", "STOP"}

VARIABLES
    jobs,       \* deploy_jobs, oldest first
    click,      \* click[p]: the request under way in the server for panel p
    worker,     \* state of the worker, the job it has, the exit code of its script
    beta, prod, \* what each channel runs and ran before; whether beta is on
    sound       \* releases that answer the health check on beta

deployVars == <<jobs, click, worker, beta, prod, sound>>

NoClick == [deed |-> None, saw |-> None, ended |-> 0, stage |-> "idle"]
Resting == [state |-> "idle", job |-> 0, ok |-> FALSE]
Active == {j \in DOMAIN jobs : jobs[j].status \in {"QUEUED", "RUNNING"}}
Ended == Cardinality(DOMAIN jobs \ Active)
\* Fault: an error page is an answer.
AnswersAtAll == beta.on
\* Beta answers its health check.
Reachable == beta.on /\ beta.runs \in sound

DeployInit ==
    /\ jobs = <<>>
    /\ click = [p \in Panels |-> NoClick]
    /\ worker = [Resting EXCEPT !.state = "down"]
    /\ beta = [on |-> TRUE, runs |-> 0, before |-> 0]
    /\ prod = [runs |-> 0, before |-> -1]
    /\ sound = {-1, 0}

-----------------------------------------------------------------------------
\* A button of the panel, however old the picture is that enabled it; a pressed one is
\* enabled again when its request has ended. The route probes beta before a promotion.
Press(p, deed) ==
    /\ click[p] = NoClick /\ Len(jobs) < MaxJobs
    /\ deed = "PROMOTE" => Reachable
    /\ click' = [click EXCEPT ![p] = [deed |-> deed, saw |-> IF deed = "PROMOTE" THEN beta.runs ELSE None, ended |-> Ended, stage |-> "pressed"]]
    /\ UNCHANGED <<jobs, worker, beta, prod, sound>> /\ Quiet

\* A job that came and went since the request began is an event of its own.
Prompt(p) == IF Ended = click[p].ended THEN Quiet ELSE Happens("overlap")

\* enqueue: no job may be active.
Enqueues(p) ==
    /\ click[p].stage = "pressed" /\ Prompt(p)
    /\ click' = [click EXCEPT ![p] = IF Active = {} THEN [@ EXCEPT !.stage = "checked"] ELSE NoClick]
    /\ UNCHANGED <<jobs, worker, beta, prod, sound>>

\* Fault: the index covers the running job alone.
OneRunning == \A j \in Active : jobs[j].status # "RUNNING"
\* deploy_jobs_single_active_idx.
Single == Active = {}

Inserts(p) ==
    /\ click[p].stage = "checked" /\ Prompt(p)
    /\ jobs' = IF Single /\ Len(jobs) < MaxJobs
               THEN Append(jobs, [deed |-> click[p].deed, saw |-> click[p].saw, status |-> "QUEUED"])
               ELSE jobs
    /\ click' = [click EXCEPT ![p] = NoClick]
    /\ UNCHANGED <<worker, beta, prod, sound>>

-----------------------------------------------------------------------------
\* Fault: what a worker that died had been doing stays as it is.
OrphansKept == jobs
\* recoverOrphans.
OrphansFailed == [j \in DOMAIN jobs |-> IF jobs[j].status = "RUNNING" THEN [jobs[j] EXCEPT !.status = "FAILED"] ELSE jobs[j]]

WorkerStarts ==
    /\ worker.state = "down"
    /\ jobs' = OrphansFailed
    /\ worker' = Resting
    /\ UNCHANGED <<click, beta, prod, sound>> /\ Quiet

\* claimNextJob: the oldest.
TakesJob ==
    /\ worker.state = "idle"
    /\ \E j \in DOMAIN jobs :
          /\ jobs[j].status = "QUEUED" /\ \A i \in 1 .. j - 1 : jobs[i].status # "QUEUED"
          /\ jobs' = [jobs EXCEPT ![j].status = "RUNNING"]
          /\ worker' = [worker EXCEPT !.state = "runs", !.job = j]
    /\ UNCHANGED <<click, beta, prod, sound>> /\ Quiet

Deed == jobs[worker.job].deed
WorkerGoes(state, ok) == worker' = [worker EXCEPT !.state = state, !.ok = ok]

\* The part of a script up to the switch of the symbolic link; whether what it builds is
\* sound is decided here. promote.sh wants beta on and healthy.
Switches ==
    /\ worker.state = "runs"
    /\ \/ /\ Deed = "DEPLOY_BETA"
          /\ beta' = [on |-> TRUE, runs |-> worker.job, before |-> beta.runs]
          /\ sound' \in {sound, sound \union {worker.job}}
          /\ WorkerGoes("switched", FALSE) /\ UNCHANGED prod
       \/ /\ Deed = "PROMOTE"
          /\ IF Reachable THEN prod' = [runs |-> beta.runs, before |-> prod.runs] /\ WorkerGoes("switched", FALSE)
                            ELSE UNCHANGED prod /\ WorkerGoes("ran", FALSE)
          /\ UNCHANGED <<beta, sound>>
       \/ /\ Deed = "ROLLBACK"
          /\ IF prod.before # prod.runs THEN prod' = [runs |-> prod.before, before |-> prod.runs] /\ WorkerGoes("switched", FALSE)
                                        ELSE UNCHANGED prod /\ WorkerGoes("ran", FALSE)
          /\ UNCHANGED <<beta, sound>>
       \/ /\ Deed \in {"START", "STOP"}
          /\ beta' = [beta EXCEPT !.on = (Deed = "START")]
          /\ WorkerGoes("switched", FALSE) /\ UNCHANGED <<prod, sound>>
    /\ UNCHANGED <<jobs, click>> /\ Quiet

\* The health check, and the way back when it fails; rollback.sh has none.
Verifies ==
    /\ worker.state = "switched"
    /\ \/ Deed = "DEPLOY_BETA" /\ beta.runs \in sound /\ WorkerGoes("ran", TRUE) /\ UNCHANGED <<beta, prod>>
       \/ /\ Deed = "DEPLOY_BETA" /\ beta.runs \notin sound
          /\ beta' = [beta EXCEPT !.runs = beta.before]
          /\ WorkerGoes("ran", FALSE) /\ UNCHANGED prod
       \/ Deed \in {"PROMOTE", "ROLLBACK", "STOP"} /\ WorkerGoes("ran", TRUE) /\ UNCHANGED <<beta, prod>>
       \/ /\ Deed = "PROMOTE"
          /\ prod' = [prod EXCEPT !.runs = prod.before]
          /\ WorkerGoes("ran", FALSE) /\ UNCHANGED beta
       \/ Deed = "ROLLBACK" /\ WorkerGoes("ran", FALSE) /\ UNCHANGED <<beta, prod>>
       \/ Deed = "START" /\ WorkerGoes("ran", beta.runs \in sound) /\ UNCHANGED <<beta, prod>>
    /\ UNCHANGED <<jobs, click, sound>> /\ Quiet

\* processJob writes the outcome.
Records ==
    /\ worker.state = "ran"
    /\ \/ Quiet /\ jobs' = [jobs EXCEPT ![worker.job].status = IF worker.ok THEN "SUCCEEDED" ELSE "FAILED"]
       \/ Happens("db_error") /\ UNCHANGED jobs
    /\ worker' = Resting
    /\ UNCHANGED <<click, beta, prod, sound>>

\* The worker or the machine dies; the unit's processes die with it.
WorkerDies ==
    /\ worker.state # "down"
    /\ Happens("worker_crash")
    /\ worker' = [Resting EXCEPT !.state = "down"]
    /\ UNCHANGED <<jobs, click, beta, prod, sound>>

DeployNext ==
    \/ \E p \in Panels : Enqueues(p) \/ Inserts(p) \/ \E d \in DeedsOf[p] : Press(p, d)
    \/ WorkerStarts \/ TakesJob \/ Switches \/ Verifies \/ Records \/ WorkerDies

\* The worker polls, its scripts end or are killed, and systemd restarts it.
WorkerWorks == WorkerStarts \/ TakesJob \/ Switches \/ Verifies \/ Records

DeployFairness == WF_deployVars(Runs("deploy") /\ WorkerWorks)

-----------------------------------------------------------------------------
\* What an administrator was told is being promoted is what prod gets: no other job comes
\* between the probe of beta and the copy.
PromotesWhatItSaw ==
    worker.state = "switched" /\ Deed = "PROMOTE" => prod.runs = jobs[worker.job].saw

\* Prod only ever runs what has answered on beta, whatever scripts died before.
BetaVouches == prod.runs \in sound

\* A job does not stay in the queue, which would refuse every other for good.
JobEnds == []<>(Active = {})

\* Deployment: production gets the release that was seen and tested on beta.
DeploymentHolds == PromotesWhatItSaw /\ BetaVouches
=============================================================================
