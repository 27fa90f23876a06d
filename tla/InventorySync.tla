--------------------------- MODULE InventorySync ---------------------------
(* The synchronizations of one inventory source: the ledger of runs         *)
(* (inventory-sync-run-store.ts), the handlers that sync (the three         *)
(* *-inventory-sync.ts, called by a request of an administrator or by the   *)
(* inventory.sync job), and the recurring job of the source in pg-boss.     *)
(* Every statement of a handler that others can see is a step; the begin    *)
(* transaction is three, because others only wait for its row lock.         *)
EXTENDS Naturals, Tables

CONSTANTS
  Handlers,    \* calls of run...InventorySync: requests and worker deliveries
  Runs,        \* InventorySyncRun ids; a run's batch is named after it
  RetryLimit,  \* retryLimit of the queue
  MaxJobs,     \* bound on the jobs that are enqueued
  MaxRequests  \* bound on the manual syncs

ASSUME SyncAssumption ==
  /\ RetryLimit \in Nat /\ MaxJobs \in Nat /\ MaxRequests \in Nat
  /\ None \notin Handlers \cup Runs \cup {"RUNNING", "SUCCEEDED", "PARTIAL", "FAILED", "completed"}

VARIABLES
  losses,     \* in this behaviour processes die and statements of the ledger fail
  enabled,    \* the connection is enabled and its last test succeeded
  lock,       \* the handler that holds FOR UPDATE on the source row, or None
  run,        \* the status of each InventorySyncRun, None before it is created
  batch,      \* how far the batch of each run got
  handler,    \* what each call is doing, None when it is not running
  scheduled,  \* the source has a recurring schedule
  job,        \* the queued, active or retrying job of the source, or None
  enqueued,   \* how many jobs were enqueued
  requested,  \* how many manual syncs were requested
  settled     \* how the last job ended, and the last run its handler made

vars == <<losses, enabled, lock, run, batch, handler, scheduled, job, enqueued, requested, settled>>
ledger == <<run, batch>>
queue == <<scheduled, job, enqueued, requested, settled>>

Outcomes == {"SUCCEEDED", "PARTIAL", "FAILED"}
RunStatus == {"RUNNING"} \cup Outcomes
BatchStage == {"NONE", "STAGED", "AUTOMATED", "PUBLISHED"}
Stages == {"begin", "locked", "clear", "fetch", "stage", "automate", "publish",
           "complete", "fail", "throw", "return"}
Handler == [stage : Stages, run : Runs \cup {None}, partial : BOOLEAN, forJob : BOOLEAN]
Job == [state : {"created", "retry", "active"}, attempts : 0 .. RetryLimit + 1,
        worker : Handlers \cup {None}]

TypeOK ==
  /\ losses \in BOOLEAN /\ enabled \in BOOLEAN /\ scheduled \in BOOLEAN
  /\ lock \in Handlers \cup {None}
  /\ run \in [Runs -> RunStatus \cup {None}]
  /\ batch \in [Runs -> BatchStage]
  /\ handler \in [Handlers -> Handler \cup {None}]
  /\ job \in Job \cup {None}
  /\ enqueued \in 0 .. MaxJobs /\ requested \in 0 .. MaxRequests
  /\ settled \in [outcome : {"completed", "failed", None}, run : Runs \cup {None}]

Init ==
  /\ losses \in BOOLEAN
  /\ enabled = FALSE /\ scheduled = FALSE
  /\ lock = None
  /\ run = [r \in Runs |-> None]
  /\ batch = [r \in Runs |-> "NONE"]
  /\ handler = [h \in Handlers |-> None]
  /\ job = None
  /\ enqueued = 0 /\ requested = 0
  /\ settled = [outcome |-> None, run |-> None]

At(h, stage) == handler[h] # None /\ handler[h].stage = stage
Go(h, stage) == handler' = [handler EXCEPT ![h].stage = stage]
Start(h, forJob) ==
  handler' = [handler EXCEPT ![h] = [stage |-> "begin", run |-> None, partial |-> FALSE, forJob |-> forJob]]
-----------------------------------------------------------------------------
(* The connection and its schedule.                                         *)

\* Saves and tests of the connection (InventoryConnection).
ChangeConnection ==
  /\ enabled' = ~enabled
  /\ UNCHANGED <<losses, lock, ledger, handler, queue>>

Schedule ==
  /\ enabled
  /\ scheduled' = TRUE
  /\ UNCHANGED <<losses, enabled, lock, ledger, handler, job, enqueued, requested, settled>>

Unschedule ==
  /\ scheduled' = FALSE
  /\ UNCHANGED <<losses, enabled, lock, ledger, handler, job, enqueued, requested, settled>>
-----------------------------------------------------------------------------
(* pg-boss: a queue with policy exclusive and one singleton key per source. *)

Fire ==
  /\ scheduled /\ job = None /\ enqueued < MaxJobs
  /\ job' = [state |-> "created", attempts |-> 0, worker |-> None]
  /\ enqueued' = enqueued + 1
  /\ UNCHANGED <<losses, enabled, lock, ledger, handler, scheduled, requested, settled>>

Deliver(h) ==
  /\ handler[h] = None
  /\ job # None /\ job.state \in {"created", "retry"}
  /\ job' = [state |-> "active", attempts |-> job.attempts + 1, worker |-> h]
  /\ Start(h, TRUE)
  /\ UNCHANGED <<losses, enabled, lock, ledger, scheduled, enqueued, requested, settled>>

\* A mutant of Retryable: one retry too many.
RetryableOnceMore == job.attempts <= RetryLimit + 1

Retryable == job.attempts <= RetryLimit

Retried(r) ==
  IF Retryable
  THEN /\ job' = [job EXCEPT !.state = "retry", !.worker = None]
       /\ UNCHANGED settled
  ELSE /\ job' = None
       /\ settled' = [outcome |-> "failed", run |-> r]

\* expireInSeconds passed.  The handler, if it is alive, works on: its result
\* no longer reaches the job.
Expire ==
  /\ job # None /\ job.state = "active"
  /\ Retried(None)
  /\ handler' = IF handler[job.worker] = None THEN handler
                ELSE [handler EXCEPT ![job.worker].forJob = FALSE]
  /\ UNCHANGED <<losses, enabled, lock, ledger, scheduled, enqueued, requested>>
-----------------------------------------------------------------------------
(* beginInventorySyncRun: one transaction that locks the source row.        *)

Request(h) ==
  /\ handler[h] = None /\ requested < MaxRequests
  /\ requested' = requested + 1
  /\ Start(h, FALSE)
  /\ UNCHANGED <<losses, enabled, lock, ledger, scheduled, job, enqueued, settled>>

\* A mutant of MayLock: the row is read without FOR UPDATE.
MayLockAlways == TRUE

MayLock == lock = None

LockSource(h) ==
  /\ At(h, "begin") /\ MayLock
  /\ lock' = h
  /\ Go(h, "locked")
  /\ UNCHANGED <<losses, enabled, ledger, queue>>

Running == {r \in Runs : run[r] = "RUNNING"}

FindNoRun(h) ==
  /\ At(h, "locked") /\ Running = {}
  /\ Go(h, "clear")
  /\ UNCHANGED <<losses, enabled, lock, ledger, queue>>

\* "Inventory synchronization is already running for this source"
RefuseBegin(h) ==
  /\ At(h, "locked") /\ Running # {}
  /\ Go(h, "throw")
  /\ lock' = None
  /\ UNCHANGED <<losses, enabled, ledger, queue>>

Unused == {r \in Runs : run[r] = None}
NewId == CHOOSE r \in Unused : TRUE

CreateRun(h) ==
  /\ At(h, "clear") /\ Unused # {}
  /\ run' = [run EXCEPT ![NewId] = "RUNNING"]
  /\ handler' = [handler EXCEPT ![h] = [@ EXCEPT !.stage = "fetch", !.run = NewId]]
  /\ lock' = None
  /\ UNCHANGED <<losses, enabled, batch, queue>>
-----------------------------------------------------------------------------
(* run...InventorySyncCore.                                                 *)

\* partial: at least one scope answered and at least one did not.
Fetch(h, partial) ==
  /\ At(h, "fetch") /\ enabled
  /\ handler' = [handler EXCEPT ![h] = [@ EXCEPT !.stage = "stage", !.partial = partial]]
  /\ UNCHANGED <<losses, enabled, lock, ledger, queue>>

Work(h, from, to, reached) ==
  /\ At(h, from)
  /\ Go(h, to)
  /\ batch' = [batch EXCEPT ![handler[h].run] = reached]
  /\ UNCHANGED <<losses, enabled, lock, run, queue>>

Stage(h) == Work(h, "stage", "automate", "STAGED")
Automate(h) == Work(h, "automate", "publish", "AUTOMATED")
AutoPublish(h) == Work(h, "publish", "complete", "PUBLISHED")

Working == {"fetch", "stage", "automate", "publish", "complete"}

\* Mutants of Breaks: the error is not caught; a failed publication is swallowed.
BreaksUncaught(h) == "throw"
BreaksSwallowed(h) == IF handler[h].stage = "publish" THEN "complete" ELSE "fail"

Breaks(h) == "fail"

Break(h) ==
  /\ handler[h] # None /\ handler[h].stage \in Working \ {"complete"}
  /\ Go(h, Breaks(h))
  /\ UNCHANGED <<losses, enabled, lock, ledger, queue>>
-----------------------------------------------------------------------------
(* The end of a run, and of the job it was made for.                        *)

Recorded(h) == IF handler[h].partial THEN "PARTIAL" ELSE "SUCCEEDED"

\* A mutant of AfterComplete: something later in the try block throws.
AfterCompleteThrows == "fail"

AfterComplete == "return"

Complete(h) ==
  /\ At(h, "complete")
  /\ run' = [run EXCEPT ![handler[h].run] = Recorded(h)]
  /\ Go(h, AfterComplete)
  /\ UNCHANGED <<losses, enabled, lock, batch, queue>>

\* The update throws; when its answer was lost it may have been committed.
CompleteThrows(h) ==
  /\ losses /\ At(h, "complete")
  /\ \/ UNCHANGED run
     \/ run' = [run EXCEPT ![handler[h].run] = Recorded(h)]
  /\ Go(h, "fail")
  /\ UNCHANGED <<losses, enabled, lock, batch, queue>>

\* A mutant of AfterFail: the error is recorded but not thrown again.
AfterFailReturns == "return"

AfterFail == "throw"

Fail(h) ==
  /\ At(h, "fail")
  /\ run' = [run EXCEPT ![handler[h].run] = "FAILED"]
  /\ Go(h, AfterFail)
  /\ UNCHANGED <<losses, enabled, lock, batch, queue>>

FailThrows(h) ==
  /\ losses /\ At(h, "fail")
  /\ Go(h, "throw")
  /\ UNCHANGED <<losses, enabled, lock, ledger, queue>>

Mine(h) == handler[h].forJob /\ job # None /\ job.worker = h

Return(h) ==
  /\ At(h, "return")
  /\ IF Mine(h) THEN /\ job' = None
                     /\ settled' = [outcome |-> "completed", run |-> handler[h].run]
     ELSE UNCHANGED <<job, settled>>
  /\ handler' = [handler EXCEPT ![h] = None]
  /\ UNCHANGED <<losses, enabled, lock, ledger, scheduled, enqueued, requested>>

Throw(h) ==
  /\ At(h, "throw")
  /\ IF Mine(h) THEN Retried(handler[h].run) ELSE UNCHANGED <<job, settled>>
  /\ handler' = [handler EXCEPT ![h] = None]
  /\ UNCHANGED <<losses, enabled, lock, ledger, scheduled, enqueued, requested>>

\* The process dies; PostgreSQL rolls an open transaction back.
Crash(h) ==
  /\ losses /\ handler[h] # None
  /\ handler' = [handler EXCEPT ![h] = None]
  /\ lock' = IF lock = h THEN None ELSE lock
  /\ UNCHANGED <<losses, enabled, ledger, queue>>
-----------------------------------------------------------------------------
\* The steps a live process takes by itself.
Progress(h) ==
  \/ LockSource(h) \/ FindNoRun(h) \/ RefuseBegin(h) \/ CreateRun(h)
  \/ \E partial \in BOOLEAN : Fetch(h, partial)
  \/ Stage(h) \/ Automate(h) \/ AutoPublish(h) \/ Break(h)
  \/ Complete(h) \/ CompleteThrows(h) \/ Fail(h) \/ FailThrows(h)
  \/ Return(h) \/ Throw(h)

Next ==
  \/ ChangeConnection \/ Schedule \/ Unschedule \/ Fire \/ Expire
  \/ \E h \in Handlers : Deliver(h) \/ Request(h) \/ Progress(h) \/ Crash(h)

Spec == Init /\ [][Next]_vars

\* A live process goes on, workers poll for jobs, and pg-boss supervises what is
\* active.
Fairness ==
  /\ \A h \in Handlers : WF_vars(Progress(h))
  /\ WF_vars(\E h \in Handlers : Deliver(h))
  /\ WF_vars(Expire)

FairSpec == Spec /\ Fairness
-----------------------------------------------------------------------------
\* At most one run of the source is RUNNING, whatever requests, schedules,
\* retries and expired deliveries begin at the same time.
OneRunAtATime == \A r, q \in Running : r = q

\* At most one handler fetches, stages or publishes, also when pg-boss has
\* expired its job and delivered a retry while it is still at work; and that
\* handler's run is open.
OneSyncAtWork ==
  \A h, k \in Handlers :
    handler[h] # None /\ handler[k] # None
    /\ handler[h].stage \in Working /\ handler[k].stage \in Working =>
      h = k /\ run[handler[h].run] = "RUNNING"

\* A run on record as a success stands for a batch that was staged, prepared
\* and offered for publication.
SuccessIsPublished ==
  \A r \in Runs : run[r] \in {"SUCCEEDED", "PARTIAL"} => batch[r] = "PUBLISHED"

\* A job pg-boss reports as completed did synchronize: its handler's run is on
\* record as a success.
CompletedJobsSynced ==
  settled.outcome = "completed" =>
    settled.run # None /\ run[settled.run] \in {"SUCCEEDED", "PARTIAL"}

\* What the ledger says of a finished run is never written again, although
\* both updates are by id alone: unless an answer of the ledger is lost.
OutcomesAreFinal ==
  [][~losses => \A r \in Runs : run[r] \in Outcomes => run'[r] = run[r]]_vars

\* Every run ends while nothing is lost, and every job of the queue is settled,
\* also when its worker died.
RunsEnd == \A r \in Runs : ~losses /\ run[r] = "RUNNING" ~> run[r] \in Outcomes
JobsSettle == job # None ~> job = None

\* A sync that was begun is closed, and what pg-boss holds for it is settled, or
\* the source would never be synchronized again.
SyncsSettle == RunsEnd /\ JobsSettle
=============================================================================
