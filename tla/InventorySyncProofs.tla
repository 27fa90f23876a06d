------------------------ MODULE InventorySyncProofs ------------------------
(* Proofs about InventorySync, for any number of handlers, runs and         *)
(* retries, with and without losses.                                        *)
EXTENDS InventorySync, TLAPS

\* A handler beyond the begin transaction holds a run that was created for it;
\* at work the run is open, and at the end its batch is published.
Owns(h) ==
  handler[h] # None =>
    /\ handler[h].stage \in {"locked", "clear"} => lock = h
    /\ handler[h].stage = "clear" => Running = {}
    /\ handler[h].run # None => run[handler[h].run] # None
    /\ handler[h].stage \in Working \cup {"fail", "return"} => handler[h].run # None
    /\ handler[h].stage \in Working => run[handler[h].run] = "RUNNING"
    /\ handler[h].stage = "fail" => losses \/ run[handler[h].run] = "RUNNING"
    /\ handler[h].stage = "complete" => batch[handler[h].run] = "PUBLISHED"

HandlersOwn == \A h \in Handlers : Owns(h)

\* No two handlers hold the same run.
OneOwner ==
  \A h, k \in Handlers :
    handler[h] # None /\ handler[k] # None /\ handler[h].run = handler[k].run
      => h = k \/ handler[h].run = None

JobIsBounded ==
  job # None =>
    /\ job.state \in {"created", "retry"} => job.attempts <= RetryLimit
    /\ job.state = "active" => job.worker # None

Inv == TypeOK /\ HandlersOwn /\ OneOwner /\ JobIsBounded /\ OneRunAtATime /\ SuccessIsPublished

-----------------------------------------------------------------------------
LEMMA InitInv == Init => Inv
<1> SUFFICES ASSUME Init PROVE Inv
  OBVIOUS
<1>1. TypeOK
  <2>1. enqueued \in 0 .. MaxJobs /\ requested \in 0 .. MaxRequests
    BY SyncAssumption DEF Init
  <2>2. settled \in [outcome : {"completed", "failed", None}, run : Runs \cup {None}]
    BY DEF Init
  <2> QED
    BY <2>1, <2>2 DEF Init, TypeOK, BatchStage
<1>2. HandlersOwn /\ OneOwner /\ JobIsBounded
  BY DEF Init, HandlersOwn, Owns, OneOwner, JobIsBounded
<1>3. OneRunAtATime /\ SuccessIsPublished
  <2>1. \A r \in Runs : run[r] = None
    BY DEF Init
  <2>2. None # "RUNNING" /\ None # "SUCCEEDED" /\ None # "PARTIAL"
    BY SyncAssumption
  <2> QED
    BY <2>1, <2>2 DEF OneRunAtATime, SuccessIsPublished, Running
<1> QED
  BY <1>1, <1>2, <1>3 DEF Inv

-----------------------------------------------------------------------------
(* Type correctness.                                                        *)

\* A handler that only moves to another stage is still a handler.
LEMMA GoTypes ==
  ASSUME TypeOK, NEW h \in Handlers, handler[h] # None, NEW stage \in Stages, Go(h, stage)
  PROVE  handler' \in [Handlers -> Handler \cup {None}]
BY DEF TypeOK, Go, Handler

LEMMA StartTypes ==
  ASSUME TypeOK, NEW h \in Handlers, NEW forJob \in BOOLEAN, Start(h, forJob)
  PROVE  handler' \in [Handlers -> Handler \cup {None}]
<1>1. [stage |-> "begin", run |-> None, partial |-> FALSE, forJob |-> forJob] \in Handler
  BY DEF Handler, Stages
<1> QED
  BY <1>1 DEF TypeOK, Start

LEMMA RetriedTypes ==
  ASSUME TypeOK, job # None, NEW r \in Runs \cup {None}, Retried(r)
  PROVE  /\ job' \in Job \cup {None}
         /\ settled' \in [outcome : {"completed", "failed", None}, run : Runs \cup {None}]
<1>1. [job EXCEPT !.state = "retry", !.worker = None] \in Job
  BY DEF TypeOK, Job
<1> QED
  BY <1>1 DEF TypeOK, Retried

LEMMA TypeStep == Inv /\ [Next]_vars => TypeOK'
<1> SUFFICES ASSUME Inv, [Next]_vars PROVE TypeOK'
  OBVIOUS
<1>t. TypeOK
  BY DEF Inv
<1>1. CASE ChangeConnection \/ Schedule \/ Unschedule
  BY <1>1, <1>t DEF ChangeConnection, Schedule, Unschedule, TypeOK, ledger, queue
<1>2. CASE Fire
  BY <1>2, <1>t, SyncAssumption DEF Fire, TypeOK, Job, ledger
<1>3. CASE Expire
  <2>1. job' \in Job \cup {None} /\ settled' \in [outcome : {"completed", "failed", None}, run : Runs \cup {None}]
    BY <1>3, <1>t, RetriedTypes DEF Expire
  <2>2. handler' \in [Handlers -> Handler \cup {None}]
    <3>1. CASE handler[job.worker] = None
      BY <3>1, <1>3, <1>t DEF Expire, TypeOK
    <3>2. CASE handler[job.worker] # None
      <4>1. job.worker \in Handlers
        BY <1>3, <1>t DEF Expire, TypeOK, Job, Inv, JobIsBounded
      <4>2. handler' = [handler EXCEPT ![job.worker].forJob = FALSE]
        BY <3>2, <1>3 DEF Expire
      <4> QED
        BY <4>1, <4>2, <3>2, <1>t DEF TypeOK, Handler
    <3> QED
      BY <3>1, <3>2
  <2> QED
    BY <1>3, <1>t, <2>1, <2>2 DEF Expire, TypeOK, ledger
<1>4. ASSUME NEW h \in Handlers, Deliver(h) PROVE TypeOK'
  <2>1. handler' \in [Handlers -> Handler \cup {None}]
    BY <1>4, <1>t, StartTypes DEF Deliver
  <2>2. job' \in Job
    BY <1>4, <1>t, SyncAssumption DEF Deliver, TypeOK, Job, Inv, JobIsBounded
  <2> QED
    BY <1>4, <1>t, <2>1, <2>2 DEF Deliver, TypeOK, ledger
<1>5. ASSUME NEW h \in Handlers, Request(h) PROVE TypeOK'
  <2>1. handler' \in [Handlers -> Handler \cup {None}]
    BY <1>5, <1>t, StartTypes DEF Request
  <2>2. requested' \in 0 .. MaxRequests
    BY <1>5, <1>t, SyncAssumption DEF Request, TypeOK
  <2> QED
    BY <1>5, <1>t, <2>1, <2>2 DEF Request, TypeOK, ledger
<1>6. ASSUME NEW h \in Handlers, LockSource(h) \/ FindNoRun(h) \/ RefuseBegin(h)
      PROVE TypeOK'
  <2>1. handler' \in [Handlers -> Handler \cup {None}]
    BY <1>6, <1>t, GoTypes DEF LockSource, FindNoRun, RefuseBegin, At, Stages
  <2> QED
    BY <1>6, <1>t, <2>1 DEF LockSource, FindNoRun, RefuseBegin, TypeOK, ledger, queue
<1>7. ASSUME NEW h \in Handlers, CreateRun(h) PROVE TypeOK'
  <2>1. NewId \in Unused
    BY <1>7 DEF CreateRun, NewId
  <2>2. NewId \in Runs
    BY <2>1 DEF Unused
  <2>3. handler' = [handler EXCEPT ![h] = [@ EXCEPT !.stage = "fetch", !.run = NewId]] /\ handler[h] # None
    BY <1>7 DEF CreateRun, At
  <2> HIDE DEF NewId
  <2>4. handler' \in [Handlers -> Handler \cup {None}]
    <3>1. [handler[h] EXCEPT !.stage = "fetch", !.run = NewId] \in Handler
      BY <2>2, <2>3, <1>t DEF TypeOK, Handler, Stages
    <3> QED
      BY <2>3, <3>1, <1>t DEF TypeOK
  <2>5. run' \in [Runs -> RunStatus \cup {None}]
    BY <1>7, <1>t, <2>2 DEF CreateRun, TypeOK, RunStatus
  <2> QED
    BY <1>7, <1>t, <2>4, <2>5 DEF CreateRun, TypeOK, queue
<1>8. ASSUME NEW h \in Handlers, NEW partial \in BOOLEAN, Fetch(h, partial) PROVE TypeOK'
  <2>1. handler' = [handler EXCEPT ![h] = [@ EXCEPT !.stage = "stage", !.partial = partial]] /\ handler[h] # None
    BY <1>8 DEF Fetch, At
  <2>2. handler' \in [Handlers -> Handler \cup {None}]
    <3>1. [handler[h] EXCEPT !.stage = "stage", !.partial = partial] \in Handler
      BY <2>1, <1>t DEF TypeOK, Handler, Stages
    <3> QED
      BY <2>1, <3>1, <1>t DEF TypeOK
  <2> QED
    BY <1>8, <1>t, <2>2 DEF Fetch, TypeOK, ledger, queue
<1>9. ASSUME NEW h \in Handlers, Stage(h) \/ Automate(h) \/ AutoPublish(h) PROVE TypeOK'
  <2>1. handler' \in [Handlers -> Handler \cup {None}]
    BY <1>9, <1>t, GoTypes DEF Stage, Automate, AutoPublish, Work, At, Stages
  <2>2. batch' \in [Runs -> BatchStage]
    BY <1>9, <1>t DEF Stage, Automate, AutoPublish, Work, TypeOK, BatchStage
  <2> QED
    BY <1>9, <1>t, <2>1, <2>2 DEF Stage, Automate, AutoPublish, Work, TypeOK, queue
<1>10. ASSUME NEW h \in Handlers,
              Break(h) \/ Complete(h) \/ CompleteThrows(h) \/ Fail(h) \/ FailThrows(h)
       PROVE TypeOK'
  <2>1. handler' \in [Handlers -> Handler \cup {None}]
    BY <1>10, <1>t, GoTypes DEF Break, Breaks, Complete, AfterComplete, CompleteThrows, Fail,
       AfterFail, FailThrows, At, Stages
  <2>2. run' \in [Runs -> RunStatus \cup {None}]
    BY <1>10, <1>t DEF Break, Complete, CompleteThrows, Fail, FailThrows, Recorded, ledger,
       TypeOK, RunStatus, Outcomes
  <2> QED
    BY <1>10, <1>t, <2>1, <2>2 DEF Break, Complete, CompleteThrows, Fail, FailThrows, TypeOK, ledger, queue
<1>11. ASSUME NEW h \in Handlers, Return(h) \/ Throw(h) PROVE TypeOK'
  <2>1. handler' \in [Handlers -> Handler \cup {None}]
    BY <1>11, <1>t DEF Return, Throw, TypeOK
  <2>2. handler[h].run \in Runs \cup {None}
    BY <1>11, <1>t DEF Return, Throw, At, TypeOK, Handler
  <2>3. job' \in Job \cup {None} /\ settled' \in [outcome : {"completed", "failed", None}, run : Runs \cup {None}]
    BY <1>11, <1>t, <2>2, RetriedTypes DEF Return, Throw, Mine, TypeOK
  <2> QED
    BY <1>11, <1>t, <2>1, <2>3 DEF Return, Throw, TypeOK, ledger
<1>12. ASSUME NEW h \in Handlers, Crash(h) PROVE TypeOK'
  BY <1>12, <1>t DEF Crash, TypeOK, ledger, queue
<1>13. CASE UNCHANGED vars
  BY <1>13, <1>t DEF vars, TypeOK
<1> QED
  BY <1>1, <1>2, <1>3, <1>4, <1>5, <1>6, <1>7, <1>8, <1>9, <1>10, <1>11, <1>12, <1>13
     DEF Next, Progress
-----------------------------------------------------------------------------
(* Ownership of the runs, one action after the other.                       *)

Owned == HandlersOwn /\ OneOwner /\ OneRunAtATime /\ SuccessIsPublished

\* A step that creates, closes and works on nothing keeps ownership when it
\* moves one handler into a stage that asks for no more than the last one.
LEMMA QuietStep ==
  ASSUME Inv, UNCHANGED <<run, batch>>,
         \A h \in Handlers : handler'[h] = None \/ handler'[h].run = None
                              \/ (handler[h] # None /\ handler'[h].run = handler[h].run),
         HandlersOwn'
  PROVE  Owned'
BY DEF Inv, Owned, OneOwner, OneRunAtATime, SuccessIsPublished, Running

LEMMA OwnedStep == Inv /\ [Next]_vars => Owned'
<1> SUFFICES ASSUME Inv, [Next]_vars PROVE Owned'
  OBVIOUS
<1>t. TypeOK /\ HandlersOwn
  BY DEF Inv
<1>l. losses' = losses
  BY DEF Next, Progress, ChangeConnection, Schedule, Unschedule, Fire, Expire, Deliver, Request,
     LockSource, FindNoRun, RefuseBegin, CreateRun, Fetch, Stage, Automate, AutoPublish, Work,
     Break, Complete, CompleteThrows, Fail, FailThrows, Return, Throw, Crash, vars
<1>1. CASE ChangeConnection \/ Schedule \/ Unschedule \/ Fire \/ UNCHANGED vars
  <2>1. UNCHANGED <<run, batch, handler, lock>>
    BY <1>1 DEF ChangeConnection, Schedule, Unschedule, Fire, ledger, vars
  <2>2. HandlersOwn'
    BY <2>1, <1>t, <1>l DEF HandlersOwn, Owns, Running
  <2> QED
    BY <2>1, <2>2, QuietStep
<1>2. CASE Expire
  <2>1. UNCHANGED <<run, batch, lock>>
    BY <1>2 DEF Expire, ledger
  <2>2. \A h \in Handlers : \/ handler'[h] = handler[h]
                            \/ /\ handler[h] # None
                               /\ handler'[h].run = handler[h].run
                               /\ handler'[h].stage = handler[h].stage
    BY <1>2, <1>t DEF Expire, TypeOK, Handler
  <2>3. HandlersOwn'
    BY <2>1, <2>2, <1>t, <1>l DEF HandlersOwn, Owns, Running
  <2> QED
    BY <2>1, <2>2, <2>3, QuietStep
<1>3. ASSUME NEW h \in Handlers, Deliver(h) \/ Request(h) PROVE Owned'
  <2>1. UNCHANGED <<run, batch, lock>> /\ handler[h] = None
    BY <1>3 DEF Deliver, Request, ledger
  <2>2. \A k \in Handlers : \/ handler'[k] = handler[k]
                            \/ handler'[k].run = None /\ handler'[k].stage = "begin"
    BY <1>3, <1>t DEF Deliver, Request, Start, TypeOK
  <2>3. HandlersOwn'
    BY <2>1, <2>2, <1>t, <1>l DEF HandlersOwn, Owns, Running, Working
  <2>4. \A k \in Handlers : handler'[k] = None \/ handler'[k].run = None
                            \/ (handler[k] # None /\ handler'[k].run = handler[k].run)
    BY <2>2
  <2> QED
    BY <2>1, <2>3, <2>4, QuietStep
<1>4. ASSUME NEW h \in Handlers, LockSource(h) \/ FindNoRun(h) \/ RefuseBegin(h)
      PROVE Owned'
  <2>1. UNCHANGED <<run, batch>> /\ handler[h] # None /\ handler[h].stage \in {"begin", "locked"}
    BY <1>4 DEF LockSource, FindNoRun, RefuseBegin, At, ledger
  <2>2. PICK stage \in {"locked", "clear", "throw"} : handler' = [handler EXCEPT ![h].stage = stage]
    BY <1>4 DEF LockSource, FindNoRun, RefuseBegin, Go
  <2>3. /\ handler'[h].stage \in {"locked", "clear", "throw"}
        /\ handler'[h].run = handler[h].run
        /\ \A k \in Handlers \ {h} : handler'[k] = handler[k]
    BY <2>1, <2>2, <1>t DEF TypeOK, Handler
  <2>4. handler'[h].stage = "clear" => Running = {}
    BY <1>4, <2>1, <1>t DEF LockSource, FindNoRun, RefuseBegin, Go, TypeOK, Handler
  <2>5. handler'[h].stage # "throw" => lock' = h
    BY <1>4, <2>1, <1>t DEF LockSource, FindNoRun, RefuseBegin, Go, TypeOK, Handler, HandlersOwn, Owns, At
  <2>6. \A k \in Handlers \ {h} :
          handler[k] # None /\ handler[k].stage \in {"locked", "clear"} => lock' = k
    BY <1>4, <1>t, SyncAssumption DEF LockSource, MayLock, FindNoRun, RefuseBegin, HandlersOwn, Owns, At
  <2>7. Owns(h)'
    BY <2>1, <2>3, <2>4, <2>5, <1>t, <1>l DEF HandlersOwn, Owns, Running, Working
  <2>8. \A k \in Handlers \ {h} : Owns(k)'
    BY <2>1, <2>3, <2>6, <1>t, <1>l DEF HandlersOwn, Owns, Running
  <2>9. HandlersOwn'
    BY <2>7, <2>8 DEF HandlersOwn
  <2> QED
    BY <2>1, <2>3, <2>9, QuietStep
<1>5. ASSUME NEW h \in Handlers, CreateRun(h) PROVE Owned'
  <2>1. NewId \in Runs /\ run[NewId] = None
    BY <1>5 DEF CreateRun, NewId, Unused
  <2>2. /\ handler' = [handler EXCEPT ![h] = [@ EXCEPT !.stage = "fetch", !.run = NewId]]
        /\ run' = [run EXCEPT ![NewId] = "RUNNING"]
        /\ lock' = None /\ batch' = batch
        /\ handler[h] # None /\ handler[h].stage = "clear"
    BY <1>5 DEF CreateRun, At
  <2> HIDE DEF NewId
  <2>3. Running = {} /\ lock = h
    BY <2>2, <1>t, <1>l DEF HandlersOwn, Owns
  <2>4. /\ handler'[h].stage = "fetch" /\ handler'[h].run = NewId
        /\ \A k \in Handlers \ {h} : handler'[k] = handler[k]
    BY <2>2, <1>t DEF TypeOK, Handler
  <2>5. run'[NewId] = "RUNNING" /\ \A r \in Runs \ {NewId} : run'[r] = run[r]
    BY <2>1, <2>2, <1>t DEF TypeOK
  <2>6. \A k \in Handlers : handler[k] # None => handler[k].run # NewId
    BY <2>1, <1>t, SyncAssumption, <1>l DEF HandlersOwn, Owns
  <2>7. \A k \in Handlers : handler[k] # None => handler[k].run \in Runs \cup {None}
    BY <1>t DEF TypeOK, Handler
  <2>8. \A k \in Handlers \ {h} : handler[k] # None => handler[k].stage \notin {"locked", "clear"}
    BY <2>3, <1>t, <1>l DEF HandlersOwn, Owns
  <2>9. Owns(h)'
    BY <2>1, <2>4, <2>5, SyncAssumption, <1>l DEF Owns, Working
  <2>10. \A k \in Handlers \ {h} : Owns(k)'
    BY <2>1, <2>2, <2>4, <2>5, <2>6, <2>7, <2>8, <1>t, <1>l DEF HandlersOwn, Owns, Working
  <2>11. OneOwner'
    BY <2>4, <2>6 DEF OneOwner, Inv
  <2>12. OneRunAtATime' /\ SuccessIsPublished'
    BY <2>2, <2>3, <2>5 DEF OneRunAtATime, SuccessIsPublished, Running, Inv
  <2> QED
    BY <2>9, <2>10, <2>11, <2>12 DEF Owned, HandlersOwn
<1>6. ASSUME NEW h \in Handlers, (\E partial \in BOOLEAN : Fetch(h, partial)) \/ Break(h) \/ FailThrows(h)
      PROVE Owned'
  <2>1. UNCHANGED <<run, batch, lock>> /\ handler[h] # None
    BY <1>6 DEF Fetch, Break, FailThrows, At, ledger
  <2>2. /\ handler'[h].run = handler[h].run
        /\ \/ handler[h].stage = "fetch" /\ handler'[h].stage = "stage"
           \/ handler[h].stage \in Working /\ handler'[h].stage = "fail"
           \/ handler'[h].stage = "throw"
        /\ \A k \in Handlers \ {h} : handler'[k] = handler[k]
    BY <1>6, <1>t DEF Fetch, Break, Breaks, FailThrows, At, Go, TypeOK, Handler
  <2>3. Owns(h)'
    BY <2>1, <2>2, <1>t, <1>l DEF HandlersOwn, Owns, Running, Working
  <2>4. \A k \in Handlers \ {h} : Owns(k)'
    BY <2>1, <2>2, <1>t, <1>l DEF HandlersOwn, Owns, Running
  <2>5. HandlersOwn'
    BY <2>3, <2>4 DEF HandlersOwn
  <2> QED
    BY <2>1, <2>2, <2>5, QuietStep
<1>7. ASSUME NEW h \in Handlers, Stage(h) \/ Automate(h) \/ AutoPublish(h) PROVE Owned'
  <2>1. PICK to \in {"automate", "publish", "complete"}, reached \in BatchStage :
          /\ handler[h] # None /\ handler[h].stage \in Working
          /\ handler' = [handler EXCEPT ![h].stage = to]
          /\ batch' = [batch EXCEPT ![handler[h].run] = reached]
          /\ to = "complete" => reached = "PUBLISHED"
          /\ UNCHANGED <<run, lock>>
    BY <1>7 DEF Stage, Automate, AutoPublish, Work, At, Go, Working, BatchStage
  <2>2. handler[h].run \in Runs /\ run[handler[h].run] = "RUNNING"
    BY <2>1, <1>t, <1>l DEF HandlersOwn, Owns, TypeOK, Handler
  <2>3. /\ handler'[h].stage = to /\ handler'[h].run = handler[h].run
        /\ \A k \in Handlers \ {h} : handler'[k] = handler[k]
    BY <2>1, <1>t DEF TypeOK, Handler
  <2>4. batch'[handler[h].run] = reached /\ \A r \in Runs : r # handler[h].run => batch'[r] = batch[r]
    BY <2>1, <2>2, <1>t DEF TypeOK
  <2>5. \A k \in Handlers \ {h} :
          handler[k] # None /\ handler[k].run # None =>
            handler[k].run # handler[h].run /\ handler[k].run \in Runs
    BY <2>1, <1>t DEF Inv, OneOwner, TypeOK, Handler
  <2>6. Owns(h)'
    BY <2>1, <2>2, <2>3, <2>4, <1>t, <1>l DEF HandlersOwn, Owns, Running, Working
  <2>7. \A k \in Handlers \ {h} : Owns(k)'
    BY <2>1, <2>3, <2>4, <2>5, <1>t, <1>l DEF HandlersOwn, Owns, Running, Working
  <2>8. OneOwner' /\ OneRunAtATime'
    BY <2>1, <2>3 DEF OneOwner, OneRunAtATime, Running, Inv
  <2>9. SuccessIsPublished'
    BY <2>1, <2>2, <2>4 DEF SuccessIsPublished, Inv
  <2> QED
    BY <2>6, <2>7, <2>8, <2>9 DEF Owned, HandlersOwn
<1>8. ASSUME NEW h \in Handlers, Complete(h) \/ CompleteThrows(h) \/ Fail(h) PROVE Owned'
  <2>1. PICK to \in {"return", "fail", "throw"}, status \in RunStatus \cup {None} :
          /\ handler[h] # None /\ handler[h].stage \in {"complete", "fail"}
          /\ handler' = [handler EXCEPT ![h].stage = to]
          /\ run' = [run EXCEPT ![handler[h].run] = status]
          /\ status = run[handler[h].run] \/ status \in Outcomes
          /\ status \in {"SUCCEEDED", "PARTIAL"} =>
               status = run[handler[h].run] \/ handler[h].stage = "complete"
          /\ to = "fail" => losses
          /\ UNCHANGED <<batch, lock>>
    <3>1. handler[h] # None /\ handler[h].run \in Runs
      BY <1>8, <1>t DEF Complete, CompleteThrows, Fail, At, HandlersOwn, Owns, TypeOK, Handler, Working
    <3>2. CASE Complete(h)
      BY <3>2, <1>t DEF Complete, AfterComplete, At, Go, Recorded, RunStatus, Outcomes
    <3>3. CASE CompleteThrows(h) /\ UNCHANGED run
      <4>1. run = [run EXCEPT ![handler[h].run] = run[handler[h].run]]
        BY <3>1, <1>t DEF TypeOK
      <4>2. run[handler[h].run] \in RunStatus \cup {None}
        BY <3>1, <1>t DEF TypeOK
      <4> QED
        BY <3>3, <4>1, <4>2 DEF CompleteThrows, At, Go
    <3>4. CASE CompleteThrows(h) /\ run' = [run EXCEPT ![handler[h].run] = Recorded(h)]
      BY <3>4, <1>t DEF CompleteThrows, At, Go, Recorded, RunStatus, Outcomes
    <3>5. CASE Fail(h)
      BY <3>5, <1>t DEF Fail, AfterFail, At, Go, RunStatus, Outcomes
    <3> QED
      BY <1>8, <3>2, <3>3, <3>4, <3>5 DEF CompleteThrows
  <2>2. /\ handler[h].run \in Runs /\ run[handler[h].run] # None
        /\ handler[h].stage = "complete" => batch[handler[h].run] = "PUBLISHED"
    BY <2>1, <1>t, <1>l DEF HandlersOwn, Owns, TypeOK, Handler, Working
  <2>3. /\ handler'[h].stage = to /\ handler'[h].run = handler[h].run
        /\ \A k \in Handlers \ {h} : handler'[k] = handler[k]
    BY <2>1, <1>t DEF TypeOK, Handler
  <2>4. run'[handler[h].run] = status /\ \A r \in Runs : r # handler[h].run => run'[r] = run[r]
    BY <2>1, <2>2, <1>t DEF TypeOK
  <2>5. status # None
    BY <2>1, <2>2, SyncAssumption DEF Outcomes
  <2>6. Running' \subseteq Running
    BY <2>1, <2>2, <2>4 DEF Running, Outcomes
  <2>7. \A k \in Handlers \ {h} :
          handler[k] # None /\ handler[k].run # None =>
            handler[k].run # handler[h].run /\ handler[k].run \in Runs
    BY <2>1, <2>2, <1>t, SyncAssumption DEF Inv, OneOwner, TypeOK, Handler
  <2>8. Owns(h)'
    BY <2>1, <2>2, <2>3, <2>4, <2>5, SyncAssumption, <1>l DEF Owns, Working
  <2>9. \A k \in Handlers \ {h} : Owns(k)'
    BY <2>1, <2>3, <2>4, <2>6, <2>7, <1>t, <1>l DEF HandlersOwn, Owns, Working
  <2>10. OneOwner' /\ OneRunAtATime'
    BY <2>1, <2>3, <2>6 DEF OneOwner, OneRunAtATime, Inv
  <2>11. SuccessIsPublished'
    BY <2>1, <2>2, <2>4 DEF SuccessIsPublished, Inv
  <2> QED
    BY <2>8, <2>9, <2>10, <2>11 DEF Owned, HandlersOwn
<1>9. ASSUME NEW h \in Handlers, Return(h) \/ Throw(h) \/ Crash(h) PROVE Owned'
  <2>1. /\ UNCHANGED <<run, batch>>
        /\ handler'[h] = None /\ \A k \in Handlers \ {h} : handler'[k] = handler[k]
        /\ lock' = lock \/ lock = h
    BY <1>9, <1>t DEF Return, Throw, Crash, TypeOK, ledger
  <2>2. HandlersOwn'
    BY <2>1, <1>t, <1>l DEF HandlersOwn, Owns, Running
  <2>3. \A k \in Handlers : handler'[k] = None
                            \/ (handler[k] # None /\ handler'[k].run = handler[k].run)
    BY <2>1
  <2> QED
    BY <2>1, <2>2, <2>3, QuietStep
<1> QED
  BY <1>1, <1>2, <1>3, <1>4, <1>5, <1>6, <1>7, <1>8, <1>9 DEF Next, Progress
-----------------------------------------------------------------------------
\* A job is retried at most RetryLimit times, and an active one has a worker.
LEMMA JobStep == Inv /\ [Next]_vars => JobIsBounded'
<1> SUFFICES ASSUME Inv, [Next]_vars PROVE JobIsBounded'
  OBVIOUS
<1>1. ASSUME NEW r, job # None, Retried(r) PROVE JobIsBounded'
  BY <1>1 DEF Retried, Retryable, JobIsBounded, Inv, TypeOK, Job
<1>2. CASE Fire
  BY <1>2, SyncAssumption DEF Fire, JobIsBounded
<1>3. CASE Expire
  BY <1>1, <1>3 DEF Expire
<1>4. ASSUME NEW h \in Handlers, Deliver(h) PROVE JobIsBounded'
  BY <1>4, SyncAssumption DEF Deliver, JobIsBounded
<1>5. ASSUME NEW h \in Handlers, Return(h) PROVE JobIsBounded'
  BY <1>5 DEF Return, JobIsBounded, Inv
<1>6. ASSUME NEW h \in Handlers, Throw(h) PROVE JobIsBounded'
  BY <1>1, <1>6 DEF Throw, Mine, JobIsBounded, Inv
<1>7. CASE UNCHANGED job
  BY <1>7 DEF JobIsBounded, Inv
<1> QED
  BY <1>2, <1>3, <1>4, <1>5, <1>6, <1>7 DEF Next, Progress, ChangeConnection, Schedule,
     Unschedule, Request, LockSource, FindNoRun, RefuseBegin, CreateRun, Fetch, Stage, Automate,
     AutoPublish, Work, Break, Complete, CompleteThrows, Fail, FailThrows, Crash, queue, vars

-----------------------------------------------------------------------------
LEMMA Invariance == Spec => []Inv
<1>1. Inv /\ [Next]_vars => Inv'
  BY TypeStep, OwnedStep, JobStep DEF Inv, Owned
<1> QED
  BY InitInv, <1>1, PTL DEF Spec

\* The ledger, the queue and the handlers keep their types: in particular no
\* job is attempted more often than the queue allows.
THEOREM TypeCorrect == Spec => []TypeOK
BY Invariance, PTL DEF Inv

\* Begin locks the source row and looks for a RUNNING run before it creates one,
\* so a source never has two, whoever begins, dies or is retried.
THEOREM OneRun == Spec => []OneRunAtATime
BY Invariance, PTL DEF Inv

\* At most one handler of a source is at work, and its run is open: an expired
\* delivery that lives on keeps its own retry out.
THEOREM OneWorker == Spec => []OneSyncAtWork
<1>1. Inv => OneSyncAtWork
  <2> SUFFICES ASSUME Inv, NEW h \in Handlers, NEW k \in Handlers,
                      handler[h] # None, handler[k] # None,
                      handler[h].stage \in Working, handler[k].stage \in Working
               PROVE  h = k /\ run[handler[h].run] = "RUNNING"
    BY DEF OneSyncAtWork
  <2>1. /\ run[handler[h].run] = "RUNNING" /\ handler[h].run \in Runs
        /\ run[handler[k].run] = "RUNNING" /\ handler[k].run \in Runs
    BY DEF Inv, HandlersOwn, Owns, TypeOK, Handler
  <2>2. handler[h].run = handler[k].run
    BY <2>1 DEF Inv, OneRunAtATime, Running
  <2> QED
    BY <2>1, <2>2, SyncAssumption DEF Inv, OneOwner
<1> QED
  BY Invariance, <1>1, PTL

\* No run is on record as a success whose batch was not published, even when
\* answers of the ledger are lost.
THEOREM SuccessStands == Spec => []SuccessIsPublished
BY Invariance, PTL DEF Inv

\* Unless answers are lost, the outcome of a run is written once: a handler only
\* writes to its own run, and only while that run is open.
THEOREM OutcomesStand == Spec => OutcomesAreFinal
<1>1. ASSUME Inv, ~losses, [Next]_vars, NEW r \in Runs, run[r] \in Outcomes
      PROVE  run'[r] = run[r]
  <2>1. run[r] # "RUNNING" /\ run[r] # None
    BY <1>1, SyncAssumption DEF Outcomes
  <2>2. CASE UNCHANGED run
    BY <2>2
  <2>3. ASSUME NEW h \in Handlers, CreateRun(h) PROVE run'[r] = run[r]
    <3>1. NewId \in Runs /\ run[NewId] = None
      BY <2>3 DEF CreateRun, NewId, Unused
    <3> QED
      BY <2>1, <2>3, <3>1 DEF CreateRun
  <2>4. ASSUME NEW h \in Handlers, Complete(h) \/ CompleteThrows(h) \/ Fail(h)
        PROVE  run'[r] = run[r]
    <3>1. run[handler[h].run] = "RUNNING" /\ handler[h].run \in Runs
      BY <1>1, <2>4 DEF Complete, CompleteThrows, Fail, At, Inv, HandlersOwn, Owns, TypeOK, Handler, Working
    <3> QED
      BY <1>1, <2>1, <2>4, <3>1 DEF Complete, CompleteThrows, Fail, Inv, TypeOK
  <2> QED
    BY <1>1, <2>2, <2>3, <2>4 DEF Next, Progress, ChangeConnection, Schedule, Unschedule, Fire,
       Expire, Deliver, Request, LockSource, FindNoRun, RefuseBegin, Fetch, Stage, Automate,
       AutoPublish, Work, Break, FailThrows, Return, Throw, Crash, ledger, vars
<1>2. Inv /\ [Next]_vars => [~losses => \A r \in Runs : run[r] \in Outcomes => run'[r] = run[r]]_vars
  BY <1>1
<1> QED
  BY Invariance, <1>2, PTL DEF Spec, OutcomesAreFinal
-----------------------------------------------------------------------------
(* What pg-boss reports of a job.                                           *)

\* A handler that returns has its success on record.
ReturnsSucceeded ==
  \A h \in Handlers :
    handler[h] # None /\ handler[h].stage = "return" =>
      run[handler[h].run] \in {"SUCCEEDED", "PARTIAL"}

\* The run of a completed job is closed for good: no handler holds it any more.
CompletedIsReleased ==
  settled.outcome = "completed" =>
    \A h \in Handlers : handler[h] # None => handler[h].run # settled.run

Reported == ReturnsSucceeded /\ CompletedJobsSynced /\ CompletedIsReleased

LEMMA InitReported == Init => Reported
<1> SUFFICES ASSUME Init PROVE Reported
  OBVIOUS
<1>1. \A h \in Handlers : handler[h] = None
  BY DEF Init
<1>2. settled.outcome # "completed"
  BY SyncAssumption DEF Init
<1> QED
  BY <1>1, <1>2 DEF Reported, ReturnsSucceeded, CompletedJobsSynced, CompletedIsReleased

\* A step that writes no run and settles no job as completed, and in which a
\* handler neither starts to return nor takes over a run.
LEMMA QuietReport ==
  ASSUME Inv, Reported, run' = run,
         settled' = settled \/ settled'.outcome = "failed",
         \A h \in Handlers :
           \/ handler'[h] = None
           \/ handler'[h].stage = "begin" /\ handler'[h].run = None
           \/ /\ handler[h] # None /\ handler'[h].run = handler[h].run
              /\ handler'[h].stage = "return" => handler[h].stage = "return"
  PROVE  Reported'
<1>1. ReturnsSucceeded'
  BY DEF Reported, ReturnsSucceeded
<1>2. CompletedJobsSynced'
  BY DEF Reported, CompletedJobsSynced
<1>3. CompletedIsReleased'
  BY SyncAssumption DEF Reported, CompletedIsReleased, CompletedJobsSynced
<1> QED
  BY <1>1, <1>2, <1>3 DEF Reported

LEMMA ReportedStep == Inv /\ Reported /\ [Next]_vars => Reported'
<1> SUFFICES ASSUME Inv, Reported, [Next]_vars PROVE Reported'
  OBVIOUS
<1>t. TypeOK /\ HandlersOwn
  BY DEF Inv
<1>1. CASE ChangeConnection \/ Schedule \/ Unschedule \/ Fire \/ UNCHANGED vars
  <2>1. UNCHANGED <<run, handler, settled>>
    BY <1>1 DEF ChangeConnection, Schedule, Unschedule, Fire, ledger, queue, vars
  <2> QED
    BY <2>1, QuietReport
<1>2. CASE Expire
  <2>1. run' = run /\ (settled' = settled \/ settled'.outcome = "failed")
    BY <1>2 DEF Expire, Retried, ledger
  <2>2. \A h \in Handlers : \/ handler'[h] = handler[h]
                            \/ /\ handler[h] # None
                               /\ handler'[h].run = handler[h].run
                               /\ handler'[h].stage = handler[h].stage
    BY <1>2, <1>t DEF Expire, TypeOK, Handler
  <2> QED
    BY <2>1, <2>2, QuietReport
<1>3. ASSUME NEW h \in Handlers, Deliver(h) \/ Request(h) PROVE Reported'
  <2>1. run' = run /\ settled' = settled
    BY <1>3 DEF Deliver, Request, ledger
  <2>2. \A k \in Handlers : \/ handler'[k] = handler[k]
                            \/ handler'[k].run = None /\ handler'[k].stage = "begin"
    BY <1>3, <1>t DEF Deliver, Request, Start, TypeOK
  <2> QED
    BY <2>1, <2>2, QuietReport
<1>4. ASSUME NEW h \in Handlers,
             \/ LockSource(h) \/ FindNoRun(h) \/ RefuseBegin(h)
             \/ \E partial \in BOOLEAN : Fetch(h, partial)
             \/ Stage(h) \/ Automate(h) \/ AutoPublish(h) \/ Break(h) \/ FailThrows(h)
      PROVE  Reported'
  <2>1. run' = run /\ settled' = settled /\ handler[h] # None
    BY <1>4 DEF LockSource, FindNoRun, RefuseBegin, Fetch, Stage, Automate, AutoPublish, Work,
       Break, FailThrows, At, ledger, queue
  <2>2. /\ handler'[h].run = handler[h].run /\ handler'[h].stage # "return"
        /\ \A k \in Handlers \ {h} : handler'[k] = handler[k]
    <3>1. CASE \E partial \in BOOLEAN : Fetch(h, partial)
      BY <3>1, <1>t DEF Fetch, At, TypeOK, Handler
    <3>2. CASE ~\E partial \in BOOLEAN : Fetch(h, partial)
      <4>1. PICK stage \in Stages \ {"return"} : Go(h, stage)
        BY <3>2, <1>4 DEF LockSource, FindNoRun, RefuseBegin, Stage, Automate, AutoPublish, Work,
           Break, Breaks, FailThrows, Stages
      <4> QED
        BY <4>1, <2>1, <1>t DEF Go, TypeOK, Handler
    <3> QED
      BY <3>1, <3>2
  <2> QED
    BY <2>1, <2>2, QuietReport
<1>5. ASSUME NEW h \in Handlers, CreateRun(h) PROVE Reported'
  <2>1. NewId \in Runs /\ run[NewId] = None
    BY <1>5 DEF CreateRun, NewId, Unused
  <2>2. /\ handler' = [handler EXCEPT ![h] = [@ EXCEPT !.stage = "fetch", !.run = NewId]]
        /\ run' = [run EXCEPT ![NewId] = "RUNNING"]
        /\ settled' = settled /\ handler[h] # None
    BY <1>5 DEF CreateRun, At, queue
  <2> HIDE DEF NewId
  <2>3. /\ handler'[h].stage = "fetch" /\ handler'[h].run = NewId
        /\ \A k \in Handlers \ {h} : handler'[k] = handler[k]
    BY <2>2, <1>t DEF TypeOK, Handler
  <2>4. \A r \in Runs : r # NewId => run'[r] = run[r]
    BY <2>1, <2>2, <1>t DEF TypeOK
  <2>5. ReturnsSucceeded'
    <3> SUFFICES ASSUME NEW k \in Handlers, handler'[k] # None, handler'[k].stage = "return"
                 PROVE  run'[handler'[k].run] \in {"SUCCEEDED", "PARTIAL"}
      BY DEF ReturnsSucceeded
    <3>1. k # h /\ handler'[k] = handler[k]
      BY <2>3
    <3>2. handler[k].run \in Runs /\ run[handler[k].run] \in {"SUCCEEDED", "PARTIAL"}
      BY <3>1, <1>t DEF Reported, ReturnsSucceeded, HandlersOwn, Owns, TypeOK, Handler, Working
    <3> QED
      BY <2>1, <2>4, <3>1, <3>2, SyncAssumption
  <2>6. settled.outcome = "completed" => settled.run # NewId /\ settled.run \in Runs
    BY <2>1, <1>t, SyncAssumption DEF Reported, CompletedJobsSynced, TypeOK
  <2>7. CompletedJobsSynced'
    BY <2>2, <2>4, <2>6 DEF Reported, CompletedJobsSynced
  <2>8. CompletedIsReleased'
    BY <2>2, <2>3, <2>6 DEF Reported, CompletedIsReleased
  <2> QED
    BY <2>5, <2>7, <2>8 DEF Reported
<1>6. ASSUME NEW h \in Handlers, Complete(h) \/ CompleteThrows(h) \/ Fail(h) PROVE Reported'
  <2>1. /\ handler[h] # None /\ handler[h].run \in Runs /\ settled' = settled
        /\ \A r \in Runs : r # handler[h].run => run'[r] = run[r]
    BY <1>6, <1>t DEF Complete, CompleteThrows, Fail, At, HandlersOwn, Owns, TypeOK, Handler,
       Working, queue
  <2>2. /\ handler'[h].run = handler[h].run
        /\ handler'[h].stage = "return" => run'[handler[h].run] \in {"SUCCEEDED", "PARTIAL"}
        /\ \A k \in Handlers \ {h} : handler'[k] = handler[k]
    BY <1>6, <2>1, <1>t DEF Complete, AfterComplete, CompleteThrows, Fail, AfterFail, Recorded, Go, At,
       TypeOK, Handler
  <2>3. ReturnsSucceeded'
    <3> SUFFICES ASSUME NEW k \in Handlers, handler'[k] # None, handler'[k].stage = "return", k # h
                 PROVE  run'[handler'[k].run] \in {"SUCCEEDED", "PARTIAL"}
      BY <2>2 DEF ReturnsSucceeded
    <3>1. /\ handler'[k] = handler[k] /\ handler[k].run \in Runs
          /\ run[handler[k].run] \in {"SUCCEEDED", "PARTIAL"}
      BY <2>2, <1>t DEF Reported, ReturnsSucceeded, HandlersOwn, Owns, TypeOK, Handler, Working
    <3>2. handler[k].run # handler[h].run
      BY <2>1, <3>1, SyncAssumption DEF Inv, OneOwner
    <3> QED
      BY <2>1, <3>1, <3>2
  <2>4. CompletedJobsSynced'
    BY <2>1, <1>t DEF Reported, CompletedJobsSynced, CompletedIsReleased, TypeOK
  <2>5. CompletedIsReleased'
    BY <2>1, <2>2 DEF Reported, CompletedIsReleased
  <2> QED
    BY <2>3, <2>4, <2>5 DEF Reported
<1>7. ASSUME NEW h \in Handlers, Return(h) PROVE Reported'
  <2>1. /\ run' = run /\ handler[h] # None /\ handler[h].run \in Runs
        /\ run[handler[h].run] \in {"SUCCEEDED", "PARTIAL"}
        /\ handler'[h] = None /\ \A k \in Handlers \ {h} : handler'[k] = handler[k]
        /\ settled' = settled \/ settled' = [outcome |-> "completed", run |-> handler[h].run]
    BY <1>7, <1>t DEF Return, At, ledger, Reported, ReturnsSucceeded, HandlersOwn, Owns, TypeOK,
       Handler
  <2>2. CASE settled' = settled
    BY <2>1, <2>2, QuietReport
  <2>3. CASE settled' = [outcome |-> "completed", run |-> handler[h].run]
    <3>1. ReturnsSucceeded' /\ CompletedJobsSynced'
      BY <2>1, <2>3, SyncAssumption DEF Reported, ReturnsSucceeded, CompletedJobsSynced
    <3>2. CompletedIsReleased'
      BY <2>1, <2>3, SyncAssumption DEF CompletedIsReleased, Inv, OneOwner
    <3> QED
      BY <3>1, <3>2 DEF Reported
  <2> QED
    BY <2>1, <2>2, <2>3
<1>8. ASSUME NEW h \in Handlers, Throw(h) \/ Crash(h) PROVE Reported'
  <2>1. /\ run' = run /\ (settled' = settled \/ settled'.outcome = "failed")
        /\ handler'[h] = None /\ \A k \in Handlers \ {h} : handler'[k] = handler[k]
    BY <1>8, <1>t DEF Throw, Retried, Crash, TypeOK, ledger, queue
  <2> QED
    BY <2>1, QuietReport
<1> QED
  BY <1>1, <1>2, <1>3, <1>4, <1>5, <1>6, <1>7, <1>8 DEF Next, Progress

\* A job pg-boss reports as completed has its run on record as a success, and no
\* later handler can take that back: it holds another run, or none.
THEOREM CompletionStands == Spec => []CompletedJobsSynced
<1>1. Inv /\ Reported /\ [Next]_vars => Reported'
  BY ReportedStep
<1> QED
  BY Invariance, InitReported, <1>1, PTL DEF Spec, Reported
=============================================================================
