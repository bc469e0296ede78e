-------------------------- MODULE MediaTasksProofs --------------------------
(***************************************************************************)
(* What holds of MediaTasks whatever happens to it, for every value of its *)
(* constants: the types of its variables; that no task is forgotten by the *)
(* queues - the stranded tasks are never more than the lost jobs and the   *)
(* stopped handlers, handlers acting on the same task at the same time     *)
(* included; and what the recovery of the application leaves behind.       *)
(***************************************************************************)
EXTENDS MediaTasks, FiniteSetTheorems, TLAPS

USE DEF Queues, Faults

(* What schedule_retry makes of a row is a status and a count in range. *)
LEMMA RetryInRange ==
  ASSUME NEW n \in Counts
  PROVE  Verdict(n) \in Statuses /\ Recount(n) \in Counts
BY BoundsAssumption DEF Verdict, Statuses, Recount, Exhausted, Counts

LEMMA ZeroInRange == 0 \in Counts
BY BoundsAssumption DEF Counts

-----------------------------------------------------------------------------
(* Type correctness *)

LEMMA TypeInit == Init => TypeOK
BY TasksAssumption, ZeroInRange
   DEF Init, TypeOK, RowTypes, JobTypes, WorkerTypes, RequestTypes, AppTypes,
       Statuses, WorkerPcs, RequestPcs

(* A worker that ends its job, or goes on to another point of it, keeps the
   types of the worker variables. *)
LEMMA WorkerRestTypes ==
  ASSUME WorkerTypes, NEW w \in Workers, WorkerRest(w)
  PROVE  WorkerTypes'
BY TasksAssumption, ZeroInRange DEF WorkerTypes, WorkerRest, WorkerPcs, Statuses

LEMMA WorkerGoesTypes ==
  ASSUME WorkerTypes, NEW w \in Workers, NEW from, NEW to \in WorkerPcs \ {"idle"},
         WorkerGoes(w, from, to), wpc[w] # "idle"
  PROVE  WorkerTypes'
BY DEF WorkerTypes, WorkerGoes

LEMMA BusyHasTask ==
  ASSUME WorkerTypes, NEW w \in Workers, wpc[w] # "idle"
  PROVE  wtask[w] \in Tasks
BY DEF WorkerTypes

LEMMA RequestRestTypes ==
  ASSUME RequestTypes, NEW r \in Requests, RequestRest(r)
  PROVE  RequestTypes'
BY ZeroInRange DEF RequestTypes, RequestRest, RequestPcs

LEMMA RequestGoesTypes ==
  ASSUME RequestTypes, NEW r \in Requests, NEW to \in RequestPcs \ {"retry"},
         RequestGoes(r, to)
  PROVE  RequestTypes'
BY DEF RequestTypes, RequestGoes

LEMMA RequestStartsTypes ==
  ASSUME RequestTypes, NEW r \in Requests, NEW S \in SUBSET Tasks,
         NEW to \in RequestPcs \ {"retry"}, RequestStarts(r, S, to), UNCHANGED rcopy
  PROVE  RequestTypes'
BY DEF RequestTypes, RequestStarts

LEMMA EnqueuedHomeTypes ==
  ASSUME JobTypes, NEW S, queued' = EnqueuedHome(S), UNCHANGED scheduled
  PROVE  JobTypes'
BY DEF JobTypes, EnqueuedHome

LEMMA ScheduledRetryTypes ==
  ASSUME JobTypes, NEW S, NEW n, scheduled' = ScheduledRetry(S, n), UNCHANGED queued
  PROVE  JobTypes'
BY DEF JobTypes, ScheduledRetry

LEMMA TypeWorker ==
  ASSUME TypeOK, NEW w \in Workers, WorkerStep(w)
  PROVE  TypeOK'
<1> USE DEF taskVars, jobVars, workerVars, requestVars, appVars
<1> DEFINE t == wtask[w]
<1>a. RequestTypes' /\ AppTypes'
  BY DEF TypeOK, RequestTypes, AppTypes, WorkerStep, Pop, Load, CommitStart, DownloadLands,
         CommitCompleted, DownloadFails, ReloadAndSchedule, CommitRetry, NotifyDone
<1>b. wpc[w] # "idle" => t \in Tasks BY BusyHasTask DEF TypeOK
<1> USE DEF TypeOK
<1>1. CASE Pop(w)
  <2>1. RowTypes' BY <1>1 DEF Pop, RowTypes
  <2>2. JobTypes' BY <1>1, ListensAssumption DEF Pop, JobTypes
  <2>3. WorkerTypes'
    BY <1>1, TasksAssumption DEF Pop, WorkerTypes, WorkerPcs
  <2> QED BY <1>a, <2>1, <2>2, <2>3
<1>2. CASE Load(w)
  <2>1. RowTypes' /\ JobTypes' BY <1>2 DEF Load, RowTypes, JobTypes
  <2>2. WorkerTypes'
    BY <1>2, WorkerRestTypes, WorkerGoesTypes DEF Load, WorkerPcs
  <2> QED BY <1>a, <2>1, <2>2
<1>3. CASE CommitStart(w)
  <2>1. JobTypes' BY <1>3 DEF CommitStart, JobTypes
  <2>2. RowTypes' BY <1>b, <1>3 DEF CommitStart, RowTypes, Statuses
  <2>3. WorkerTypes'
    BY <1>3, WorkerRestTypes, WorkerGoesTypes DEF CommitStart, WorkerPcs
  <2> QED BY <1>a, <2>1, <2>2, <2>3
<1>4. CASE DownloadLands(w)
  <2>1. RowTypes' /\ JobTypes' BY <1>4 DEF DownloadLands, RowTypes, JobTypes
  <2>2. WorkerTypes' BY <1>4, WorkerGoesTypes DEF DownloadLands, WorkerGoes, WorkerPcs
  <2> QED BY <1>a, <2>1, <2>2
<1>5. CASE CommitCompleted(w)
  <2>1. RowTypes' /\ JobTypes'
    BY <1>5 DEF CommitCompleted, RowTypes, JobTypes, Statuses
  <2>2. WorkerTypes' BY <1>5, WorkerGoesTypes DEF CommitCompleted, WorkerGoes, WorkerPcs
  <2> QED BY <1>a, <2>1, <2>2
<1>6. CASE DownloadFails(w)
  <2>1. RowTypes' /\ JobTypes' BY <1>6 DEF DownloadFails, RowTypes, JobTypes
  <2>2. WorkerTypes' BY <1>6, WorkerGoesTypes DEF DownloadFails, MayRaise, WorkerPcs
  <2> QED BY <1>a, <2>1, <2>2
<1>7. CASE ReloadAndSchedule(w)
  <2>1. RowTypes' BY <1>7 DEF ReloadAndSchedule, RowTypes
  <2>2. JobTypes'
    BY <1>7, ScheduledRetryTypes DEF ReloadAndSchedule, JobTypes
  <2>3. CASE ~HasRow(t) BY <1>7, <1>a, <2>1, <2>2, <2>3, WorkerRestTypes DEF ReloadAndSchedule
  <2>4. CASE HasRow(t)
    <3>1. retries[t] \in Counts /\ status[t] \in Statuses
      BY <1>7, <1>b, <2>4 DEF ReloadAndSchedule, RowTypes, HasRow
    <3>2. WorkerTypes'
      BY <1>7, <2>4, <3>1 DEF ReloadAndSchedule, WorkerTypes, WorkerPcs
    <3> QED BY <1>a, <2>1, <2>2, <3>2
  <2> QED BY <2>3, <2>4
<1>8. CASE CommitRetry(w)
  <2>1. JobTypes' BY <1>8 DEF CommitRetry, JobTypes
  <2>2. WorkerTypes'
    BY <1>8, WorkerRestTypes, WorkerGoesTypes DEF CommitRetry, WorkerPcs
  <2>3. wn[w] \in Counts BY DEF WorkerTypes
  <2>4. RowTypes' BY <1>8, <2>3, RetryInRange DEF CommitRetry, RowTypes
  <2> QED BY <1>a, <2>1, <2>2, <2>4
<1>9. CASE NotifyDone(w)
  <2>1. RowTypes' /\ JobTypes' BY <1>9 DEF NotifyDone, RowTypes, JobTypes
  <2> QED BY <1>9, <1>a, <2>1, WorkerRestTypes DEF NotifyDone
<1> QED BY <1>1, <1>2, <1>3, <1>4, <1>5, <1>6, <1>7, <1>8, <1>9 DEF WorkerStep

LEMMA TypeRequestStep ==
  ASSUME TypeOK, NEW r \in Requests, RequestStep(r)
  PROVE  TypeOK'
<1> USE DEF taskVars, jobVars, workerVars, requestVars, appVars
<1>a. WorkerTypes' /\ AppTypes'
  BY DEF TypeOK, WorkerTypes, AppTypes, RequestStep, Insert, Enqueue, RetryCommit,
         DeleteCancel, Purge, Erase, RevalCommit
<1>b. RequestTypes'
  BY RequestRestTypes, RequestGoesTypes
  DEF TypeOK, RequestStep, Insert, Enqueue, RetryCommit, DeleteCancel, Purge, Erase,
      RevalCommit, RequestPcs
<1>c. rcopy[r] \in [Tasks -> Counts] BY DEF TypeOK, RequestTypes
<1>d. JobTypes'
  <2>1. CASE Enqueue(r) BY <2>1, EnqueuedHomeTypes DEF TypeOK, Enqueue, JobTypes
  <2>2. CASE Purge(r) BY <2>2 DEF TypeOK, Purge, JobTypes
  <2>3. CASE ~Enqueue(r) /\ ~Purge(r)
    BY <2>3 DEF TypeOK, JobTypes, RequestStep, Insert, RetryCommit, DeleteCancel, Erase,
                RevalCommit
  <2> QED BY <2>1, <2>2, <2>3
<1>e. RowTypes'
  <2>1. CASE RetryCommit(r)
    <3>1. \A t \in rset[r] : rcopy[r][t] + 1 \in Counts
      BY <2>1, <1>c, BoundsAssumption DEF TypeOK, RequestTypes, RetryCommit, ManualCount, Counts
    <3> QED BY <2>1, <3>1 DEF TypeOK, RowTypes, RetryCommit, ManualCount, Statuses
  <2>2. CASE RevalCommit(r)
    BY <2>2, <1>c, RetryInRange DEF TypeOK, RowTypes, RevalCommit
  <2>3. CASE ~RetryCommit(r) /\ ~RevalCommit(r)
    BY <2>3 DEF TypeOK, RowTypes, Statuses, RequestStep, Insert, Enqueue, DeleteCancel,
                Purge, Erase
  <2> QED BY <2>1, <2>2, <2>3
<1> QED BY <1>a, <1>b, <1>d, <1>e DEF TypeOK

LEMMA TypeRequestStart ==
  ASSUME TypeOK, NEW r \in Requests, RequestStart(r)
  PROVE  TypeOK'
<1> USE DEF TypeOK, taskVars, jobVars, workerVars, requestVars, appVars
<1>1. ASSUME NEW t \in Tasks, CreateTg(r, t) PROVE TypeOK'
  BY <1>1, RequestStartsTypes
  DEF CreateTg, RowTypes, JobTypes, WorkerTypes, AppTypes, Statuses, RequestPcs
<1>2. ASSUME NEW t \in Tasks, CheckDuplicate(r, t) PROVE TypeOK'
  BY <1>2, RequestStartsTypes
  DEF CheckDuplicate, RowTypes, JobTypes, WorkerTypes, AppTypes, RequestPcs
<1>3. ASSUME NEW t \in Tasks, RetryLoad(r, t) PROVE TypeOK'
  <2>1. retries[t] \in Counts BY <1>3 DEF RowTypes
  <2>2. RequestTypes'
    BY <1>3, <2>1 DEF RetryLoad, RequestTypes, RequestStarts, RequestPcs
  <2> QED BY <1>3, <2>2 DEF RetryLoad, RowTypes, JobTypes, WorkerTypes, AppTypes
<1>4. ASSUME NEW t \in Tasks, DeleteLoad(r, t) PROVE TypeOK'
  BY <1>4, RequestStartsTypes
  DEF DeleteLoad, RowTypes, JobTypes, WorkerTypes, AppTypes, RequestPcs
<1>5. CASE RevalScan(r)
  <2>1. Invalid \subseteq Tasks BY DEF Invalid
  <2>2. RequestTypes'
    BY <1>5, <2>1, ZeroInRange
    DEF RevalScan, RequestTypes, RequestStarts, RequestPcs, RowTypes
  <2>3. JobTypes' BY <1>5, ScheduledRetryTypes DEF RevalScan
  <2> QED BY <1>5, <2>2, <2>3 DEF RevalScan, RowTypes, WorkerTypes, AppTypes
<1> QED BY <1>1, <1>2, <1>3, <1>4, <1>5 DEF RequestStart

LEMMA TypeRest ==
  ASSUME TypeOK, (\E t \in Tasks : Promote(t)) \/ Recovery \/ Fault
  PROVE  TypeOK'
<1> USE DEF TypeOK, taskVars, jobVars, workerVars, requestVars, appVars, Charge
<1>1. ASSUME NEW t \in Tasks, Promote(t) PROVE TypeOK'
  <2>1. JobTypes' BY <1>1 DEF Promote, Enqueued, JobTypes
  <2> QED BY <1>1, <2>1 DEF Promote, RowTypes, WorkerTypes, RequestTypes, AppTypes
<1>2. CASE Recovery
  <2>1. RowTypes' /\ WorkerTypes' /\ RequestTypes' /\ AppTypes'
    BY <1>2 DEF Recovery, RecoverInterrupted, RecoverCommit, RecoverPending, RowTypes,
                WorkerTypes, RequestTypes, AppTypes, Statuses
  <2>2. JobTypes'
    BY <1>2, EnqueuedHomeTypes
    DEF Recovery, RecoverInterrupted, RecoverCommit, RecoverPending, JobTypes
  <2> QED BY <2>1, <2>2
<1>3. CASE AppCrash
  <2>1. RowTypes' /\ JobTypes' /\ AppTypes' BY <1>3 DEF AppCrash, RowTypes, JobTypes, AppTypes
  <2>2. RequestTypes' BY <1>3, ZeroInRange DEF AppCrash, RequestTypes, RequestPcs
  <2>3. WorkerTypes' BY <1>3 DEF AppCrash, WorkerTypes
  <2> QED BY <2>1, <2>2, <2>3
<1>4. ASSUME NEW w \in Workers, JobLost(w) PROVE TypeOK'
  <2>1. wtask[w] \in Tasks BY <1>4, BusyHasTask DEF JobLost
  <2>2. AppTypes' BY <1>4, <2>1 DEF JobLost, AppTypes
  <2> QED BY <1>4, <2>2, WorkerRestTypes DEF JobLost, RowTypes, JobTypes, RequestTypes
<1>5. ASSUME NEW r \in Requests, AbortRequest(r) PROVE TypeOK'
  <2>1. rset[r] \subseteq Tasks BY DEF RequestTypes
  <2>2. AppTypes' BY <1>5, <2>1 DEF AbortRequest, AppTypes
  <2> QED BY <1>5, <2>2, RequestRestTypes DEF AbortRequest, RowTypes, JobTypes, WorkerTypes
<1>6. ASSUME NEW t \in Tasks, FileLost(t) PROVE TypeOK'
  BY <1>6 DEF FileLost, RowTypes, JobTypes, WorkerTypes, RequestTypes, AppTypes
<1> QED BY <1>1, <1>2, <1>3, <1>4, <1>5, <1>6 DEF Fault

(* The variables of the design hold values of their types, whatever handlers,
   workers, faults and restarts do; in particular a row's retry count stays
   within the automatic budget plus the manual retries. *)
THEOREM TypeCorrect == Spec => []TypeOK
<1>1. TypeOK /\ [Next]_vars => TypeOK'
  <2> SUFFICES ASSUME TypeOK, [Next]_vars PROVE TypeOK' OBVIOUS
  <2>1. CASE UNCHANGED vars
    BY <2>1 DEF TypeOK, RowTypes, JobTypes, WorkerTypes, RequestTypes, AppTypes, vars,
                taskVars, jobVars, workerVars, requestVars, appVars
  <2>2. CASE Next BY <2>2, TypeWorker, TypeRequestStep, TypeRequestStart, TypeRest DEF Next
  <2> QED BY <2>1, <2>2
<1> QED BY <1>1, TypeInit, PTL DEF Spec

-----------------------------------------------------------------------------
(* The queues forget no task *)

HIDE DEF Queues, Faults

(* What the argument needs of the deployment: a retry delay outlasts the
   commit it precedes, and tasks can be counted. *)
DelaysOutlast == BackoffOutlastsCommit /\ IsFiniteSet(Tasks)

(* A worker that will replace the status DOWNLOADING of its task.  One whose
   except clause loaded the status it is going to write will not: SQLAlchemy
   sees no difference. *)
Keeper(w, t) ==
  /\ wtask[w] = t
  /\ \/ wpc[w] \in {"downloading", "landed", "cleaned"}
     \/ wpc[w] = "requeued" /\ wseen[w] # Verdict(wn[w])

(* StrandedBound, made inductive: a downloading task needs a keeper. *)
Forgotten(t) ==
  /\ ~Leaving(t)
  /\ \/ status[t] \in Waiting /\ ~Carried(t)
     \/ status[t] = "downloading" /\ \A w \in Workers : ~Keeper(w, t)

Unkept == {t \in Tasks : Forgotten(t)}

(* A worker or handler about to write RETRYING has its job in the registry,
   and a handler that is not a revalidation acts on one task. *)
Backed ==
  /\ \A w \in Workers :
       wpc[w] = "requeued" /\ ~Exhausted(wn[w]) => scheduled[wtask[w]] > 0
  /\ \A r \in Requests : rpc[r] = "revalidate" =>
       \A t \in rset[r] : ~Exhausted(rcopy[r][t]) => scheduled[t] > 0
  /\ \A r \in Requests : rpc[r] \notin {"idle", "revalidate"} =>
       \E t \in Tasks : rset[r] = {t}

AppIsUp == app = "up"

Accounted ==
  /\ TypeOK /\ Backed /\ AppIsUp
  /\ Cardinality(Unkept) <= spent["job"] + spent["request"]

(* A restart enqueues tasks a second time, so the account ends with it. *)
AccountedUntilCrash == spent["app"] = 0 => Accounted

(* No task becomes forgotten in a step. *)
KeepsAll == \A t \in Tasks : Forgotten(t)' => Forgotten(t)

-----------------------------------------------------------------------------
(* Workers *)

(* A step of a worker that leaves the jobs alone forgets no task but its own. *)
LEMMA OthersKept ==
  ASSUME NEW w \in Workers, NEW t \in Tasks, t # wtask[w],
         status'[t] = status[t], wtask'[w] # t,
         \A v \in Workers : v # w => wpc'[v] = wpc[v] /\ wtask'[v] = wtask[v],
         \A v \in Workers : v # w => wn'[v] = wn[v] /\ wseen'[v] = wseen[v],
         UNCHANGED <<queued, scheduled, rpc, rset>>, Forgotten(t)'
  PROVE  Forgotten(t)
<1>1. Leaving(t) => Leaving(t)' BY DEF Leaving
<1>2. Carried(t) => Carried(t)' BY DEF Carried
<1>3. \A v \in Workers : Keeper(v, t) => Keeper(v, t)' BY DEF Keeper, Verdict, Exhausted
<1> QED BY <1>1, <1>2, <1>3 DEF Forgotten

LEMMA QueuePop ==
  ASSUME TypeOK, Backed, NEW w \in Workers, Pop(w)
  PROVE  Backed' /\ KeepsAll
<1> USE DEF TypeOK, WorkerTypes, taskVars, jobVars, requestVars, Pop
<1>1. Backed' BY TasksAssumption DEF Backed, RequestTypes, JobTypes
<1>2. ASSUME NEW t \in Tasks, Forgotten(t)' PROVE Forgotten(t)
  BY <1>2, TasksAssumption
  DEF Forgotten, Leaving, Carried, Keeper, Backed, RowTypes, JobTypes, Statuses, Waiting
<1> QED BY <1>1, <1>2 DEF KeepsAll

LEMMA QueueLoad ==
  ASSUME TypeOK, Backed, NEW w \in Workers, Load(w)
  PROVE  Backed' /\ KeepsAll
<1> USE DEF TypeOK, WorkerTypes, taskVars, jobVars, requestVars, Load, WorkerGoes, WorkerRest, Runnable, HasRow
<1>1. Backed' BY TasksAssumption DEF Backed, RequestTypes, JobTypes
<1>2. ASSUME NEW t \in Tasks, Forgotten(t)' PROVE Forgotten(t)
  BY <1>2, TasksAssumption
  DEF Forgotten, Leaving, Carried, Keeper, Backed, RowTypes, JobTypes, Statuses, Waiting
<1> QED BY <1>1, <1>2 DEF KeepsAll

LEMMA QueueCommitStart ==
  ASSUME TypeOK, Backed, NEW w \in Workers, CommitStart(w)
  PROVE  Backed' /\ KeepsAll
<1> USE DEF TypeOK, WorkerTypes, taskVars, jobVars, requestVars, CommitStart, WorkerGoes, WorkerRest, HasRow
<1>1. Backed' BY TasksAssumption DEF Backed, RequestTypes, JobTypes
<1>2. ASSUME NEW t \in Tasks, Forgotten(t)' PROVE Forgotten(t)
  <2>1. CASE t = wtask[w]
    BY <1>2, <2>1, TasksAssumption
    DEF Forgotten, Leaving, Carried, Keeper, Backed, RowTypes, JobTypes, Statuses, Waiting
  <2>2. CASE t # wtask[w]
    <3>1. /\ status'[t] = status[t] /\ wtask'[w] # t
          /\ UNCHANGED <<queued, scheduled, rpc, rset>>
      BY <2>2, TasksAssumption DEF RowTypes
    <3>2. \A v \in Workers : v # w =>
            wpc'[v] = wpc[v] /\ wtask'[v] = wtask[v] /\ wn'[v] = wn[v] /\ wseen'[v] = wseen[v]
      OBVIOUS
    <3> QED BY <1>2, <2>2, <3>1, <3>2, OthersKept
  <2> QED BY <2>1, <2>2
<1> QED BY <1>1, <1>2 DEF KeepsAll

LEMMA QueueDownloadLands ==
  ASSUME TypeOK, Backed, NEW w \in Workers, DownloadLands(w)
  PROVE  Backed' /\ KeepsAll
<1> USE DEF TypeOK, WorkerTypes, taskVars, jobVars, requestVars, DownloadLands, WorkerGoes
<1>1. Backed' BY TasksAssumption DEF Backed, RequestTypes, JobTypes
<1>2. ASSUME NEW t \in Tasks, Forgotten(t)' PROVE Forgotten(t)
  BY <1>2, TasksAssumption
  DEF Forgotten, Leaving, Carried, Keeper, Backed, RowTypes, JobTypes, Statuses, Waiting
<1> QED BY <1>1, <1>2 DEF KeepsAll

LEMMA QueueCommitCompleted ==
  ASSUME TypeOK, Backed, NEW w \in Workers, CommitCompleted(w)
  PROVE  Backed' /\ KeepsAll
<1> USE DEF TypeOK, WorkerTypes, taskVars, jobVars, requestVars, CommitCompleted, WorkerGoes, HasRow
<1>1. Backed' BY TasksAssumption DEF Backed, RequestTypes, JobTypes
<1>2. ASSUME NEW t \in Tasks, Forgotten(t)' PROVE Forgotten(t)
  BY <1>2, TasksAssumption
  DEF Forgotten, Leaving, Carried, Keeper, Backed, RowTypes, JobTypes, Statuses, Waiting
<1> QED BY <1>1, <1>2 DEF KeepsAll

LEMMA QueueDownloadFails ==
  ASSUME TypeOK, Backed, NEW w \in Workers, DownloadFails(w)
  PROVE  Backed' /\ KeepsAll
<1> USE DEF TypeOK, WorkerTypes, taskVars, jobVars, requestVars, DownloadFails, MayRaise, WorkerGoes
<1>1. Backed' BY TasksAssumption DEF Backed, RequestTypes, JobTypes
<1>2. ASSUME NEW t \in Tasks, Forgotten(t)' PROVE Forgotten(t)
  BY <1>2, TasksAssumption
  DEF Forgotten, Leaving, Carried, Keeper, Backed, RowTypes, JobTypes, Statuses, Waiting
<1> QED BY <1>1, <1>2 DEF KeepsAll

LEMMA QueueReloadAndSchedule ==
  ASSUME TypeOK, Backed, NEW w \in Workers, ReloadAndSchedule(w)
  PROVE  Backed' /\ KeepsAll
<1> USE DEF TypeOK, WorkerTypes, taskVars, jobVars, requestVars, ReloadAndSchedule, WorkerRest, HasRow, ScheduledRetry, Verdict
<1>0. \A t \in Tasks : scheduled'[t] >= scheduled[t] /\ scheduled[t] \in Nat
  BY DEF JobTypes
<1>1. Backed'
  <2>1. ASSUME NEW v \in Workers, wpc'[v] = "requeued", ~Exhausted(wn[v])'
        PROVE  scheduled'[wtask'[v]] > 0
    <3>1. CASE v = w
      BY <3>1, <2>1, TasksAssumption DEF JobTypes, Exhausted
    <3>2. CASE v # w
      BY <3>2, <2>1, <1>0, TasksAssumption DEF Backed, Exhausted
    <3> QED BY <3>1, <3>2
  <2>2. ASSUME NEW r \in Requests, rpc'[r] = "revalidate", NEW t \in rset'[r],
               ~Exhausted(rcopy[r][t])'
        PROVE  scheduled'[t] > 0
    BY <2>2, <1>0 DEF Backed, RequestTypes, Exhausted
  <2>3. \A r \in Requests : rpc'[r] \notin {"idle", "revalidate"} =>
          \E t \in Tasks : rset'[r] = {t}
    BY DEF Backed
  <2> QED BY <2>1, <2>2, <2>3 DEF Backed
<1>2. ASSUME NEW t \in Tasks, Forgotten(t)' PROVE Forgotten(t)
  BY <1>2, TasksAssumption
  DEF Forgotten, Leaving, Carried, Keeper, Backed, RowTypes, JobTypes, Statuses, Waiting
<1> QED BY <1>1, <1>2 DEF KeepsAll

LEMMA QueueCommitRetry ==
  ASSUME TypeOK, Backed, NEW w \in Workers, CommitRetry(w)
  PROVE  Backed' /\ KeepsAll
<1> USE DEF TypeOK, WorkerTypes, taskVars, jobVars, requestVars, CommitRetry, WorkerGoes, WorkerRest, HasRow, Verdict, Exhausted
<1>1. Backed' BY TasksAssumption DEF Backed, RequestTypes, JobTypes
<1>2. ASSUME NEW t \in Tasks, Forgotten(t)' PROVE Forgotten(t)
  <2>1. CASE t = wtask[w]
    BY <1>2, <2>1, TasksAssumption
    DEF Forgotten, Leaving, Carried, Keeper, Backed, RowTypes, JobTypes, Statuses, Waiting
  <2>2. CASE t # wtask[w]
    <3>1. /\ status'[t] = status[t] /\ wtask'[w] # t
          /\ UNCHANGED <<queued, scheduled, rpc, rset>>
      BY <2>2, TasksAssumption DEF RowTypes
    <3>2. \A v \in Workers : v # w =>
            wpc'[v] = wpc[v] /\ wtask'[v] = wtask[v] /\ wn'[v] = wn[v] /\ wseen'[v] = wseen[v]
      OBVIOUS
    <3> QED BY <1>2, <2>2, <3>1, <3>2, OthersKept
  <2> QED BY <2>1, <2>2
<1> QED BY <1>1, <1>2 DEF KeepsAll

LEMMA QueueNotifyDone ==
  ASSUME TypeOK, Backed, NEW w \in Workers, NotifyDone(w)
  PROVE  Backed' /\ KeepsAll
<1> USE DEF TypeOK, WorkerTypes, taskVars, jobVars, requestVars, NotifyDone, WorkerRest
<1>1. Backed' BY TasksAssumption DEF Backed, RequestTypes, JobTypes
<1>2. ASSUME NEW t \in Tasks, Forgotten(t)' PROVE Forgotten(t)
  BY <1>2, TasksAssumption
  DEF Forgotten, Leaving, Carried, Keeper, Backed, RowTypes, JobTypes, Statuses, Waiting
<1> QED BY <1>1, <1>2 DEF KeepsAll

-----------------------------------------------------------------------------
(* Handlers *)

LEMMA QueueInsert ==
  ASSUME TypeOK, Backed, NEW r \in Requests, Insert(r)
  PROVE  Backed' /\ KeepsAll
<1> USE DEF TypeOK, RequestTypes, taskVars, jobVars, workerVars, Insert, RequestGoes
<1>1. Backed' BY DEF Backed, WorkerTypes, JobTypes
<1>2. ASSUME NEW t \in Tasks, Forgotten(t)' PROVE Forgotten(t)
  BY <1>2
  DEF Forgotten, Leaving, Carried, Keeper, Backed, RowTypes, JobTypes, Waiting
<1> QED BY <1>1, <1>2 DEF KeepsAll

LEMMA QueueEnqueue ==
  ASSUME TypeOK, Backed, NEW r \in Requests, Enqueue(r)
  PROVE  Backed' /\ KeepsAll
<1> USE DEF TypeOK, RequestTypes, taskVars, jobVars, workerVars, Enqueue, RequestRest, EnqueuedHome, HomeQueue, HasRow, Statuses
<1>1. Backed' BY DEF Backed, WorkerTypes, JobTypes
<1>2. PICK u \in Tasks : rset[r] = {u} BY DEF Backed
<1>3. (HasRow(u) => \E q \in Queues : queued'[q][u] > 0)
  BY <1>2 DEF JobTypes, Queues
<1>4. \A q \in Queues, t \in Tasks : queued[q][t] > 0 => queued'[q][t] > 0
  BY DEF JobTypes
<1>5. ASSUME NEW t \in Tasks, Forgotten(t)' PROVE Forgotten(t)
  BY <1>2, <1>3, <1>4, <1>5 DEF Forgotten, Leaving, Carried, Keeper, Waiting
<1> QED BY <1>1, <1>5 DEF KeepsAll

LEMMA QueueRetryCommit ==
  ASSUME TypeOK, Backed, NEW r \in Requests, RetryCommit(r)
  PROVE  Backed' /\ KeepsAll
<1> USE DEF TypeOK, RequestTypes, taskVars, jobVars, workerVars, RetryCommit, RequestGoes, RequestRest
<1>1. Backed' BY DEF Backed, WorkerTypes, JobTypes
<1>2. ASSUME NEW t \in Tasks, Forgotten(t)' PROVE Forgotten(t)
  BY ZenonT(60), <1>2
  DEF Forgotten, Leaving, Carried, Keeper, Backed, RowTypes, JobTypes, Waiting
<1> QED BY <1>1, <1>2 DEF KeepsAll

LEMMA QueueDeleteCancel ==
  ASSUME TypeOK, Backed, NEW r \in Requests, DeleteCancel(r)
  PROVE  Backed' /\ KeepsAll
<1> USE DEF TypeOK, RequestTypes, taskVars, jobVars, workerVars, DeleteCancel, RequestGoes, RequestRest
<1>1. Backed' BY DEF Backed, WorkerTypes, JobTypes
<1>2. ASSUME NEW t \in Tasks, Forgotten(t)' PROVE Forgotten(t)
  BY <1>2
  DEF Forgotten, Leaving, Carried, Keeper, Backed, RowTypes, JobTypes, Waiting
<1> QED BY <1>1, <1>2 DEF KeepsAll

LEMMA QueuePurge ==
  ASSUME TypeOK, Backed, NEW r \in Requests, Purge(r)
  PROVE  Backed' /\ KeepsAll
<1> USE DEF TypeOK, RequestTypes, taskVars, jobVars, workerVars, Purge, RequestGoes
<1>1. Backed' BY DEF Backed, WorkerTypes, JobTypes
<1>2. ASSUME NEW t \in Tasks, Forgotten(t)' PROVE Forgotten(t)
  BY <1>2
  DEF Forgotten, Leaving, Carried, Keeper, Backed, RowTypes, JobTypes, Waiting
<1> QED BY <1>1, <1>2 DEF KeepsAll

LEMMA QueueErase ==
  ASSUME TypeOK, Backed, NEW r \in Requests, Erase(r)
  PROVE  Backed' /\ KeepsAll
<1> USE DEF TypeOK, RequestTypes, taskVars, jobVars, workerVars, Erase, RequestRest
<1>1. Backed' BY DEF Backed, WorkerTypes, JobTypes
<1>2. ASSUME NEW t \in Tasks, Forgotten(t)' PROVE Forgotten(t)
  BY <1>2
  DEF Forgotten, Leaving, Carried, Keeper, Backed, RowTypes, JobTypes, Waiting
<1> QED BY <1>1, <1>2 DEF KeepsAll

LEMMA QueueRevalCommit ==
  ASSUME TypeOK, Backed, NEW r \in Requests, RevalCommit(r)
  PROVE  Backed' /\ KeepsAll
<1> USE DEF TypeOK, RequestTypes, taskVars, jobVars, workerVars, RevalCommit, RequestRest, Verdict
<1>1. Backed' BY DEF Backed, WorkerTypes, JobTypes
<1>2. ASSUME NEW t \in Tasks, Forgotten(t)' PROVE Forgotten(t)
  BY <1>2
  DEF Forgotten, Leaving, Carried, Keeper, Backed, RowTypes, JobTypes, Waiting
<1> QED BY <1>1, <1>2 DEF KeepsAll

LEMMA QueueRevalScan ==
  ASSUME TypeOK, Backed, NEW r \in Requests, RevalScan(r)
  PROVE  Backed' /\ KeepsAll
<1> USE DEF TypeOK, RequestTypes, taskVars, jobVars, workerVars, RevalScan, RequestStarts, ScheduledRetry, Invalid
<1>1. Backed' BY DEF Backed, WorkerTypes, JobTypes
<1>2. ASSUME NEW t \in Tasks, Forgotten(t)' PROVE Forgotten(t)
  BY <1>2
  DEF Forgotten, Leaving, Carried, Keeper, Backed, RowTypes, JobTypes, Waiting
<1> QED BY <1>1, <1>2 DEF KeepsAll

LEMMA QueueCreateTg ==
  ASSUME TypeOK, Backed, NEW r \in Requests, NEW u \in Tasks, CreateTg(r, u)
  PROVE  Backed' /\ KeepsAll
<1> USE DEF TypeOK, RequestTypes, taskVars, jobVars, workerVars, CreateTg, RequestStarts
<1>1. Backed' BY DEF Backed, WorkerTypes, JobTypes
<1>2. ASSUME NEW t \in Tasks, Forgotten(t)' PROVE Forgotten(t)
  BY <1>2 DEF Forgotten, Leaving, Carried, Keeper, Backed, RowTypes, JobTypes, Waiting
<1> QED BY <1>1, <1>2 DEF KeepsAll

LEMMA QueueCheckDuplicate ==
  ASSUME TypeOK, Backed, NEW r \in Requests, NEW u \in Tasks, CheckDuplicate(r, u)
  PROVE  Backed' /\ KeepsAll
<1> USE DEF TypeOK, RequestTypes, taskVars, jobVars, workerVars, CheckDuplicate, RequestStarts
<1>1. Backed' BY DEF Backed, WorkerTypes, JobTypes
<1>2. ASSUME NEW t \in Tasks, Forgotten(t)' PROVE Forgotten(t)
  BY <1>2 DEF Forgotten, Leaving, Carried, Keeper, Backed, RowTypes, JobTypes, Waiting
<1> QED BY <1>1, <1>2 DEF KeepsAll

LEMMA QueueRetryLoad ==
  ASSUME TypeOK, Backed, NEW r \in Requests, NEW u \in Tasks, RetryLoad(r, u)
  PROVE  Backed' /\ KeepsAll
<1> USE DEF TypeOK, RequestTypes, taskVars, jobVars, workerVars, RetryLoad, RequestStarts
<1>1. Backed' BY DEF Backed, WorkerTypes, JobTypes
<1>2. ASSUME NEW t \in Tasks, Forgotten(t)' PROVE Forgotten(t)
  BY <1>2 DEF Forgotten, Leaving, Carried, Keeper, Backed, RowTypes, JobTypes, Waiting
<1> QED BY <1>1, <1>2 DEF KeepsAll

LEMMA QueueDeleteLoad ==
  ASSUME TypeOK, Backed, NEW r \in Requests, NEW u \in Tasks, DeleteLoad(r, u)
  PROVE  Backed' /\ KeepsAll
<1> USE DEF TypeOK, RequestTypes, taskVars, jobVars, workerVars, DeleteLoad, RequestStarts
<1>1. Backed' BY DEF Backed, WorkerTypes, JobTypes
<1>2. ASSUME NEW t \in Tasks, Forgotten(t)' PROVE Forgotten(t)
  BY <1>2 DEF Forgotten, Leaving, Carried, Keeper, Backed, RowTypes, JobTypes, Waiting
<1> QED BY <1>1, <1>2 DEF KeepsAll

-----------------------------------------------------------------------------
(* Scheduler, files and faults *)

LEMMA QueuePromote ==
  ASSUME TypeOK, Backed, BackoffOutlastsCommit, NEW u \in Tasks, Promote(u)
  PROVE  Backed' /\ KeepsAll
<1> USE DEF TypeOK, JobTypes, taskVars, workerVars, requestVars, Promote, Enqueued, Queues
<1>1. Backed' BY DEF Backed, WorkerTypes
<1>2. ASSUME NEW t \in Tasks, Forgotten(t)' PROVE Forgotten(t)
  BY <1>2 DEF Forgotten, Leaving, Carried, Keeper
<1> QED BY <1>1, <1>2 DEF KeepsAll

LEMMA QueueFileLost ==
  ASSUME Backed, NEW u \in Tasks, FileLost(u)
  PROVE  Backed' /\ KeepsAll
BY DEF FileLost, KeepsAll, Backed, Forgotten, Leaving, Carried, Keeper, jobVars, workerVars,
       requestVars

(* A lost job strands its own task at most, if it was not over already. *)
LEMMA QueueJobLost ==
  ASSUME TypeOK, Backed, NEW w \in Workers, JobLost(w)
  PROVE  /\ Backed' /\ wtask[w] \in Tasks
         /\ \A t \in Tasks : Forgotten(t)' =>
              Forgotten(t) \/ (t = wtask[w] /\ wpc[w] \in BusyPcs)
<1> USE DEF TypeOK, WorkerTypes, JobLost, WorkerRest, taskVars, jobVars, requestVars
<1>1. Backed' /\ wtask[w] \in Tasks BY TasksAssumption DEF Backed
<1>2. ASSUME NEW t \in Tasks, Forgotten(t)', t # wtask[w] \/ wpc[w] \notin BusyPcs
      PROVE  Forgotten(t)
  BY <1>2 DEF Forgotten, Leaving, Carried, Keeper, BusyPcs
<1> QED BY <1>1, <1>2

(* A stopped handler strands the one task it acts on at most, and only between
   a commit and the enqueue, or from the removal of jobs to that of the row. *)
LEMMA QueueAbort ==
  ASSUME TypeOK, Backed, NEW r \in Requests, AbortRequest(r)
  PROVE  /\ Backed'
         /\ \E u : \A t \in Tasks : Forgotten(t)' => Forgotten(t) \/ t = u
         /\ \A t \in Tasks : Forgotten(t)' =>
              \/ Forgotten(t)
              \/ t \in rset[r] /\ rpc[r] \in {"enqueue", "purge", "erase"}
<1> USE DEF TypeOK, RequestTypes, AbortRequest, RequestRest, taskVars, jobVars, workerVars
<1>1. Backed' BY DEF Backed
<1>2. ASSUME NEW t \in Tasks, Forgotten(t)',
             t \notin rset[r] \/ rpc[r] \notin {"enqueue", "purge", "erase"}
      PROVE  Forgotten(t)
  BY <1>2 DEF Forgotten, Leaving, Carried, Keeper
<1>3. CASE rpc[r] = "revalidate" BY <1>1, <1>2, <1>3
<1>4. CASE rpc[r] # "revalidate"
  <2>1. PICK u \in Tasks : rset[r] = {u} BY <1>4 DEF Backed
  <2> QED BY <1>1, <1>2, <2>1
<1> QED BY <1>3, <1>4
-----------------------------------------------------------------------------
(* All steps together *)

LEMMA QueueStutter ==
  ASSUME Backed, UNCHANGED vars
  PROVE  Backed' /\ KeepsAll
BY DEF vars, taskVars, jobVars, workerVars, requestVars, KeepsAll, Backed, Forgotten, Leaving,
       Carried, Keeper

(* Crashes and the recovery alone change what the application is about. *)
LEMMA AppKept ==
  ASSUME [Next]_vars, ~AppCrash, ~Recovery
  PROVE  app' = app /\ dirty' = dirty /\ exposed \subseteq exposed'
<1>1. ASSUME NEW w \in Workers, WorkerStep(w)
      PROVE  app' = app /\ dirty' = dirty /\ exposed \subseteq exposed'
  BY <1>1 DEF appVars, WorkerStep, Pop, Load, CommitStart, DownloadLands, CommitCompleted,
              DownloadFails, ReloadAndSchedule, CommitRetry, NotifyDone
<1>2. ASSUME NEW r \in Requests, RequestStep(r) \/ RequestStart(r)
      PROVE  UNCHANGED appVars
  BY <1>2 DEF RequestStep, RequestStart, Insert, Enqueue, RetryCommit, DeleteCancel, Purge,
              Erase, RevalCommit, CreateTg, CheckDuplicate, RetryLoad, DeleteLoad, RevalScan
<1>3. ASSUME NEW w \in Workers, JobLost(w)
      PROVE  app' = app /\ dirty' = dirty /\ exposed \subseteq exposed'
  BY <1>3 DEF JobLost
<1>4. ASSUME NEW r \in Requests, AbortRequest(r)
      PROVE  app' = app /\ dirty' = dirty /\ exposed \subseteq exposed'
  BY <1>4 DEF AbortRequest
<1> QED BY <1>1, <1>2, <1>3, <1>4 DEF Next, Fault, Promote, FileLost, vars, appVars

(* The application stays up, so recovery has nothing to do. *)
LEMMA StaysUp ==
  ASSUME AppIsUp, ~AppCrash, [Next]_vars
  PROVE  AppIsUp' /\ ~Recovery
<1>1. ~Recovery
  BY DEF AppIsUp, Recovery, RecoverInterrupted, RecoverCommit, RecoverPending
<1> QED BY <1>1, AppKept DEF AppIsUp

(* Only a fault is charged, and each charge is one. *)
LEMMA Charged ==
  ASSUME TypeOK, [Next]_vars, ~AppCrash, ~(\E w \in Workers : JobLost(w)),
         ~(\E r \in Requests : AbortRequest(r))
  PROVE  spent'["job"] = spent["job"] /\ spent'["request"] = spent["request"]
<1>1. ASSUME NEW w \in Workers, WorkerStep(w) PROVE spent' = spent
  BY <1>1 DEF WorkerStep, Pop, Load, CommitStart, DownloadLands,
              CommitCompleted, DownloadFails, ReloadAndSchedule, CommitRetry, NotifyDone
<1>2. ASSUME NEW r \in Requests, RequestStep(r) \/ RequestStart(r) PROVE spent' = spent
  BY <1>2 DEF RequestStep, RequestStart, Insert, Enqueue, RetryCommit, DeleteCancel, Purge,
              Erase, RevalCommit, CreateTg, CheckDuplicate, RetryLoad, DeleteLoad, RevalScan
<1>3. Recovery => spent' = spent
  BY DEF Recovery, RecoverInterrupted, RecoverCommit, RecoverPending
<1>4. ASSUME NEW t \in Tasks, FileLost(t)
      PROVE  spent'["job"] = spent["job"] /\ spent'["request"] = spent["request"]
  BY <1>4 DEF FileLost, Charge, TypeOK, AppTypes
<1> QED BY <1>1, <1>2, <1>3, <1>4 DEF Next, Fault, Promote, vars

(* The charge of a crash is never taken back, and is a crash's alone. *)
LEMMA NeverCharged ==
  ASSUME TypeOK, [Next]_vars, ~AppCrash
  PROVE  spent'["app"] = spent["app"]
<1>1. ASSUME NEW w \in Workers, WorkerStep(w) PROVE spent' = spent
  BY <1>1 DEF WorkerStep, Pop, Load, CommitStart, DownloadLands,
              CommitCompleted, DownloadFails, ReloadAndSchedule, CommitRetry, NotifyDone
<1>2. ASSUME NEW r \in Requests, RequestStep(r) \/ RequestStart(r) PROVE spent' = spent
  BY <1>2 DEF RequestStep, RequestStart, Insert, Enqueue, RetryCommit, DeleteCancel, Purge,
              Erase, RevalCommit, CreateTg, CheckDuplicate, RetryLoad, DeleteLoad, RevalScan
<1>3. Recovery => spent' = spent
  BY DEF Recovery, RecoverInterrupted, RecoverCommit, RecoverPending
<1>4. Fault => spent'["app"] = spent["app"]
  BY DEF Fault, JobLost, AbortRequest, FileLost, Charge, TypeOK, AppTypes, Faults
<1> QED BY <1>1, <1>2, <1>3, <1>4 DEF Next, Promote, vars

LEMMA CrashStays ==
  ASSUME TypeOK, [Next]_vars, spent'["app"] = 0
  PROVE  spent["app"] = 0 /\ ~AppCrash
<1>1. ~AppCrash BY DEF AppCrash, Charge, TypeOK, AppTypes, Faults
<1> QED BY <1>1, NeverCharged

(* What a step that is no crash, lost job, stopped handler or recovery does. *)
LEMMA OrdinaryStep ==
  ASSUME TypeOK, Backed, BackoffOutlastsCommit, [Next]_vars, ~AppCrash, ~Recovery,
         ~(\E w \in Workers : JobLost(w)), ~(\E r \in Requests : AbortRequest(r))
  PROVE  Backed' /\ KeepsAll
<1>2. ASSUME NEW w \in Workers, WorkerStep(w) PROVE Backed' /\ KeepsAll
  BY <1>2, QueuePop, QueueLoad, QueueCommitStart, QueueDownloadLands, QueueCommitCompleted,
     QueueDownloadFails, QueueReloadAndSchedule, QueueCommitRetry, QueueNotifyDone
  DEF WorkerStep
<1>3. ASSUME NEW r \in Requests, RequestStep(r) PROVE Backed' /\ KeepsAll
  BY <1>3, QueueInsert, QueueEnqueue, QueueRetryCommit, QueueDeleteCancel, QueuePurge,
     QueueErase, QueueRevalCommit
  DEF RequestStep
<1>4. ASSUME NEW r \in Requests, RequestStart(r) PROVE Backed' /\ KeepsAll
  BY <1>4, QueueCreateTg, QueueCheckDuplicate, QueueRetryLoad, QueueDeleteLoad, QueueRevalScan
  DEF RequestStart
<1>5. ASSUME NEW t \in Tasks, Promote(t) \/ FileLost(t) PROVE Backed' /\ KeepsAll
  BY <1>5, QueuePromote, QueueFileLost
<1> QED BY <1>2, <1>3, <1>4, <1>5, QueueStutter DEF Next, Fault

(* A set that grows by one element at most has one element more at most. *)
LEMMA GrowsByOne ==
  ASSUME NEW S, NEW T, NEW x, IsFiniteSet(S), T \subseteq S \cup {x}
  PROVE  Cardinality(T) <= Cardinality(S) + 1
<1>1. /\ IsFiniteSet(S \cup {x})
      /\ Cardinality(S \cup {x}) = Cardinality(S) \/ Cardinality(S \cup {x}) = Cardinality(S) + 1
  BY FS_AddElement
<1>2. Cardinality(S) \in Nat /\ Cardinality(S \cup {x}) \in Nat /\ Cardinality(T) \in Nat
      /\ Cardinality(T) <= Cardinality(S \cup {x})
  BY <1>1, FS_Subset, FS_CardinalityType
<1> QED BY <1>1, <1>2

LEMMA AccountedInit == ASSUME DelaysOutlast PROVE Init => AccountedUntilCrash
<1> SUFFICES ASSUME Init PROVE Accounted BY DEF AccountedUntilCrash
<1>1. TypeOK BY TypeInit
<1>2. Backed /\ AppIsUp BY DEF Init, Backed, AppIsUp
<1>3. Unkept = {} BY DEF Init, Unkept, Forgotten, Waiting
<1>4. spent["job"] = 0 /\ spent["request"] = 0 BY DEF Init, Faults
<1> QED BY <1>1, <1>2, <1>3, <1>4, FS_EmptySet DEF Accounted

LEMMA AccountedStep ==
  ASSUME DelaysOutlast, Accounted, TypeOK', [Next]_vars, ~AppCrash
  PROVE  Accounted'
<1> USE DEF Accounted
<1>1. AppIsUp' BY StaysUp
<1>2. /\ spent["job"] \in Nat /\ spent["request"] \in Nat
      /\ spent'["job"] \in Nat /\ spent'["request"] \in Nat
  BY DEF TypeOK, AppTypes, Faults
<1>3. IsFiniteSet(Unkept) /\ Cardinality(Unkept) \in Nat /\ IsFiniteSet(Unkept')
      /\ Cardinality(Unkept') \in Nat
  BY FS_Subset, FS_CardinalityType DEF DelaysOutlast, Unkept
<1>4. CASE (\E w \in Workers : JobLost(w)) \/ (\E r \in Requests : AbortRequest(r))
  <2> DEFINE Charges ==
        /\ Backed' /\ \E u : Unkept' \subseteq Unkept \cup {u}
        /\ spent'["job"] + spent'["request"] = spent["job"] + spent["request"] + 1
  <2>1. Charges
    <3>1. ASSUME NEW w \in Workers, JobLost(w) PROVE Charges
      <4>1. spent' = [spent EXCEPT !["job"] = @ + 1] BY <3>1 DEF JobLost, Charge
      <4>2. Backed' /\ \A t \in Tasks : Forgotten(t)' => Forgotten(t) \/ t = wtask[w]
        BY <3>1, QueueJobLost
      <4>3. \E u : Unkept' \subseteq Unkept \cup {u} BY <4>2 DEF Unkept
      <4> QED BY <4>1, <4>2, <4>3, <1>2 DEF TypeOK, AppTypes
    <3>2. ASSUME NEW r \in Requests, AbortRequest(r) PROVE Charges
      <4>1. spent' = [spent EXCEPT !["request"] = @ + 1] BY <3>2 DEF AbortRequest, Charge
      <4>2. Backed' /\ \E u : \A t \in Tasks : Forgotten(t)' => Forgotten(t) \/ t = u
        BY <3>2, QueueAbort
      <4>3. \E u : Unkept' \subseteq Unkept \cup {u} BY <4>2 DEF Unkept
      <4> QED BY <4>1, <4>2, <4>3, <1>2 DEF TypeOK, AppTypes
    <3> QED BY <1>4, <3>1, <3>2
  <2>2. Cardinality(Unkept') <= Cardinality(Unkept) + 1 BY <1>3, <2>1, GrowsByOne
  <2> QED BY <1>1, <1>2, <1>3, <2>1, <2>2
<1>5. CASE ~(\E w \in Workers : JobLost(w)) /\ ~(\E r \in Requests : AbortRequest(r))
  <2>1. Backed' /\ KeepsAll BY <1>5, StaysUp, OrdinaryStep DEF DelaysOutlast
  <2>2. Unkept' \subseteq Unkept BY <2>1 DEF KeepsAll, Unkept
  <2>3. Cardinality(Unkept') <= Cardinality(Unkept) BY <1>3, <2>2, FS_Subset
  <2>4. spent'["job"] = spent["job"] /\ spent'["request"] = spent["request"]
    BY <1>1, <1>5, Charged
  <2> QED BY <1>1, <1>2, <1>3, <2>1, <2>3, <2>4
<1> QED BY <1>4, <1>5

(* No task is forgotten by the queues: until the application restarts, each
   stranded task is paid for by a lost job or a stopped handler, however many
   tasks, workers and handlers there are and whatever handlers do to the same
   task at the same time. *)
THEOREM NoTaskForgotten == ASSUME DelaysOutlast PROVE Spec => []StrandedBound
<1>1. TypeOK /\ TypeOK' /\ AccountedUntilCrash /\ [Next]_vars => AccountedUntilCrash'
  <2> SUFFICES ASSUME TypeOK, TypeOK', AccountedUntilCrash, [Next]_vars, spent'["app"] = 0
               PROVE  Accounted'
    BY DEF AccountedUntilCrash
  <2>1. Accounted /\ ~AppCrash BY CrashStays DEF AccountedUntilCrash
  <2> QED BY <2>1, AccountedStep
<1>2. AccountedUntilCrash => StrandedBound
  <2> SUFFICES ASSUME Accounted PROVE StrandedBound BY DEF AccountedUntilCrash, StrandedBound
  <2>1. \A w \in Workers, t \in Tasks : Keeper(w, t) => Worked(t) BY DEF Keeper, Worked
  <2>2. Stranded \subseteq Unkept BY <2>1 DEF Stranded, Unkept, Forgotten
  <2>3. IsFiniteSet(Unkept) BY FS_Subset DEF DelaysOutlast, Unkept
  <2>4. /\ Cardinality(Stranded) <= Cardinality(Unkept)
        /\ Cardinality(Stranded) \in Nat /\ Cardinality(Unkept) \in Nat
    BY <2>2, <2>3, FS_Subset, FS_CardinalityType
  <2>5. spent["job"] \in Nat /\ spent["request"] \in Nat BY DEF Accounted, TypeOK, AppTypes, Faults
  <2> QED BY <2>4, <2>5 DEF Accounted, StrandedBound
<1> QED BY <1>1, <1>2, AccountedInit, TypeCorrect, PTL DEF Spec

-----------------------------------------------------------------------------
(* The recovery leaves behind only tasks exposed while it runs *)

HasJob(t) == \E q \in Queues : queued[q][t] > 0

(* A forgotten task that recover_pending_tasks will not find. *)
Astray(t) == Forgotten(t) /\ status[t] # "pending"

(* What each phase of the recovery has reached: while it has not committed,
   the tasks astray are among those it will write, and these have a job unless
   a worker took it; then none is astray; then none is forgotten. *)
RecoveryInv ==
  /\ Backed
  /\ app # "up" => \A r \in Requests : rpc[r] = "idle"
  /\ app = "recovering" =>
       /\ \A t \in Tasks : Astray(t) => t \in dirty \cup exposed
       /\ \A t \in dirty \ exposed : HasJob(t)
  /\ app = "recovered" => \A t \in Tasks : Astray(t) => t \in exposed
  /\ app = "up" => \A t \in Tasks : Forgotten(t) => t \in exposed

(* Jobs are only added, and each task that is enqueued has one afterwards. *)
LEMMA EnqueuedHomeHasJob ==
  ASSUME JobTypes, NEW S, queued' = EnqueuedHome(S), NEW t \in Tasks, HasJob(t) \/ t \in S
  PROVE  HasJob(t)'
<1>1. HomeQueue(t) \in Queues BY DEF HomeQueue, Queues
<1> QED BY <1>1 DEF EnqueuedHome, HasJob, JobTypes

(* With more jobs in the queues and all else the same, a task is forgotten
   only if it was, and it does not wait if it was enqueued. *)
LEMMA MoreJobsForgetNone ==
  ASSUME JobTypes, NEW S, queued' = EnqueuedHome(S), NEW t \in Tasks, Forgotten(t)',
         status'[t] = status[t], UNCHANGED <<scheduled, wpc, wtask, wn, wseen, rpc, rset>>
  PROVE  Forgotten(t) /\ (status[t] \in Waiting => t \notin S)
<1>1. \A q \in Queues : queued[q][t] > 0 => queued'[q][t] > 0
  BY DEF JobTypes, EnqueuedHome
<1>2. t \in S => HasJob(t)' BY EnqueuedHomeHasJob DEF JobTypes
<1>3. Carried(t) => Carried(t)' BY <1>1 DEF Carried
<1>4. HasJob(t)' => Carried(t)' BY DEF HasJob, Carried
<1>5. Leaving(t) => Leaving(t)' BY DEF Leaving
<1>6. \A w \in Workers : Keeper(w, t) => Keeper(w, t)' BY DEF Keeper
<1> QED BY <1>2, <1>3, <1>4, <1>5, <1>6 DEF Forgotten, Waiting

(* A worker leads no task astray: a forgotten pending task has none. *)
LEMMA WorkersLeadNoneAstray ==
  ASSUME TypeOK, Backed, NEW w \in Workers, WorkerStep(w), KeepsAll, NEW t \in Tasks, Astray(t)'
  PROVE  Astray(t)
<1>1. Forgotten(t) /\ Forgotten(t)' BY DEF Astray, KeepsAll
<1> SUFFICES ASSUME status[t] = "pending" PROVE FALSE BY <1>1 DEF Astray
<1>2. /\ ~Carried(t) /\ status'[t] \in {"retrying", "downloading"}
      /\ status'[t] = "retrying" => ~Carried(t)'
  BY <1>1 DEF Forgotten, Astray, Waiting
<1>3. CASE CommitStart(w)
  <2>1. t # wtask[w] BY <1>2, <1>3 DEF CommitStart, Carried
  <2> QED BY <1>2, <1>3, <2>1 DEF CommitStart, TypeOK, RowTypes
<1>4. CASE CommitCompleted(w)
  BY <1>2, <1>4 DEF CommitCompleted, TypeOK, RowTypes
<1>5. CASE CommitRetry(w)
  BY <1>2, <1>5 DEF CommitRetry, Carried, Backed, Verdict, TypeOK, RowTypes, jobVars
<1>6. CASE UNCHANGED status BY <1>2, <1>6
<1> QED
  BY <1>3, <1>4, <1>5, <1>6
  DEF WorkerStep, Pop, Load, DownloadLands, DownloadFails, ReloadAndSchedule, NotifyDone,
      taskVars

(* A worker uses up the jobs of the tasks it exposes, if recovery is about to
   write their rows; the scheduler only adds jobs. *)
LEMMA JobsKept ==
  ASSUME TypeOK, (\E w \in Workers : WorkerStep(w)) \/ (\E u \in Tasks : Promote(u)),
         NEW t \in dirty \ exposed', HasJob(t)
  PROVE  HasJob(t)'
<1> USE DEF TypeOK, JobTypes, HasJob, Queues
<1>1. ASSUME NEW w \in Workers, Pop(w) PROVE HasJob(t)'
  BY <1>1 DEF Pop
<1>2. ASSUME NEW w \in Workers, WorkerStep(w), ~Pop(w) PROVE HasJob(t)'
  BY <1>2 DEF WorkerStep, Load, CommitStart, DownloadLands, CommitCompleted, DownloadFails,
              ReloadAndSchedule, CommitRetry, NotifyDone, jobVars
<1>3. ASSUME NEW u \in Tasks, Promote(u) PROVE HasJob(t)'
  BY <1>3 DEF Promote, Enqueued
<1> QED BY <1>1, <1>2, <1>3

LEMMA RecoveryInvInit == Init => RecoveryInv
BY DEF Init, RecoveryInv, Backed, Forgotten, Waiting

(* An idle application has no handler that could take a step. *)
LEMMA NoHandlers ==
  ASSUME RecoveryInv, app # "up", NEW r \in Requests
  PROVE  ~RequestStep(r) /\ ~RequestStart(r) /\ ~AbortRequest(r)
BY DEF RecoveryInv, RequestStep, Insert, Enqueue, RetryCommit, DeleteCancel, Purge, Erase,
       RevalCommit, AbortRequest, RequestStart, CreateTg, CheckDuplicate, RetryLoad,
       DeleteLoad, RevalScan, RequestStarts

(* Steps that neither crash nor recover: only lost jobs and stopped handlers
   lead tasks astray, and these are exposed. *)
LEMMA RecoveryInvRuns ==
  ASSUME TypeOK, BackoffOutlastsCommit, RecoveryInv, [Next]_vars, ~AppCrash, ~Recovery
  PROVE  RecoveryInv'
<1> USE DEF RecoveryInv
<1>1. app' = app /\ dirty' = dirty /\ exposed \subseteq exposed' BY AppKept
<1> DEFINE Serves == \A t \in Tasks : Forgotten(t)' => Forgotten(t) \/ t \in exposed'
           Repairs == /\ \A r \in Requests : rpc'[r] = "idle"
                      /\ \A t \in Tasks : Astray(t)' => Astray(t) \/ t \in exposed'
                      /\ \A t \in dirty \ exposed' : HasJob(t) => HasJob(t)'
<1>2. SUFFICES Backed' /\ Serves /\ (app # "up" => Repairs)
  <2> HIDE DEF Backed
  <2> QED BY <1>1
<1>3. ASSUME NEW w \in Workers, JobLost(w)
      PROVE  Backed' /\ Serves /\ (app # "up" => Repairs)
  <2>1. Backed' /\ Serves BY <1>3, QueueJobLost DEF JobLost
  <2>2. UNCHANGED <<status, queued, rpc>>
    BY <1>3 DEF JobLost, taskVars, jobVars, requestVars
  <2> QED BY <2>1, <2>2 DEF Astray, HasJob
<1>4. ASSUME NEW r \in Requests, AbortRequest(r)
      PROVE  Backed' /\ Serves /\ (app # "up" => Repairs)
  <2>1. Backed' /\ Serves BY <1>4, QueueAbort DEF AbortRequest
  <2>2. app = "up" BY <1>4, NoHandlers
  <2> QED BY <2>1, <2>2
<1>5. CASE ~(\E w \in Workers : JobLost(w)) /\ ~(\E r \in Requests : AbortRequest(r))
  <2>1. Backed' /\ KeepsAll BY <1>5, OrdinaryStep
  <2>2. Serves BY <2>1 DEF KeepsAll
  <2>3. ASSUME app # "up" PROVE Repairs
    <3>1. ASSUME NEW w \in Workers, WorkerStep(w) PROVE Repairs
      <4>1. UNCHANGED rpc
        BY <3>1 DEF WorkerStep, Pop, Load, CommitStart, DownloadLands, CommitCompleted,
                    DownloadFails, ReloadAndSchedule, CommitRetry, NotifyDone, requestVars
      <4> QED BY <2>1, <2>3, <3>1, <4>1, WorkersLeadNoneAstray, JobsKept
    <3>2. ASSUME NEW u \in Tasks, Promote(u) PROVE Repairs
      <4>1. UNCHANGED <<status, rpc>> BY <3>2 DEF Promote, taskVars, requestVars
      <4> QED BY <2>1, <2>3, <3>2, <4>1, JobsKept DEF KeepsAll, Astray
    <3>3. ASSUME NEW u \in Tasks, FileLost(u) PROVE Repairs
      BY <2>1, <2>3, <3>3 DEF FileLost, requestVars, jobVars, KeepsAll, Astray, HasJob
    <3>4. CASE UNCHANGED vars
      BY <2>1, <2>3, <3>4
      DEF vars, taskVars, requestVars, jobVars, KeepsAll, Astray, HasJob
    <3> QED BY <1>5, <2>3, <3>1, <3>2, <3>3, <3>4, NoHandlers DEF Next, Fault
  <2> QED BY <2>1, <2>2, <2>3
<1> QED BY <1>3, <1>4, <1>5

(* The recovery: the select enqueues what is not pending, the commit changes
   rows that have a job, the last step enqueues what is pending. *)
LEMMA RecoveryInvRecovers ==
  ASSUME TypeOK, RecoveryInv, Recovery
  PROVE  RecoveryInv'
<1> USE DEF RecoveryInv, TypeOK
<1>1. UNCHANGED <<scheduled, wpc, wtask, wn, wseen, rpc, rset, rcopy>>
  BY DEF Recovery, RecoverInterrupted, RecoverCommit, RecoverPending, jobVars, workerVars,
         requestVars
<1>2. Backed' BY <1>1 DEF Backed, Exhausted
<1>3. CASE RecoverInterrupted
  <2>1. ASSUME NEW t \in Tasks, Astray(t)' PROVE t \in dirty'
    <3>1. status'[t] = status[t] BY <1>3 DEF RecoverInterrupted, taskVars
    <3>2. status[t] \in Waiting => t \notin Interrupted
      BY <1>1, <1>3, <2>1, <3>1, MoreJobsForgetNone DEF RecoverInterrupted, Astray
    <3> QED BY <1>3, <2>1, <3>1, <3>2
            DEF RecoverInterrupted, Astray, Forgotten, Waiting, Interrupted
  <2>2. \A t \in dirty' : HasJob(t)'
    BY <1>3, EnqueuedHomeHasJob DEF RecoverInterrupted, Interrupted
  <2> QED BY <1>1, <1>2, <1>3, <2>1, <2>2 DEF RecoverInterrupted
<1>4. CASE RecoverCommit
  <2>1. ASSUME NEW t \in Tasks, Astray(t)', t \notin exposed PROVE FALSE
    <3>1. HasJob(t)' <=> HasJob(t) BY <1>4 DEF RecoverCommit, HasJob, jobVars
    <3>2. CASE t \in dirty
      BY <1>4, <2>1, <3>1, <3>2
      DEF RecoverCommit, RowTypes, Astray, Forgotten, Carried, HasJob, Waiting
    <3>3. CASE t \notin dirty
      <4>1. status'[t] = status[t] BY <1>4, <3>3 DEF RecoverCommit
      <4>2. Astray(t)
        BY <1>1, <1>4, <2>1, <4>1
        DEF RecoverCommit, Astray, Forgotten, Leaving, Carried, Keeper, jobVars
      <4> QED BY <1>4, <2>1, <3>3, <4>2 DEF RecoverCommit
    <3> QED BY <3>2, <3>3
  <2> QED BY <1>1, <1>2, <1>4, <2>1 DEF RecoverCommit
<1>5. CASE RecoverPending
  <2>1. ASSUME NEW t \in Tasks, Forgotten(t)' PROVE t \in exposed
    <3>1. status'[t] = status[t] BY <1>5 DEF RecoverPending, taskVars
    <3>2. Forgotten(t) /\ (status[t] \in Waiting => t \notin Unstarted)
      BY <1>1, <1>5, <2>1, <3>1, MoreJobsForgetNone DEF RecoverPending
    <3> QED BY <1>5, <3>2 DEF RecoverPending, Astray, Unstarted, Waiting
  <2> QED BY <1>1, <1>2, <1>5, <2>1 DEF RecoverPending
<1> QED BY <1>3, <1>4, <1>5 DEF Recovery

LEMMA RecoveryInvCrash ==
  ASSUME RecoveryInv, AppCrash
  PROVE  RecoveryInv'
BY DEF RecoveryInv, AppCrash, Backed, Exhausted, jobVars, workerVars

(* Nothing is left behind, wherever crashes met workers, handlers and an
   earlier recovery, and whatever handlers do to a task at the same time: while
   the application serves, a task that nothing will pick up lost a job or a
   handler since the last recovery began, or its job was taken too early. *)
THEOREM RecoveryIsComplete == ASSUME BackoffOutlastsCommit PROVE Spec => []RecoveryCovers
<1>1. TypeOK /\ RecoveryInv /\ [Next]_vars => RecoveryInv'
  BY RecoveryInvRuns, RecoveryInvRecovers, RecoveryInvCrash
<1>2. RecoveryInv => RecoveryCovers
  <2>1. \A w \in Workers, t \in Tasks : Keeper(w, t) => Worked(t) BY DEF Keeper, Worked
  <2>2. \A t \in Stranded : Forgotten(t) BY <2>1 DEF Stranded, Forgotten
  <2> QED BY <2>2 DEF RecoveryInv, RecoveryCovers, Stranded
<1> QED BY <1>1, <1>2, RecoveryInvInit, TypeCorrect, PTL DEF Spec
=============================================================================
