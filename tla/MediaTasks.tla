----------------------------- MODULE MediaTasks -----------------------------
(***************************************************************************)
(* The life of download tasks in telegram_media_hub: rows of the Postgres  *)
(* table `tasks`, the RQ jobs in Redis that carry their ids, the RQ        *)
(* workers that execute the jobs, the handlers of the application process  *)
(* (web API, listener, bot) that create, retry, delete and revalidate      *)
(* tasks, and the recovery the application runs when it starts.            *)
(*                                                                         *)
(* One step of the model is what the code does between two points where    *)
(* another process can act: a database round trip, a Redis call or a       *)
(* download.  A handler or worker therefore keeps a private copy of what   *)
(* it loaded and writes from that copy later, as the SQLAlchemy sessions   *)
(* do.  Failures covered: a worker process that dies or whose job times    *)
(* out, an application process that dies, a handler stopped by a Redis or  *)
(* database error, a media file removed from disk by its owner, failed     *)
(* downloads and failed notifications.  Not covered: loss of Redis or      *)
(* Postgres data.                                                          *)
(***************************************************************************)
EXTENDS Integers, FiniteSets

CONSTANTS
  Tasks,       \* rows that may ever be created
  TgTasks,     \* those whose source is Telegram media; the others are links
  Url,         \* the URL of each link task
  BadUrl,      \* the link tasks whose URL _validate_url rejects
  Workers,     \* RQ worker processes
  Listens,     \* the queues each worker process listens to
  Requests,    \* handlers of the application process in progress at once
  NoTask,      \* what an idle worker works on
  MaxRetries,  \* the max_retries column, the same for every row
  MaxManual,   \* bound: manual retries beyond MaxRetries that we explore
  Budget,      \* bound: how often each kind of fault happens
  Overlap,     \* may two handlers act on one task at the same time?
  BackoffOutlastsCommit,  \* is the retry delay longer than the wait for the
                          \* commit that follows enqueue_in?
  NotifyRaises   \* may notify_complete raise in the external worker?

Queues == {"tg_download", "external_download", "retry"}
Faults == {"job", "app", "request", "file"}

ASSUME TasksAssumption == TgTasks \subseteq Tasks /\ NoTask \notin Tasks
ASSUME ListensAssumption == Listens \in [Workers -> SUBSET Queues]
ASSUME BoundsAssumption ==
  MaxRetries \in Nat /\ MaxManual \in Nat /\ Budget \in [Faults -> Nat]
ASSUME SwitchesAssumption ==
  /\ Overlap \in BOOLEAN /\ BackoffOutlastsCommit \in BOOLEAN
  /\ NotifyRaises \in BOOLEAN

VARIABLES
  status,     \* status[t]: the status column; "unborn" and "deleted" stand
              \* for the absence of the row before and after its life
  retries,    \* retries[t]: the retry_count column
  disk,       \* disk[t]: a non-empty final media file is on disk
  queued,     \* queued[q][t]: jobs for t waiting in RQ queue q
  scheduled,  \* scheduled[t]: jobs for t in retry's ScheduledJobRegistry
  wpc,        \* wpc[w]: where worker w is in its job
  wtask,      \* wtask[w]: the task of its job
  wn,         \* wn[w]: the retry_count its exception handler loaded
  wseen,      \* wseen[w]: the status its exception handler loaded
  rpc,        \* rpc[r]: where handler r is
  rset,       \* rset[r]: the tasks handler r acts on
  rcopy,      \* rcopy[r]: the retry counts handler r loaded
  app,        \* the application process
  dirty,      \* rows recovery will write when it commits
  exposed,    \* history: since the last recovery began, the tasks that lost
              \* a job with its worker or a step of a stopped handler, and
              \* those whose job was taken before recovery committed the row
  spent       \* faults so far

taskVars == <<status, retries, disk>>
jobVars == <<queued, scheduled>>
workerVars == <<wpc, wtask, wn, wseen>>
requestVars == <<rpc, rset, rcopy>>
appVars == <<app, dirty, exposed>>
vars == <<taskVars, jobVars, workerVars, requestVars, appVars, spent>>

-----------------------------------------------------------------------------
(* Statuses, jobs and handlers *)

Statuses == {"pending", "downloading", "completed", "failed", "retrying",
             "cancelled"}
Waiting == {"pending", "retrying"}
Active == Waiting \cup {"downloading"}
WorkerPcs == {"idle", "popped", "accepted", "downloading", "landed",
              "announcing", "cleaned", "requeued", "reporting"}
BusyPcs == {"popped", "accepted", "downloading", "landed", "cleaned", "requeued"}
RequestPcs == {"idle", "insert", "enqueue", "retry", "cancel", "purge",
               "erase", "revalidate"}

HasRow(t) == status[t] \in Statuses

HomeQueue(t) == IF t \in TgTasks THEN "tg_download" ELSE "external_download"

Enqueued(q, t) == [queued EXCEPT ![q][t] = @ + 1]

EnqueuedHome(S) ==
  [q \in Queues |-> [t \in Tasks |->
     queued[q][t] + (IF t \in S /\ q = HomeQueue(t) THEN 1 ELSE 0)]]

(* schedule_retry on a row loaded with retry_count = n: the new status, the
   new count, and the scheduled job, which is in Redis before the caller
   commits the row. *)
Exhausted_Never(n) == FALSE
Exhausted_OffByOne(n) == n > MaxRetries
Exhausted(n) == n >= MaxRetries
Verdict(n) == IF Exhausted(n) THEN "failed" ELSE "retrying"
Recount(n) == IF Exhausted(n) THEN n ELSE n + 1
ScheduledRetry_BeforeCheck(S, n) ==
  [t \in Tasks |-> scheduled[t] + (IF t \in S THEN 1 ELSE 0)]
ScheduledRetry(S, n) ==
  [t \in Tasks |-> scheduled[t] + (IF t \in S /\ ~Exhausted(n[t]) THEN 1 ELSE 0)]

Charge(f) == spent[f] < Budget[f] /\ spent' = [spent EXCEPT ![f] = @ + 1]

Free(t) == Overlap \/ \A r \in Requests : t \notin rset[r]

-----------------------------------------------------------------------------
(* Workers: rq, tg_worker._do_download, external_worker._do_download *)

WorkerRest(w) ==
  /\ wpc' = [wpc EXCEPT ![w] = "idle"]
  /\ wtask' = [wtask EXCEPT ![w] = NoTask]
  /\ wn' = [wn EXCEPT ![w] = 0]
  /\ wseen' = [wseen EXCEPT ![w] = "pending"]

WorkerGoes(w, from, to) ==
  /\ wpc[w] = from
  /\ wpc' = [wpc EXCEPT ![w] = to]
  /\ UNCHANGED <<wtask, wn, wseen>>

(* rq worker: take a job from a queue the process listens to.  RQ's queue is
   first in, first out; the bag allows every order.  Workers are containers of
   their own and take jobs while the application is down or recovering too. *)
Pop(w) ==
  /\ wpc[w] = "idle"
  /\ \E q \in Listens[w], t \in Tasks :
       /\ queued[q][t] > 0
       /\ queued' = [queued EXCEPT ![q][t] = @ - 1]
       /\ wtask' = [wtask EXCEPT ![w] = t]
       /\ exposed' = exposed \cup ({t} \cap dirty)
  /\ wpc' = [wpc EXCEPT ![w] = "popped"]
  /\ UNCHANGED <<taskVars, scheduled, wn, wseen, requestVars, app, dirty, spent>>

(* The job starts only on a row that waits; otherwise it ends quietly. *)
Runnable_PendingOnly(s) == s = "pending"
Runnable(s) == s \in Waiting

Load(w) ==
  /\ wpc[w] = "popped"
  /\ IF Runnable(status[wtask[w]]) THEN WorkerGoes(w, "popped", "accepted")
                                   ELSE WorkerRest(w)
  /\ UNCHANGED <<taskVars, jobVars, requestVars, appVars, spent>>

(* Commit of the status the job gives the row it loaded: FAILED for a URL
   that _validate_url rejects, DOWNLOADING otherwise.  If the row has been
   deleted since, the UPDATE matches no row and StaleDataError ends the job. *)
CommitStart(w) ==
  LET t == wtask[w] IN
  /\ wpc[w] = "accepted"
  /\ IF ~HasRow(t) THEN WorkerRest(w) /\ UNCHANGED status
     ELSE IF t \in BadUrl
       THEN WorkerRest(w) /\ status' = [status EXCEPT ![t] = "failed"]
       ELSE /\ WorkerGoes(w, "accepted", "downloading")
            /\ status' = [status EXCEPT ![t] = "downloading"]
  /\ UNCHANGED <<retries, disk, jobVars, requestVars, appVars, spent>>

(* The file reaches its final path with the expected size: shutil.move, or
   MeTube reports "finished" and the file is there. *)
DownloadLands_Unchecked(w) ==
  /\ WorkerGoes(w, "downloading", "landed")
  /\ disk' \in {disk, [disk EXCEPT ![wtask[w]] = TRUE]}
  /\ UNCHANGED <<status, retries, jobVars, requestVars, appVars, spent>>

DownloadLands(w) ==
  /\ WorkerGoes(w, "downloading", "landed")
  /\ disk' = [disk EXCEPT ![wtask[w]] = TRUE]
  /\ UNCHANGED <<status, retries, jobVars, requestVars, appVars, spent>>

(* UPDATE tasks SET status = COMPLETED WHERE id = ...: it looks neither at
   the status nor at whether a row matched. *)
CommitCompleted(w) ==
  LET t == wtask[w] IN
  /\ WorkerGoes(w, "landed", "announcing")
  /\ status' = IF HasRow(t) THEN [status EXCEPT ![t] = "completed"] ELSE status
  /\ UNCHANGED <<retries, disk, jobVars, requestVars, appVars, spent>>

(* An exception reaches the worker's except clause.  The Telegram worker
   unlinks its temporary and its final file there; the external worker
   removes nothing.  Only the external worker announces a completed task
   inside the try block without a guard of its own. *)
MayRaise(w) ==
  \/ wpc[w] \in {"downloading", "landed"}
  \/ wpc[w] = "announcing" /\ wtask[w] \notin TgTasks /\ NotifyRaises

DownloadFails(w) ==
  /\ MayRaise(w)
  /\ WorkerGoes(w, wpc[w], "cleaned")
  /\ disk' = IF wtask[w] \in TgTasks THEN [disk EXCEPT ![wtask[w]] = FALSE]
                                     ELSE disk
  /\ UNCHANGED <<status, retries, jobVars, requestVars, appVars, spent>>

(* The except clause loads the row again and calls schedule_retry. *)
ReloadAndSchedule(w) ==
  LET t == wtask[w] IN
  /\ wpc[w] = "cleaned"
  /\ IF HasRow(t)
     THEN /\ wpc' = [wpc EXCEPT ![w] = "requeued"]
          /\ wn' = [wn EXCEPT ![w] = retries[t]]
          /\ wseen' = [wseen EXCEPT ![w] = status[t]]
          /\ scheduled' = ScheduledRetry({t}, retries)
          /\ UNCHANGED wtask
     ELSE WorkerRest(w) /\ UNCHANGED scheduled
  /\ UNCHANGED <<taskVars, queued, requestVars, appVars, spent>>

(* ... and commits.  SQLAlchemy writes the columns that differ from what it
   loaded, so a status equal to the loaded one is not written. *)
CommitRetry(w) ==
  LET t == wtask[w] IN
  /\ wpc[w] = "requeued"
  /\ IF HasRow(t)
     THEN /\ WorkerGoes(w, "requeued", "reporting")
          /\ status' = IF Verdict(wn[w]) = wseen[w] THEN status
                       ELSE [status EXCEPT ![t] = Verdict(wn[w])]
          /\ retries' = IF Exhausted(wn[w]) THEN retries
                        ELSE [retries EXCEPT ![t] = Recount(wn[w])]
     ELSE WorkerRest(w) /\ UNCHANGED <<status, retries>>
  /\ UNCHANGED <<disk, jobVars, requestVars, appVars, spent>>

(* notify_complete or notify_failed returns, or raises where it is guarded
   or where nothing follows it. *)
NotifyDone(w) ==
  /\ wpc[w] \in {"announcing", "reporting"}
  /\ WorkerRest(w)
  /\ UNCHANGED <<taskVars, jobVars, requestVars, appVars, spent>>

(* The work horse dies or an exception escapes the job (RQ's job timeout
   fires in the event loop, the database fails outside the try block): RQ
   moves the job to its FailedJobRegistry and nothing takes it from there. *)
JobLost(w) ==
  /\ wpc[w] # "idle"
  /\ Charge("job")
  /\ WorkerRest(w)
  /\ exposed' = IF wpc[w] \in BusyPcs THEN exposed \cup {wtask[w]} ELSE exposed
  /\ UNCHANGED <<taskVars, jobVars, requestVars, app, dirty>>

(* rq's scheduler moves a scheduled job whose time has come to its queue. *)
Promote(t) ==
  /\ scheduled[t] > 0
  /\ BackoffOutlastsCommit =>
       /\ \A w \in Workers : ~(wpc[w] = "requeued" /\ wtask[w] = t)
       /\ \A r \in Requests : ~(rpc[r] = "revalidate" /\ t \in rset[r])
  /\ scheduled' = [scheduled EXCEPT ![t] = @ - 1]
  /\ queued' = Enqueued("retry", t)
  /\ UNCHANGED <<taskVars, workerVars, requestVars, appVars, spent>>

-----------------------------------------------------------------------------
(* Handlers of the application process: dispatcher.py and api/tasks.py *)

RequestRest(r) ==
  /\ rpc' = [rpc EXCEPT ![r] = "idle"]
  /\ rset' = [rset EXCEPT ![r] = {}]
  /\ rcopy' = [rcopy EXCEPT ![r] = [t \in Tasks |-> 0]]

RequestStarts(r, S, to) ==
  /\ app = "up"
  /\ rpc[r] = "idle"
  /\ rpc' = [rpc EXCEPT ![r] = to]
  /\ rset' = [rset EXCEPT ![r] = S]

RequestGoes(r, to) == rpc' = [rpc EXCEPT ![r] = to] /\ UNCHANGED <<rset, rcopy>>

Fresh(t) == status[t] = "unborn" /\ \A r \in Requests : t \notin rset[r]

(* create_tg_download_task: insert the row and commit, then enqueue. *)
CreateTg(r, t) ==
  /\ t \in TgTasks /\ Fresh(t)
  /\ RequestStarts(r, {t}, "enqueue")
  /\ status' = [status EXCEPT ![t] = "pending"]
  /\ UNCHANGED <<retries, disk, jobVars, workerVars, rcopy, appVars, spent>>

(* create_external_download_task: return the active task of the same URL if
   there is one (no state changes then), else insert a row. *)
SameUrl(t) == {u \in Tasks \ TgTasks : Url[u] = Url[t] /\ status[u] \in Active}

CheckDuplicate(r, t) ==
  /\ t \in Tasks \ TgTasks /\ Fresh(t)
  /\ SameUrl(t) = {}
  /\ RequestStarts(r, {t}, "insert")
  /\ UNCHANGED <<taskVars, jobVars, workerVars, rcopy, appVars, spent>>

Insert(r) ==
  /\ rpc[r] = "insert"
  /\ RequestGoes(r, "enqueue")
  /\ status' = [t \in Tasks |-> IF t \in rset[r] THEN "pending" ELSE status[t]]
  /\ UNCHANGED <<retries, disk, jobVars, workerVars, appVars, spent>>

(* session.refresh, which raises if the row has been deleted meanwhile, then
   enqueue on the queue of the task's source. *)
Enqueue(r) ==
  /\ rpc[r] = "enqueue"
  /\ RequestRest(r)
  /\ \/ queued' = EnqueuedHome(rset[r])
     \/ (\E t \in rset[r] : ~HasRow(t)) /\ UNCHANGED queued
  /\ UNCHANGED <<taskVars, scheduled, workerVars, appVars, spent>>

(* retry_task: only FAILED and CANCELLED rows. *)
Retryable_Waiting(s) == s \in {"failed", "cancelled", "retrying"}
Retryable_Done(s) == s \in {"failed", "cancelled", "completed"}
Retryable(s) == s \in {"failed", "cancelled"}

RetryLoad(r, t) ==
  /\ Retryable(status[t]) /\ Free(t)
  /\ retries[t] < MaxRetries + MaxManual
  /\ RequestStarts(r, {t}, "retry")
  /\ rcopy' = [rcopy EXCEPT ![r][t] = retries[t]]
  /\ UNCHANGED <<taskVars, jobVars, workerVars, appVars, spent>>

ManualCount_Reset(n) == 0
ManualCount(n) == n + 1

RetryCommit(r) ==
  /\ rpc[r] = "retry"
  /\ IF \A t \in rset[r] : HasRow(t)
     THEN /\ RequestGoes(r, "enqueue")
          /\ status' = [t \in Tasks |-> IF t \in rset[r] THEN "retrying" ELSE status[t]]
          /\ retries' = [t \in Tasks |->
                           IF t \in rset[r] THEN ManualCount(rcopy[r][t]) ELSE retries[t]]
     ELSE RequestRest(r) /\ UNCHANGED <<status, retries>>
  /\ UNCHANGED <<disk, jobVars, workerVars, appVars, spent>>

(* delete_task: CANCELLED first if the row was active, then take its jobs out
   of the three queues, then delete the row. *)
DeleteLoad(r, t) ==
  /\ HasRow(t) /\ Free(t)
  /\ RequestStarts(r, {t}, IF status[t] \in Active THEN "cancel" ELSE "purge")
  /\ UNCHANGED <<taskVars, jobVars, workerVars, rcopy, appVars, spent>>

DeleteCancel(r) ==
  /\ rpc[r] = "cancel"
  /\ IF \A t \in rset[r] : HasRow(t)
     THEN /\ RequestGoes(r, "purge")
          /\ status' = [t \in Tasks |-> IF t \in rset[r] THEN "cancelled" ELSE status[t]]
     ELSE RequestRest(r) /\ UNCHANGED status
  /\ UNCHANGED <<retries, disk, jobVars, workerVars, appVars, spent>>

(* _cancel_rq_jobs_for_task walks queue.job_ids: queued jobs, and neither
   scheduled nor started ones. *)
Purge(r) ==
  /\ rpc[r] = "purge"
  /\ RequestGoes(r, "erase")
  /\ queued' = [q \in Queues |-> [t \in Tasks |->
                  IF t \in rset[r] THEN 0 ELSE queued[q][t]]]
  /\ UNCHANGED <<taskVars, scheduled, workerVars, appVars, spent>>

Erase(r) ==
  /\ rpc[r] = "erase"
  /\ RequestRest(r)
  /\ status' = [t \in Tasks |-> IF t \in rset[r] THEN "deleted" ELSE status[t]]
  /\ UNCHANGED <<retries, disk, jobVars, workerVars, appVars, spent>>

(* revalidate_completed_tasks: schedule_retry for every completed task whose
   file is missing or empty, one commit for all of them at the end.  A scan
   that finds nothing wrong changes nothing. *)
Invalid == {t \in Tasks : status[t] = "completed" /\ ~disk[t]}

RevalScan(r) ==
  /\ Invalid # {} /\ \A t \in Invalid : Free(t)
  /\ RequestStarts(r, Invalid, "revalidate")
  /\ rcopy' = [rcopy EXCEPT ![r] =
                 [t \in Tasks |-> IF t \in Invalid THEN retries[t] ELSE 0]]
  /\ scheduled' = ScheduledRetry(Invalid, retries)
  /\ UNCHANGED <<taskVars, queued, workerVars, appVars, spent>>

RevalCommit(r) ==
  /\ rpc[r] = "revalidate"
  /\ RequestRest(r)
  /\ IF \A t \in rset[r] : HasRow(t)
     THEN /\ status' = [t \in Tasks |->
                IF t \in rset[r] THEN Verdict(rcopy[r][t]) ELSE status[t]]
          /\ retries' = [t \in Tasks |->
                IF t \in rset[r] /\ ~Exhausted(rcopy[r][t])
                THEN Recount(rcopy[r][t]) ELSE retries[t]]
     ELSE UNCHANGED <<status, retries>>
  /\ UNCHANGED <<disk, jobVars, workerVars, appVars, spent>>

(* A Redis or database error ends a handler; its open transaction rolls
   back, what it committed or sent to Redis stays. *)
AbortRequest(r) ==
  /\ rpc[r] # "idle"
  /\ Charge("request")
  /\ RequestRest(r)
  /\ exposed' = IF rpc[r] \in {"enqueue", "purge", "erase"}
                THEN exposed \cup rset[r] ELSE exposed
  /\ UNCHANGED <<taskVars, jobVars, workerVars, app, dirty>>

-----------------------------------------------------------------------------
(* The application process: crash, and the recovery of main.lifespan, which
   runs before any handler can.  A restart of the whole stack is a crash and a
   lost job of each busy worker. *)

AppCrash ==
  /\ app # "down"
  /\ Charge("app")
  /\ app' = "down"
  /\ dirty' = {}
  /\ rpc' = [r \in Requests |-> "idle"]
  /\ rset' = [r \in Requests |-> {}]
  /\ rcopy' = [r \in Requests |-> [t \in Tasks |-> 0]]
  /\ UNCHANGED <<taskVars, jobVars, workerVars, exposed>>

(* recover_interrupted_tasks: every DOWNLOADING and RETRYING row is enqueued;
   only the rows loaded as DOWNLOADING get a new status ... *)
Interrupted_NoRetrying == {t \in Tasks : status[t] = "downloading"}
Interrupted == {t \in Tasks : status[t] \in {"downloading", "retrying"}}

RecoverInterrupted ==
  /\ app = "down"
  /\ app' = "recovering"
  /\ queued' = EnqueuedHome(Interrupted)
  /\ dirty' = {t \in Tasks : status[t] = "downloading"}
  /\ exposed' = {}
  /\ UNCHANGED <<taskVars, scheduled, workerVars, requestVars, spent>>

(* ... when the session commits, after all of them are in Redis. *)
RecoverCommit ==
  /\ app = "recovering"
  /\ app' = "recovered"
  /\ status' = [t \in Tasks |-> IF t \in dirty THEN "retrying" ELSE status[t]]
  /\ dirty' = {}
  /\ UNCHANGED <<retries, disk, jobVars, workerVars, requestVars, exposed, spent>>

(* recover_pending_tasks; then the API, the bot and the listener start. *)
Unstarted_None == {}
Unstarted == {t \in Tasks : status[t] = "pending"}

RecoverPending ==
  /\ app = "recovered"
  /\ app' = "up"
  /\ queued' = EnqueuedHome(Unstarted)
  /\ UNCHANGED <<taskVars, scheduled, workerVars, requestVars, dirty, exposed, spent>>

(* The owner of the media library moves or removes a downloaded file. *)
FileLost(t) ==
  /\ status[t] = "completed" /\ disk[t]
  /\ Charge("file")
  /\ disk' = [disk EXCEPT ![t] = FALSE]
  /\ UNCHANGED <<status, retries, jobVars, workerVars, requestVars, appVars>>

-----------------------------------------------------------------------------
Init ==
  /\ status = [t \in Tasks |-> "unborn"]
  /\ retries = [t \in Tasks |-> 0]
  /\ disk = [t \in Tasks |-> FALSE]
  /\ queued = [q \in Queues |-> [t \in Tasks |-> 0]]
  /\ scheduled = [t \in Tasks |-> 0]
  /\ wpc = [w \in Workers |-> "idle"]
  /\ wtask = [w \in Workers |-> NoTask]
  /\ wn = [w \in Workers |-> 0]
  /\ wseen = [w \in Workers |-> "pending"]
  /\ rpc = [r \in Requests |-> "idle"]
  /\ rset = [r \in Requests |-> {}]
  /\ rcopy = [r \in Requests |-> [t \in Tasks |-> 0]]
  /\ app = "up"
  /\ dirty = {}
  /\ exposed = {}
  /\ spent = [f \in Faults |-> 0]

WorkerStep(w) ==
  \/ Pop(w) \/ Load(w) \/ CommitStart(w) \/ DownloadLands(w)
  \/ CommitCompleted(w) \/ DownloadFails(w) \/ ReloadAndSchedule(w)
  \/ CommitRetry(w) \/ NotifyDone(w)

(* The steps a handler takes once a user or a message has started it. *)
RequestStep(r) ==
  \/ Insert(r) \/ Enqueue(r) \/ RetryCommit(r) \/ DeleteCancel(r)
  \/ Purge(r) \/ Erase(r) \/ RevalCommit(r)

RequestStart(r) ==
  \/ \E t \in Tasks : CreateTg(r, t) \/ CheckDuplicate(r, t)
                      \/ RetryLoad(r, t) \/ DeleteLoad(r, t)
  \/ RevalScan(r)

Recovery == RecoverInterrupted \/ RecoverCommit \/ RecoverPending

Fault ==
  \/ AppCrash
  \/ \E w \in Workers : JobLost(w)
  \/ \E r \in Requests : AbortRequest(r)
  \/ \E t \in Tasks : FileLost(t)

Next ==
  \/ \E w \in Workers : WorkerStep(w)
  \/ \E t \in Tasks : Promote(t)
  \/ \E r \in Requests : RequestStep(r) \/ RequestStart(r)
  \/ Recovery
  \/ Fault

Spec == Init /\ [][Next]_vars

(* What the deployment keeps running: the worker processes and the scheduler
   of `rq worker --with-scheduler`, the application's event loop, and
   `restart: unless-stopped`.  Users and faults owe nothing. *)
Fairness ==
  /\ \A w \in Workers : WF_vars(WorkerStep(w))
  /\ \A t \in Tasks : WF_vars(Promote(t))
  /\ \A r \in Requests : WF_vars(RequestStep(r))
  /\ WF_vars(Recovery)

FairSpec == Spec /\ Fairness
-----------------------------------------------------------------------------
(* Properties *)

(* Type invariant, part by part.  A retry count is bounded by the automatic
   budget plus the manual retries explored, and a manual retry in progress
   has room for one more. *)
Counts == 0..(MaxRetries + MaxManual)

RowTypes ==
  /\ status \in [Tasks -> Statuses \cup {"unborn", "deleted"}]
  /\ retries \in [Tasks -> Counts]
  /\ disk \in [Tasks -> BOOLEAN]

JobTypes == queued \in [Queues -> [Tasks -> Nat]] /\ scheduled \in [Tasks -> Nat]

WorkerTypes ==
  /\ wpc \in [Workers -> WorkerPcs]
  /\ wtask \in [Workers -> Tasks \cup {NoTask}]
  /\ \A w \in Workers : wpc[w] = "idle" <=> wtask[w] = NoTask
  /\ wn \in [Workers -> Counts]
  /\ wseen \in [Workers -> Statuses]

RequestTypes ==
  /\ rpc \in [Requests -> RequestPcs]
  /\ rset \in [Requests -> SUBSET Tasks]
  /\ rcopy \in [Requests -> [Tasks -> Counts]]
  /\ \A r \in Requests : rpc[r] = "retry" =>
       \A t \in rset[r] : rcopy[r][t] < MaxRetries + MaxManual

AppTypes ==
  /\ app \in {"up", "down", "recovering", "recovered"}
  /\ dirty \subseteq Tasks /\ exposed \subseteq Tasks
  /\ spent \in [Faults -> Nat]

TypeOK == RowTypes /\ JobTypes /\ WorkerTypes /\ RequestTypes /\ AppTypes

(* The workers that are executing the download of a task: from the moment
   the job is past the status check to the commit of its outcome. *)
Running(w) == wpc[w] \in {"accepted", "downloading", "landed", "cleaned", "requeued"}

(* No two workers execute the same task at the same time: they would write
   the same temporary file, and the failure of one unlinks the final file of
   the other.  The status check of _do_download is a read that takes no lock,
   so this rests on how jobs are handed out. *)
AtMostOneRun ==
  \A v, w \in Workers :
    v # w /\ Running(v) /\ Running(w) => wtask[v] # wtask[w]

(* A task is leaving once its deletion has nothing left to do but remove its
   jobs and its row, whatever a running worker still writes to that row. *)
Leaving(t) ==
  \/ status[t] = "deleted"
  \/ \E r \in Requests : t \in rset[r] /\ rpc[r] \in {"purge", "erase"}

(* A task that waits has a job, or a handler or worker about to act on it; a
   task shown as downloading has a worker. *)
Carried(t) ==
  \/ \E q \in Queues : queued[q][t] > 0
  \/ scheduled[t] > 0
  \/ \E w \in Workers : wtask[w] = t /\ wpc[w] \in {"popped", "accepted"}
  \/ \E r \in Requests : t \in rset[r] /\ rpc[r] = "enqueue"

Worked(t) ==
  \E w \in Workers : /\ wtask[w] = t
                     /\ wpc[w] \in {"downloading", "landed", "cleaned", "requeued"}

Stranded ==
  {t \in Tasks : /\ ~Leaving(t)
                 /\ \/ status[t] \in Waiting /\ ~Carried(t)
                    \/ status[t] = "downloading" /\ ~Worked(t)}

(* No task is forgotten by the queues: each task that nothing will ever pick
   up is one whose job was lost with its worker (RQ does not run it again)
   or whose handler was stopped between commit and enqueue.  What happens once
   the application has restarted is RecoveryCovers. *)
StrandedBound ==
  spent["app"] = 0 => Cardinality(Stranded) <= spent["job"] + spent["request"]

(* A task becomes COMPLETED only while its file is on disk: the UPDATE of
   the worker is unconditional, and another worker's cleanup may unlink the
   final file between the move and the commit. *)
CompletedHasFile ==
  [][\A t \in Tasks :
       status[t] # "completed" /\ status'[t] = "completed" => disk'[t]]_vars

(* The retry count of a row never goes back: every writer computes it from a
   copy it loaded earlier, so a stale copy would give retries back. *)
RetriesOnlyGrow == [][\A t \in Tasks : retries'[t] >= retries[t]]_vars

(* A failed task is nobody's: no job, handler or worker is left that could
   start it, so the manual retry that FAILED allows starts exactly one run. *)
FailedIsIdle ==
  \A t \in Tasks : status[t] = "failed" =>
    ~Carried(t) /\ \A w \in Workers : ~(wtask[w] = t /\ Running(w))

(* CANCELLED is only a passing mark of a deletion in progress, although
   retry_task also accepts it and running workers overwrite it. *)
CancelledIsTransient ==
  \A t \in Tasks : status[t] = "cancelled" =>
    \E r \in Requests : t \in rset[r] /\ rpc[r] \in {"purge", "erase"}

(* Nothing is left behind: while the application serves, each task that
   nothing will ever pick up lost a job or a handler since the last recovery
   began (RQ runs no job again), or had its job taken before the recovery
   committed the row.  Every crash before that, of workers and handlers and of
   an earlier recovery, is made good, and so is what the commit of the recovery
   writes over (retry_handler.py:71-116, main.py:62-65). *)
RecoveryCovers == app = "up" => Stranded \subseteq exposed

(* "On startup, find tasks in DOWNLOADING or RETRYING state and re-enqueue
   them" (retry_handler.py:74-75): a task the recovery marks RETRYING has a job
   or someone at work on it. *)
Reenqueued ==
  [][app = "recovering" /\ app' = "recovered" => dirty \cap Stranded' = {}]_vars

(* Every task that waits or downloads eventually ends or is removed, unless it
   is itself one of those that RecoveryCovers speaks of. *)
Settles ==
  \A t \in Tasks : status[t] \in Active ~> (status[t] \notin Active \/ t \in exposed)

-----------------------------------------------------------------------------
(* Refinement: each task goes through the stages of TaskLifecycle. *)
Stage(t) ==
  IF Leaving(t) THEN "gone"
  ELSE CASE status[t] = "unborn" -> "none"
         [] status[t] \in Waiting -> "waiting"
         [] status[t] = "downloading" -> "running"
         [] status[t] = "completed" -> "done"
         [] OTHER -> "failed"

Life(t) == INSTANCE TaskLifecycle WITH stage <- Stage(t), attempts <- retries[t]

-----------------------------------------------------------------------------
(* Why at most one worker runs a task: whatever may start a run of t - a job
   in a queue, a scheduled job, a worker that holds one, a handler about to
   enqueue one - exists at most once.  A job that schedule_retry puts into
   Redis before the row is committed coexists with the worker or handler that
   is about to commit, and is tied to what that one will write. *)
Busy(w, t) == wtask[w] = t /\ wpc[w] \in BusyPcs
Handing(r, t) == t \in rset[r] /\ rpc[r] = "enqueue"
Unqueued(t) == \A q \in Queues : queued[q][t] = 0
Unclaimed(t) == /\ Unqueued(t)
                /\ \A w \in Workers : ~Busy(w, t)
                /\ \A r \in Requests : ~Handing(r, t)

OneQueuedJob(t) ==
  \A q \in Queues : queued[q][t] > 0 =>
    /\ queued[q][t] = 1 /\ scheduled[t] = 0
    /\ \A p \in Queues \ {q} : queued[p][t] = 0
    /\ \A w \in Workers : ~Busy(w, t)
    /\ \A r \in Requests : ~Handing(r, t)

OneScheduledJob(t) ==
  scheduled[t] > 0 =>
    /\ scheduled[t] = 1
    /\ \A w \in Workers : Busy(w, t) => wpc[w] = "requeued"
    /\ \A r \in Requests : ~Handing(r, t)

OneHolder(t) ==
  /\ \A v, w \in Workers : Busy(v, t) /\ Busy(w, t) => v = w
  /\ \A w \in Workers, r \in Requests : ~(Busy(w, t) /\ Handing(r, t))
  /\ \A r, s \in Requests : t \in rset[r] /\ t \in rset[s] => r = s

StatusTellsClaims(t) ==
  /\ status[t] = "unborn" =>
       /\ Unclaimed(t) /\ scheduled[t] = 0
       /\ \A r \in Requests : t \in rset[r] => rpc[r] = "insert"
  /\ status[t] = "failed" => Unclaimed(t) /\ scheduled[t] = 0
  /\ status[t] = "completed" =>
       /\ Unclaimed(t)
       /\ scheduled[t] > 0 =>
            \E r \in Requests : t \in rset[r] /\ rpc[r] = "revalidate"
  /\ status[t] = "cancelled" =>
       \E r \in Requests : t \in rset[r] /\ rpc[r] \in {"purge", "erase"}

PromisedJobs(n) == IF Exhausted(n) THEN 0 ELSE 1

HoldersAreUpToDate(t) ==
  /\ \A w \in Workers : wtask[w] = t =>
       /\ wpc[w] = "landed" => disk[t]
       /\ wpc[w] = "requeued" =>
            wn[w] = retries[t] /\ scheduled[t] = PromisedJobs(wn[w])
  /\ \A r \in Requests : t \in rset[r] =>
       /\ rpc[r] = "insert" => status[t] = "unborn"
       /\ rpc[r] = "retry" => status[t] = "failed" /\ rcopy[r][t] = retries[t]
       /\ rpc[r] = "revalidate" =>
            /\ status[t] = "completed" /\ rcopy[r][t] = retries[t]
            /\ scheduled[t] = PromisedJobs(rcopy[r][t])

TaskClaims(t) ==
  /\ OneQueuedJob(t) /\ OneScheduledJob(t) /\ OneHolder(t)
  /\ StatusTellsClaims(t) /\ HoldersAreUpToDate(t)

(* Each task has one claim at most, and what its holder will write is what
   the jobs in Redis already assume. *)
ExclusiveClaims == \A t \in Tasks : TaskClaims(t)
=============================================================================
