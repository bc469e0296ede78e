-------------------------- MODULE MediaClaimsProofs --------------------------
(***************************************************************************)
(* Why no task is downloaded twice at once.  As long as nothing interrupts *)
(* the handlers, whatever may start a run of a task exists once: the       *)
(* invariant ExclusiveClaims of MediaTasks, preserved by every action.     *)
(***************************************************************************)
EXTENDS MediaTasksProofs

(* Steady operation: one handler at a time acts on a task, no handler is cut
   short, the application does not restart, a retry delay outlasts the commit
   it precedes, and notify_complete does not raise.  Workers may lose jobs
   and files may disappear, any number of times. *)
Steady ==
  /\ ~Overlap /\ BackoffOutlastsCommit /\ ~NotifyRaises
  /\ Budget["app"] = 0 /\ Budget["request"] = 0

LEMMA ClaimsInit == Init => ExclusiveClaims
BY TasksAssumption
   DEF Init, ExclusiveClaims, TaskClaims, OneQueuedJob, OneScheduledJob, OneHolder,
       StatusTellsClaims, HoldersAreUpToDate, Unclaimed, Unqueued, Busy, BusyPcs, Handing

-----------------------------------------------------------------------------
(* Workers *)

(* A worker that ends its job or moves on within it claims nothing new. *)
LEMMA MovingOnClaimsNothing ==
  ASSUME WorkerTypes, NEW w \in Workers, wpc[w] \in BusyPcs \/ wpc'[w] \notin BusyPcs,
         WorkerRest(w) \/ (wpc' = [wpc EXCEPT ![w] = wpc'[w]] /\ UNCHANGED wtask),
         NEW u \in Tasks
  PROVE  \A v \in Workers : /\ Busy(v, u)' => Busy(v, u)
                            /\ v # w => wpc'[v] = wpc[v] /\ wtask'[v] = wtask[v]
BY TasksAssumption DEF WorkerTypes, WorkerRest, Busy, BusyPcs, WorkerPcs

LEMMA ClaimsPop ==
  ASSUME TypeOK, ExclusiveClaims, NEW w \in Workers, Pop(w), NEW u \in Tasks
  PROVE  TaskClaims(u)'
<1> USE DEF taskVars, requestVars
<1>1. PICK q \in Queues, t \in Tasks :
        /\ queued[q][t] > 0 /\ queued' = [queued EXCEPT ![q][t] = @ - 1]
        /\ wtask' = [wtask EXCEPT ![w] = t]
  BY ListensAssumption DEF Pop
<1>2. wpc[w] = "idle" /\ wpc' = [wpc EXCEPT ![w] = "popped"]
  BY DEF Pop
<1>3. /\ \A v \in Workers : Busy(v, u)' <=> Busy(v, u) \/ (v = w /\ u = t)
      /\ \A v \in Workers : v # w => wpc'[v] = wpc[v] /\ wtask'[v] = wtask[v]
      /\ wpc'[w] = "popped" /\ wtask'[w] = t
  BY <1>1, <1>2, TasksAssumption DEF TypeOK, WorkerTypes, Busy, BusyPcs
<1>4. \A r \in Requests : Handing(r, u)' = Handing(r, u) BY DEF Pop, Handing
<1>5. \A p \in Queues : queued'[p][u] =
        IF p = q /\ u = t THEN queued[p][u] - 1 ELSE queued[p][u]
  BY <1>1 DEF TypeOK, JobTypes
<1>6. TaskClaims(u) /\ TaskClaims(t) BY <1>1 DEF ExclusiveClaims
<1>7. \A p \in Queues : queued[p][u] \in Nat BY DEF TypeOK, JobTypes
<1> USE DEF TaskClaims, Pop
<1>8. OneQueuedJob(u)' BY <1>1, <1>3, <1>4, <1>5, <1>6, <1>7 DEF OneQueuedJob
<1>9. OneScheduledJob(u)'
  BY <1>1, <1>3, <1>4, <1>6 DEF OneQueuedJob, OneScheduledJob, Busy, TypeOK, JobTypes
<1>10. OneHolder(u)' BY <1>1, <1>3, <1>4, <1>6 DEF OneQueuedJob, OneHolder
<1>11. StatusTellsClaims(u)'
  BY <1>1, <1>3, <1>4, <1>5, <1>6, <1>7 DEF StatusTellsClaims, Unclaimed, Unqueued
<1>12. HoldersAreUpToDate(u)'
  BY <1>1, <1>3, <1>6 DEF HoldersAreUpToDate
<1> QED BY <1>8, <1>9, <1>10, <1>11, <1>12

LEMMA ClaimsLoad ==
  ASSUME TypeOK, ExclusiveClaims, NEW w \in Workers, Load(w), NEW u \in Tasks
  PROVE  TaskClaims(u)'
<1> DEFINE t == wtask[w]
<1> USE DEF taskVars, jobVars, requestVars
<1>1. wpc[w] = "popped" /\ wpc'[w] \in {"idle", "accepted"} /\ (t = u => Busy(w, u))
  BY DEF TypeOK, WorkerTypes, BusyPcs, Busy, Load, WorkerGoes, WorkerRest
<1>2. \A v \in Workers : /\ Busy(v, u)' => Busy(v, u)
                         /\ v # w => wpc'[v] = wpc[v] /\ wtask'[v] = wtask[v]
  BY <1>1, MovingOnClaimsNothing DEF TypeOK, WorkerTypes, BusyPcs, Load, WorkerGoes, WorkerRest
<1>3. \A r \in Requests : Handing(r, u)' = Handing(r, u) BY DEF Load, Handing
<1>4. TaskClaims(u) BY DEF ExclusiveClaims
<1> USE DEF TaskClaims, Load
<1>5. OneQueuedJob(u)' BY <1>2, <1>3, <1>4 DEF OneQueuedJob
<1>6. OneScheduledJob(u)' BY <1>1, <1>2, <1>3, <1>4 DEF OneScheduledJob, Busy, BusyPcs
<1>7. OneHolder(u)' BY <1>2, <1>3, <1>4 DEF OneHolder
<1>8. StatusTellsClaims(u)' BY <1>2, <1>3, <1>4 DEF StatusTellsClaims, Unclaimed, Unqueued
<1>9. HoldersAreUpToDate(u)'
  BY <1>1, <1>2, <1>4 DEF HoldersAreUpToDate, TypeOK, WorkerTypes, WorkerGoes, WorkerRest
<1> QED BY <1>5, <1>6, <1>7, <1>8, <1>9

LEMMA ClaimsCommitStart ==
  ASSUME TypeOK, ExclusiveClaims, NEW w \in Workers, CommitStart(w), NEW u \in Tasks
  PROVE  TaskClaims(u)'
<1> DEFINE t == wtask[w]
<1> USE DEF taskVars, jobVars, requestVars
<1>1. wpc[w] = "accepted" /\ wpc'[w] \in {"idle", "downloading"} /\ (t = u => Busy(w, u))
  BY DEF TypeOK, WorkerTypes, BusyPcs, Busy, CommitStart, WorkerGoes, WorkerRest
<1>2. \A v \in Workers : /\ Busy(v, u)' => Busy(v, u)
                         /\ v # w => wpc'[v] = wpc[v] /\ wtask'[v] = wtask[v]
  BY <1>1, MovingOnClaimsNothing DEF TypeOK, WorkerTypes, BusyPcs, CommitStart, WorkerGoes, WorkerRest
<1>3. \A r \in Requests : Handing(r, u)' = Handing(r, u) BY DEF CommitStart, Handing
<1>4. TaskClaims(u) BY DEF ExclusiveClaims
<1> USE DEF TaskClaims, CommitStart
<1>5. OneQueuedJob(u)' BY <1>2, <1>3, <1>4 DEF OneQueuedJob
<1>6. OneScheduledJob(u)' BY <1>1, <1>2, <1>3, <1>4 DEF OneScheduledJob, Busy, BusyPcs
<1>7. OneHolder(u)' BY <1>2, <1>3, <1>4 DEF OneHolder
<1>a. \/ status'[u] = status[u]
      \/ Busy(w, u) /\ status'[u] = "downloading"
      \/ Busy(w, u) /\ status'[u] = "failed" /\ wpc'[w] = "idle"
  BY <1>1 DEF TypeOK, RowTypes, WorkerGoes, WorkerRest, WorkerTypes
<1>b. Busy(w, u) => /\ Unqueued(u) /\ status[u] \notin {"unborn", "failed", "completed"}
                    /\ \A r \in Requests : ~Handing(r, u)
                    /\ scheduled[u] > 0 => wpc[w] = "requeued"
                    /\ \A v \in Workers : Busy(v, u) => v = w
  BY <1>4 DEF OneQueuedJob, OneScheduledJob, OneHolder, StatusTellsClaims, Unclaimed, Unqueued,
              TypeOK, JobTypes
<1>8. StatusTellsClaims(u)'
  <2>1. CASE status'[u] = status[u]
    BY <1>2, <1>3, <1>4, <2>1 DEF StatusTellsClaims, Unclaimed, Unqueued
  <2>2. CASE Busy(w, u) /\ status'[u] = "failed" /\ wpc'[w] = "idle"
    BY <1>1, <1>2, <1>3, <1>b, <2>2
    DEF StatusTellsClaims, Unclaimed, Unqueued, Busy, BusyPcs, TypeOK, JobTypes
  <2>3. CASE Busy(w, u) /\ status'[u] = "downloading" BY <2>3 DEF StatusTellsClaims
  <2> QED BY <1>a, <2>1, <2>2, <2>3
<1>c. \A v \in Workers : v # w => wn'[v] = wn[v]
  BY DEF TypeOK, WorkerTypes, WorkerRest, WorkerGoes
<1>9. HoldersAreUpToDate(u)'
  BY <1>1, <1>2, <1>4, <1>a, <1>b, <1>c DEF HoldersAreUpToDate, Busy, BusyPcs
<1> QED BY <1>5, <1>6, <1>7, <1>8, <1>9

LEMMA ClaimsDownloadLands ==
  ASSUME TypeOK, ExclusiveClaims, NEW w \in Workers, DownloadLands(w), NEW u \in Tasks
  PROVE  TaskClaims(u)'
<1> DEFINE t == wtask[w]
<1> USE DEF taskVars, jobVars, requestVars
<1>1. wpc[w] = "downloading" /\ wpc'[w] = "landed" /\ (t = u => Busy(w, u))
  BY DEF TypeOK, WorkerTypes, BusyPcs, Busy, DownloadLands, WorkerGoes
<1>2. \A v \in Workers : /\ Busy(v, u)' => Busy(v, u)
                         /\ v # w => wpc'[v] = wpc[v] /\ wtask'[v] = wtask[v]
  BY <1>1, MovingOnClaimsNothing DEF TypeOK, WorkerTypes, BusyPcs, DownloadLands, WorkerGoes
<1>3. \A r \in Requests : Handing(r, u)' = Handing(r, u) BY DEF DownloadLands, Handing
<1>4. TaskClaims(u) BY DEF ExclusiveClaims
<1> USE DEF TaskClaims, DownloadLands
<1>5. OneQueuedJob(u)' BY <1>2, <1>3, <1>4 DEF OneQueuedJob
<1>6. OneScheduledJob(u)' BY <1>1, <1>2, <1>3, <1>4 DEF OneScheduledJob, Busy, BusyPcs
<1>7. OneHolder(u)' BY <1>2, <1>3, <1>4 DEF OneHolder
<1>8. StatusTellsClaims(u)' BY <1>2, <1>3, <1>4 DEF StatusTellsClaims, Unclaimed, Unqueued
<1>a. disk'[u] = (disk[u] \/ u = t) /\ disk' \in [Tasks -> BOOLEAN]
  BY DEF TypeOK, RowTypes
<1>c. \A v \in Workers : v # w => wn'[v] = wn[v]
  BY DEF TypeOK, WorkerTypes, WorkerRest, WorkerGoes
<1>9. HoldersAreUpToDate(u)'
  BY <1>1, <1>2, <1>4, <1>a, <1>c DEF HoldersAreUpToDate, Busy, BusyPcs
<1> QED BY <1>5, <1>6, <1>7, <1>8, <1>9

LEMMA ClaimsCommitCompleted ==
  ASSUME TypeOK, ExclusiveClaims, NEW w \in Workers, CommitCompleted(w), NEW u \in Tasks
  PROVE  TaskClaims(u)'
<1> DEFINE t == wtask[w]
<1> USE DEF taskVars, jobVars, requestVars
<1>1. wpc[w] = "landed" /\ wpc'[w] = "announcing" /\ (t = u => Busy(w, u))
  BY DEF TypeOK, WorkerTypes, BusyPcs, Busy, CommitCompleted, WorkerGoes
<1>2. \A v \in Workers : /\ Busy(v, u)' => Busy(v, u)
                         /\ v # w => wpc'[v] = wpc[v] /\ wtask'[v] = wtask[v]
  BY <1>1, MovingOnClaimsNothing DEF TypeOK, WorkerTypes, BusyPcs, CommitCompleted, WorkerGoes
<1>3. \A r \in Requests : Handing(r, u)' = Handing(r, u) BY DEF CommitCompleted, Handing
<1>4. TaskClaims(u) BY DEF ExclusiveClaims
<1> USE DEF TaskClaims, CommitCompleted
<1>5. OneQueuedJob(u)' BY <1>2, <1>3, <1>4 DEF OneQueuedJob
<1>6. OneScheduledJob(u)' BY <1>1, <1>2, <1>3, <1>4 DEF OneScheduledJob, Busy, BusyPcs
<1>7. OneHolder(u)' BY <1>2, <1>3, <1>4 DEF OneHolder
<1>a. status'[u] = status[u] \/ (Busy(w, u) /\ status'[u] = "completed")
  BY <1>1 DEF TypeOK, RowTypes
<1>b. Busy(w, u) => /\ Unqueued(u) /\ status[u] \notin {"unborn", "failed", "completed"}
                    /\ \A r \in Requests : ~Handing(r, u)
                    /\ scheduled[u] > 0 => wpc[w] = "requeued"
                    /\ \A v \in Workers : Busy(v, u) => v = w
  BY <1>4 DEF OneQueuedJob, OneScheduledJob, OneHolder, StatusTellsClaims, Unclaimed, Unqueued,
              TypeOK, JobTypes
<1>8. StatusTellsClaims(u)'
  <2>1. CASE status'[u] = status[u]
    BY <1>2, <1>3, <1>4, <2>1 DEF StatusTellsClaims, Unclaimed, Unqueued
  <2>2. CASE Busy(w, u) /\ status'[u] = "completed"
    BY <1>1, <1>2, <1>3, <1>b, <2>2
    DEF StatusTellsClaims, Unclaimed, Unqueued, Busy, BusyPcs, TypeOK, JobTypes
  <2> QED BY <1>a, <2>1, <2>2
<1>c. \A v \in Workers : v # w => wn'[v] = wn[v]
  BY DEF TypeOK, WorkerTypes, WorkerRest, WorkerGoes
<1>9. HoldersAreUpToDate(u)'
  BY <1>1, <1>2, <1>4, <1>a, <1>b, <1>c DEF HoldersAreUpToDate, Busy, BusyPcs
<1> QED BY <1>5, <1>6, <1>7, <1>8, <1>9

LEMMA ClaimsDownloadFails ==
  ASSUME TypeOK, ExclusiveClaims, Steady, NEW w \in Workers, DownloadFails(w), NEW u \in Tasks
  PROVE  TaskClaims(u)'
<1> DEFINE t == wtask[w]
<1> USE DEF taskVars, jobVars, requestVars
<1>1. wpc[w] \in {"downloading", "landed"} /\ wpc'[w] = "cleaned" /\ (t = u => Busy(w, u))
  BY DEF TypeOK, WorkerTypes, BusyPcs, Busy, DownloadFails, MayRaise, WorkerGoes, Steady
<1>2. \A v \in Workers : /\ Busy(v, u)' => Busy(v, u)
                         /\ v # w => wpc'[v] = wpc[v] /\ wtask'[v] = wtask[v]
  BY <1>1, MovingOnClaimsNothing DEF TypeOK, WorkerTypes, BusyPcs, DownloadFails, MayRaise, WorkerGoes, Steady
<1>3. \A r \in Requests : Handing(r, u)' = Handing(r, u) BY DEF DownloadFails, Handing
<1>4. TaskClaims(u) BY DEF ExclusiveClaims
<1> USE DEF TaskClaims, DownloadFails
<1>5. OneQueuedJob(u)' BY <1>2, <1>3, <1>4 DEF OneQueuedJob
<1>6. OneScheduledJob(u)' BY <1>1, <1>2, <1>3, <1>4 DEF OneScheduledJob, Busy, BusyPcs
<1>7. OneHolder(u)' BY <1>2, <1>3, <1>4 DEF OneHolder
<1>8. StatusTellsClaims(u)' BY <1>2, <1>3, <1>4 DEF StatusTellsClaims, Unclaimed, Unqueued
<1>b. Busy(w, u) => /\ Unqueued(u) /\ status[u] \notin {"unborn", "failed", "completed"}
                    /\ \A r \in Requests : ~Handing(r, u)
                    /\ scheduled[u] > 0 => wpc[w] = "requeued"
                    /\ \A v \in Workers : Busy(v, u) => v = w
  BY <1>4 DEF OneQueuedJob, OneScheduledJob, OneHolder, StatusTellsClaims, Unclaimed, Unqueued,
              TypeOK, JobTypes
<1>a. t # u => disk'[u] = disk[u]
  BY DEF TypeOK, RowTypes
<1>c. \A v \in Workers : v # w => wn'[v] = wn[v]
  BY DEF TypeOK, WorkerTypes, WorkerRest, WorkerGoes
<1>9. HoldersAreUpToDate(u)'
  BY <1>1, <1>2, <1>4, <1>a, <1>b, <1>c DEF HoldersAreUpToDate, Busy, BusyPcs
<1> QED BY <1>5, <1>6, <1>7, <1>8, <1>9

LEMMA ClaimsReloadAndSchedule ==
  ASSUME TypeOK, ExclusiveClaims, NEW w \in Workers, ReloadAndSchedule(w), NEW u \in Tasks
  PROVE  TaskClaims(u)'
<1> DEFINE t == wtask[w]
<1> USE DEF taskVars, jobVars, requestVars
<1>1. wpc[w] = "cleaned" /\ wpc'[w] \in {"idle", "requeued"} /\ (t = u => Busy(w, u))
  BY DEF TypeOK, WorkerTypes, BusyPcs, Busy, ReloadAndSchedule, WorkerRest
<1>2. \A v \in Workers : /\ Busy(v, u)' => Busy(v, u)
                         /\ v # w => wpc'[v] = wpc[v] /\ wtask'[v] = wtask[v]
  BY <1>1, MovingOnClaimsNothing DEF TypeOK, WorkerTypes, BusyPcs, ReloadAndSchedule, WorkerRest
<1>3. \A r \in Requests : Handing(r, u)' = Handing(r, u) BY DEF ReloadAndSchedule, Handing
<1>4. TaskClaims(u) BY DEF ExclusiveClaims
<1> USE DEF TaskClaims, ReloadAndSchedule
<1>b. Busy(w, u) => /\ Unqueued(u) /\ status[u] \notin {"unborn", "failed", "completed"}
                    /\ \A r \in Requests : ~Handing(r, u)
                    /\ scheduled[u] > 0 => wpc[w] = "requeued"
                    /\ \A v \in Workers : Busy(v, u) => v = w
  BY <1>4 DEF OneQueuedJob, OneScheduledJob, OneHolder, StatusTellsClaims, Unclaimed, Unqueued,
              TypeOK, JobTypes
<1>a. \/ scheduled'[u] = scheduled[u]
      \/ /\ Busy(w, u) /\ wpc'[w] = "requeued" /\ wn'[w] = retries[u]
         /\ scheduled'[u] = scheduled[u] + PromisedJobs(retries[u])
  BY <1>1 DEF ScheduledRetry, PromisedJobs, TypeOK, JobTypes, WorkerTypes, WorkerRest
<1>5. OneQueuedJob(u)'
  BY <1>2, <1>3, <1>4, <1>a, <1>b DEF OneQueuedJob, Unqueued
<1>6. OneScheduledJob(u)'
  <2>1. CASE scheduled'[u] = scheduled[u]
    BY <1>1, <1>2, <1>3, <1>4, <2>1 DEF OneScheduledJob, Busy, BusyPcs
  <2>2. CASE Busy(w, u) /\ wpc'[w] = "requeued" /\ scheduled'[u] # scheduled[u]
    BY <1>1, <1>2, <1>3, <1>a, <1>b, <2>2
    DEF OneScheduledJob, PromisedJobs, TypeOK, JobTypes
  <2> QED BY <1>a, <2>1, <2>2
<1>7. OneHolder(u)' BY <1>2, <1>3, <1>4 DEF OneHolder
<1>8. StatusTellsClaims(u)'
  BY <1>2, <1>3, <1>4, <1>a, <1>b DEF StatusTellsClaims, Unclaimed, Unqueued
<1>c. \A r \in Requests : u \in rset[r] /\ rpc[r] = "revalidate" => status[u] = "completed"
  BY <1>4 DEF HoldersAreUpToDate
<1>d. \A v \in Workers : v # w => wn'[v] = wn[v]
  BY DEF TypeOK, WorkerTypes, WorkerRest
<1>e. t = u /\ wpc'[w] = "requeued" =>
        wn'[w] = retries[u] /\ scheduled'[u] = PromisedJobs(wn'[w])
  BY <1>1, <1>b DEF ScheduledRetry, PromisedJobs, TypeOK, JobTypes, WorkerTypes, WorkerRest,
                    WorkerPcs
<1>9. HoldersAreUpToDate(u)'
  <2>1. ASSUME NEW v \in Workers, wtask'[v] = u
        PROVE  /\ wpc'[v] = "landed" => disk'[u]
               /\ wpc'[v] = "requeued" =>
                    wn'[v] = retries'[u] /\ scheduled'[u] = PromisedJobs(wn'[v])
    BY <1>1, <1>2, <1>4, <1>a, <1>b, <1>d, <1>e, <2>1
    DEF HoldersAreUpToDate, Busy, BusyPcs, WorkerRest, TypeOK, WorkerTypes
  <2>2. ASSUME NEW r \in Requests, u \in rset'[r]
        PROVE  /\ rpc'[r] = "insert" => status'[u] = "unborn"
               /\ rpc'[r] = "retry" => status'[u] = "failed" /\ rcopy'[r][u] = retries'[u]
               /\ rpc'[r] = "revalidate" =>
                    /\ status'[u] = "completed" /\ rcopy'[r][u] = retries'[u]
                    /\ scheduled'[u] = PromisedJobs(rcopy'[r][u])
    BY <1>4, <1>a, <1>b, <1>c, <2>2 DEF HoldersAreUpToDate
  <2> QED BY <2>1, <2>2 DEF HoldersAreUpToDate
<1> QED BY <1>5, <1>6, <1>7, <1>8, <1>9

LEMMA ClaimsCommitRetry ==
  ASSUME TypeOK, ExclusiveClaims, NEW w \in Workers, CommitRetry(w), NEW u \in Tasks
  PROVE  TaskClaims(u)'
<1> DEFINE t == wtask[w]
<1> USE DEF taskVars, jobVars, requestVars
<1>1. wpc[w] = "requeued" /\ wpc'[w] \in {"idle", "reporting"} /\ (t = u => Busy(w, u))
  BY DEF TypeOK, WorkerTypes, BusyPcs, Busy, CommitRetry, WorkerGoes, WorkerRest
<1>2. \A v \in Workers : /\ Busy(v, u)' => Busy(v, u)
                         /\ v # w => wpc'[v] = wpc[v] /\ wtask'[v] = wtask[v]
  BY <1>1, MovingOnClaimsNothing DEF TypeOK, WorkerTypes, BusyPcs, CommitRetry, WorkerGoes, WorkerRest
<1>3. \A r \in Requests : Handing(r, u)' = Handing(r, u) BY DEF CommitRetry, Handing
<1>4. TaskClaims(u) BY DEF ExclusiveClaims
<1> USE DEF TaskClaims, CommitRetry
<1>5. OneQueuedJob(u)' BY <1>2, <1>3, <1>4 DEF OneQueuedJob
<1>6. OneScheduledJob(u)' BY <1>1, <1>2, <1>3, <1>4 DEF OneScheduledJob, Busy, BusyPcs
<1>7. OneHolder(u)' BY <1>2, <1>3, <1>4 DEF OneHolder
<1>b. Busy(w, u) => /\ Unqueued(u) /\ status[u] \notin {"unborn", "failed", "completed"}
                    /\ \A r \in Requests : ~Handing(r, u)
                    /\ scheduled[u] = PromisedJobs(wn[w]) /\ wn[w] = retries[u]
                    /\ \A v \in Workers : Busy(v, u) => v = w
  BY <1>1, <1>4 DEF HoldersAreUpToDate, Busy,
              OneQueuedJob, OneScheduledJob, OneHolder, StatusTellsClaims, Unclaimed, Unqueued,
              TypeOK, JobTypes
<1>a. \/ status'[u] = status[u] /\ retries'[u] = retries[u]
      \/ /\ Busy(w, u)
         /\ \/ status'[u] = status[u]
            \/ status'[u] = "retrying"
            \/ status'[u] = "failed" /\ PromisedJobs(wn[w]) = 0
  BY <1>1 DEF TypeOK, RowTypes, Verdict, PromisedJobs
<1>8. StatusTellsClaims(u)'
  <2>1. CASE status'[u] = status[u]
    BY <1>2, <1>3, <1>4, <2>1 DEF StatusTellsClaims, Unclaimed, Unqueued
  <2>2. CASE Busy(w, u) /\ status'[u] = "failed" /\ PromisedJobs(wn[w]) = 0
    BY <1>1, <1>2, <1>3, <1>b, <2>2
    DEF StatusTellsClaims, Unclaimed, Unqueued, Busy, BusyPcs
  <2>3. CASE status'[u] = "retrying" BY <2>3 DEF StatusTellsClaims
  <2> QED BY <1>a, <2>1, <2>2, <2>3
<1>c. \A v \in Workers : v # w => wn'[v] = wn[v]
  BY DEF TypeOK, WorkerTypes, WorkerRest, WorkerGoes
<1>9. HoldersAreUpToDate(u)'
  BY <1>1, <1>2, <1>4, <1>a, <1>b, <1>c DEF HoldersAreUpToDate, Busy, BusyPcs
<1> QED BY <1>5, <1>6, <1>7, <1>8, <1>9

LEMMA ClaimsNotifyDone ==
  ASSUME TypeOK, ExclusiveClaims, NEW w \in Workers, NotifyDone(w), NEW u \in Tasks
  PROVE  TaskClaims(u)'
<1> DEFINE t == wtask[w]
<1> USE DEF taskVars, jobVars, requestVars
<1>1. wpc'[w] = "idle"
  BY DEF TypeOK, WorkerTypes, BusyPcs, Busy, NotifyDone, WorkerRest
<1>2. \A v \in Workers : /\ Busy(v, u)' => Busy(v, u)
                         /\ v # w => wpc'[v] = wpc[v] /\ wtask'[v] = wtask[v]
  BY <1>1, MovingOnClaimsNothing DEF TypeOK, WorkerTypes, BusyPcs, NotifyDone, WorkerRest
<1>3. \A r \in Requests : Handing(r, u)' = Handing(r, u) BY DEF NotifyDone, Handing
<1>4. TaskClaims(u) BY DEF ExclusiveClaims
<1> USE DEF TaskClaims, NotifyDone
<1>5. OneQueuedJob(u)' BY <1>2, <1>3, <1>4 DEF OneQueuedJob
<1>6. OneScheduledJob(u)' BY <1>1, <1>2, <1>3, <1>4 DEF OneScheduledJob, Busy, BusyPcs
<1>7. OneHolder(u)' BY <1>2, <1>3, <1>4 DEF OneHolder
<1>8. StatusTellsClaims(u)' BY <1>2, <1>3, <1>4 DEF StatusTellsClaims, Unclaimed, Unqueued
<1>9. HoldersAreUpToDate(u)'
  BY <1>1, <1>2, <1>4 DEF HoldersAreUpToDate, TypeOK, WorkerTypes, WorkerGoes, WorkerRest
<1> QED BY <1>5, <1>6, <1>7, <1>8, <1>9

LEMMA ClaimsJobLost ==
  ASSUME TypeOK, ExclusiveClaims, NEW w \in Workers, JobLost(w), NEW u \in Tasks
  PROVE  TaskClaims(u)'
<1> DEFINE t == wtask[w]
<1> USE DEF taskVars, jobVars, requestVars
<1>1. wpc'[w] = "idle"
  BY DEF TypeOK, WorkerTypes, BusyPcs, Busy, JobLost, WorkerRest
<1>2. \A v \in Workers : /\ Busy(v, u)' => Busy(v, u)
                         /\ v # w => wpc'[v] = wpc[v] /\ wtask'[v] = wtask[v]
  BY <1>1, MovingOnClaimsNothing DEF TypeOK, WorkerTypes, BusyPcs, JobLost, WorkerRest
<1>3. \A r \in Requests : Handing(r, u)' = Handing(r, u) BY DEF JobLost, Handing
<1>4. TaskClaims(u) BY DEF ExclusiveClaims
<1> USE DEF TaskClaims, JobLost
<1>5. OneQueuedJob(u)' BY <1>2, <1>3, <1>4 DEF OneQueuedJob
<1>6. OneScheduledJob(u)' BY <1>1, <1>2, <1>3, <1>4 DEF OneScheduledJob, Busy, BusyPcs
<1>7. OneHolder(u)' BY <1>2, <1>3, <1>4 DEF OneHolder
<1>8. StatusTellsClaims(u)' BY <1>2, <1>3, <1>4 DEF StatusTellsClaims, Unclaimed, Unqueued
<1>9. HoldersAreUpToDate(u)'
  BY <1>1, <1>2, <1>4 DEF HoldersAreUpToDate, TypeOK, WorkerTypes, WorkerGoes, WorkerRest
<1> QED BY <1>5, <1>6, <1>7, <1>8, <1>9

-----------------------------------------------------------------------------
(* Handlers *)

LEMMA ClaimsInsert ==
  ASSUME TypeOK, ExclusiveClaims, NEW r \in Requests, Insert(r), NEW u \in Tasks
  PROVE  TaskClaims(u)'
<1> USE DEF taskVars, jobVars, workerVars, requestVars
<1>1. rpc[r] = "insert" /\ rpc'[r] = "enqueue" /\ rset'[r] = rset[r] /\ rcopy'[r] = rcopy[r]
  BY DEF TypeOK, RequestTypes, Insert, RequestGoes
<1>2. \A s \in Requests : s # r => /\ rpc'[s] = rpc[s] /\ rset'[s] = rset[s]
                                    /\ rcopy'[s] = rcopy[s]
  BY DEF TypeOK, RequestTypes, Insert, RequestGoes
<1>3. \A w \in Workers : Busy(w, u)' = Busy(w, u) BY DEF Insert, Busy
<1>4. TaskClaims(u) BY DEF ExclusiveClaims
<1> USE DEF TaskClaims
<1>5. u \in rset[r] => Unclaimed(u) /\ scheduled[u] = 0 /\ \A s \in Requests : u \in rset[s] => s = r
  BY <1>1, <1>4 DEF HoldersAreUpToDate, StatusTellsClaims, OneHolder
<1>6. status'[u] = (IF u \in rset[r] THEN "pending" ELSE status[u]) /\ UNCHANGED <<queued, scheduled, retries>>
  BY DEF Insert
<1>7. \A s \in Requests : Handing(s, u)' <=> Handing(s, u) \/ (s = r /\ u \in rset[r])
  BY <1>1, <1>2 DEF Handing
<1>8. scheduled[u] \in Nat /\ \A q \in Queues : queued[q][u] \in Nat
  BY DEF TypeOK, JobTypes
<1>9. OneQueuedJob(u)'
  BY <1>3, <1>4, <1>5, <1>6, <1>7, <1>8 DEF OneQueuedJob, Unclaimed, Unqueued
<1>10. OneScheduledJob(u)'
  BY <1>3, <1>4, <1>5, <1>6, <1>7, <1>8 DEF OneScheduledJob, Unclaimed, Insert
<1>11. OneHolder(u)'
  BY <1>1, <1>2, <1>3, <1>4, <1>5, <1>7 DEF OneHolder, Unclaimed
<1>12. StatusTellsClaims(u)'
  BY <1>1, <1>2, <1>3, <1>4, <1>5, <1>6, <1>7, <1>8
  DEF StatusTellsClaims, Unclaimed, Unqueued
<1>13. HoldersAreUpToDate(u)'
  BY <1>1, <1>2, <1>3, <1>4, <1>5, <1>6
  DEF HoldersAreUpToDate, Unclaimed, Busy, BusyPcs, Insert
<1> QED BY <1>9, <1>10, <1>11, <1>12, <1>13

LEMMA ClaimsEnqueue ==
  ASSUME TypeOK, ExclusiveClaims, NEW r \in Requests, Enqueue(r), NEW u \in Tasks
  PROVE  TaskClaims(u)'
<1> USE DEF taskVars, jobVars, workerVars, requestVars
<1>1. rpc[r] = "enqueue" /\ rpc'[r] = "idle" /\ rset'[r] = {}
  BY DEF TypeOK, RequestTypes, Enqueue, RequestRest
<1>2. \A s \in Requests : s # r => /\ rpc'[s] = rpc[s] /\ rset'[s] = rset[s]
                                    /\ rcopy'[s] = rcopy[s]
  BY DEF TypeOK, RequestTypes, Enqueue, RequestRest
<1>3. \A w \in Workers : Busy(w, u)' = Busy(w, u) BY DEF Enqueue, Busy
<1>4. TaskClaims(u) BY DEF ExclusiveClaims
<1> USE DEF TaskClaims
<1>5. u \in rset[r] => /\ Unqueued(u) /\ scheduled[u] = 0 /\ \A s \in Requests : u \in rset[s] => s = r
                       /\ \A w \in Workers : ~Busy(w, u)
                       /\ status[u] \notin {"unborn", "failed", "completed"}
  BY <1>1, <1>4
  DEF OneQueuedJob, OneScheduledJob, OneHolder, StatusTellsClaims, Unclaimed, Unqueued, Handing,
      TypeOK, JobTypes
<1>6. /\ UNCHANGED <<status, scheduled, retries>>
      /\ \/ UNCHANGED queued
         \/ \A q \in Queues : queued'[q][u] =
              queued[q][u] + (IF u \in rset[r] /\ q = HomeQueue(u) THEN 1 ELSE 0)
  BY DEF Enqueue, EnqueuedHome
<1>7. \A s \in Requests : Handing(s, u)' <=> Handing(s, u) /\ s # r
  BY <1>1, <1>2 DEF Handing
<1>8. scheduled[u] \in Nat /\ \A q \in Queues : queued[q][u] \in Nat
  BY DEF TypeOK, JobTypes
<1>9. OneQueuedJob(u)'
  <2>1. CASE UNCHANGED queued BY <1>3, <1>4, <1>6, <1>7, <2>1 DEF OneQueuedJob
  <2>2. CASE queued' # queued /\ u \notin rset[r]
    BY <1>3, <1>4, <1>6, <1>7, <1>8, <2>2 DEF OneQueuedJob
  <2>3. CASE queued' # queued /\ u \in rset[r]
    BY <1>1, <1>3, <1>5, <1>6, <1>7, <2>3 DEF OneQueuedJob, Unqueued, HomeQueue, Handing
  <2> QED BY <2>1, <2>2, <2>3
<1>10. OneScheduledJob(u)'
  BY <1>3, <1>4, <1>5, <1>6, <1>7, <1>8 DEF OneScheduledJob, Unclaimed, Enqueue
<1>11. OneHolder(u)'
  BY <1>1, <1>2, <1>3, <1>4, <1>5, <1>7 DEF OneHolder, Unclaimed
<1>12. StatusTellsClaims(u)'
  BY <1>1, <1>2, <1>3, <1>4, <1>5, <1>6, <1>7, <1>8
  DEF StatusTellsClaims, Unclaimed, Unqueued, HomeQueue
<1>13. HoldersAreUpToDate(u)'
  BY <1>1, <1>2, <1>3, <1>4, <1>5, <1>6
  DEF HoldersAreUpToDate, Unclaimed, Busy, BusyPcs, Enqueue
<1> QED BY <1>9, <1>10, <1>11, <1>12, <1>13

LEMMA ClaimsRetryCommit ==
  ASSUME TypeOK, ExclusiveClaims, NEW r \in Requests, RetryCommit(r), NEW u \in Tasks
  PROVE  TaskClaims(u)'
<1> USE DEF taskVars, jobVars, workerVars, requestVars
<1>1. /\ rpc[r] = "retry"
      /\ \/ rset'[r] = {} /\ rpc'[r] = "idle"
         \/ rpc'[r] = "enqueue" /\ rset'[r] = rset[r] /\ \A v \in rset[r] : HasRow(v)
  BY DEF TypeOK, RequestTypes, RetryCommit, RequestRest, RequestGoes
<1>2. \A s \in Requests : s # r => /\ rpc'[s] = rpc[s] /\ rset'[s] = rset[s]
                                    /\ rcopy'[s] = rcopy[s]
  BY DEF TypeOK, RequestTypes, RetryCommit, RequestRest, RequestGoes
<1>3. \A w \in Workers : Busy(w, u)' = Busy(w, u) BY DEF RetryCommit, Busy
<1>4. TaskClaims(u) BY DEF ExclusiveClaims
<1> USE DEF TaskClaims
<1>5. u \in rset[r] => status[u] = "failed" /\ Unclaimed(u) /\ scheduled[u] = 0 /\ \A s \in Requests : u \in rset[s] => s = r
  BY <1>1, <1>4 DEF HoldersAreUpToDate, StatusTellsClaims, OneHolder
<1>6. /\ UNCHANGED <<queued, scheduled>>
      /\ \/ rpc'[r] = "idle" /\ rset'[r] = {} /\ UNCHANGED <<status, retries>>
         \/ /\ rpc'[r] = "enqueue"
            /\ u \in rset[r] => status'[u] = "retrying"
            /\ u \notin rset[r] => status'[u] = status[u] /\ retries'[u] = retries[u]
  BY <1>1 DEF RetryCommit, RequestRest, RequestGoes, TypeOK, RequestTypes
<1>7. \A s \in Requests : Handing(s, u)' <=> Handing(s, u) \/ (s = r /\ u \in rset[r] /\ rpc'[r] = "enqueue")
  BY <1>1, <1>2 DEF Handing
<1>8. scheduled[u] \in Nat /\ \A q \in Queues : queued[q][u] \in Nat
  BY DEF TypeOK, JobTypes
<1>9. OneQueuedJob(u)'
  BY <1>3, <1>4, <1>5, <1>6, <1>7, <1>8 DEF OneQueuedJob, Unclaimed, Unqueued
<1>10. OneScheduledJob(u)'
  BY <1>3, <1>4, <1>5, <1>6, <1>7, <1>8 DEF OneScheduledJob, Unclaimed, RetryCommit
<1>11. OneHolder(u)'
  BY <1>1, <1>2, <1>3, <1>4, <1>5, <1>7 DEF OneHolder, Unclaimed
<1>12. StatusTellsClaims(u)'
  BY <1>1, <1>2, <1>3, <1>4, <1>5, <1>6, <1>7, <1>8
  DEF StatusTellsClaims, Unclaimed, Unqueued
<1>13. HoldersAreUpToDate(u)'
  BY <1>1, <1>2, <1>3, <1>4, <1>5, <1>6
  DEF HoldersAreUpToDate, Unclaimed, Busy, BusyPcs, RetryCommit
<1> QED BY <1>9, <1>10, <1>11, <1>12, <1>13

LEMMA ClaimsDeleteCancel ==
  ASSUME TypeOK, ExclusiveClaims, NEW r \in Requests, DeleteCancel(r), NEW u \in Tasks
  PROVE  TaskClaims(u)'
<1> USE DEF taskVars, jobVars, workerVars, requestVars
<1>1. /\ rpc[r] = "cancel"
      /\ \/ rset'[r] = {} /\ rpc'[r] = "idle" /\ status' = status
         \/ rpc'[r] = "purge" /\ rset'[r] = rset[r]
  BY DEF TypeOK, RequestTypes, DeleteCancel, RequestRest, RequestGoes
<1>2. \A s \in Requests : s # r => /\ rpc'[s] = rpc[s] /\ rset'[s] = rset[s]
                                    /\ rcopy'[s] = rcopy[s]
  BY DEF TypeOK, RequestTypes, DeleteCancel, RequestRest, RequestGoes
<1>3. \A w \in Workers : Busy(w, u)' = Busy(w, u) BY DEF DeleteCancel, Busy
<1>4. TaskClaims(u) BY DEF ExclusiveClaims
<1> USE DEF TaskClaims
<1>5. u \in rset[r] => status[u] # "unborn" /\ \A s \in Requests : u \in rset[s] => s = r
  BY <1>1, <1>4 DEF StatusTellsClaims, OneHolder
<1>6. /\ UNCHANGED <<queued, scheduled, retries>>
      /\ \/ status'[u] = status[u]
         \/ status'[u] = "cancelled" /\ u \in rset[r] /\ rpc'[r] = "purge"
  BY <1>1 DEF DeleteCancel, RequestRest, RequestGoes
<1>7. \A s \in Requests : Handing(s, u)' <=> Handing(s, u)
  BY <1>1, <1>2 DEF Handing
<1>8. scheduled[u] \in Nat /\ \A q \in Queues : queued[q][u] \in Nat
  BY DEF TypeOK, JobTypes
<1>9. OneQueuedJob(u)'
  BY <1>3, <1>4, <1>5, <1>6, <1>7, <1>8 DEF OneQueuedJob, Unclaimed, Unqueued
<1>10. OneScheduledJob(u)'
  BY <1>3, <1>4, <1>5, <1>6, <1>7, <1>8 DEF OneScheduledJob, Unclaimed, DeleteCancel
<1>11. OneHolder(u)'
  BY <1>1, <1>2, <1>3, <1>4, <1>5, <1>7 DEF OneHolder, Unclaimed
<1>12. StatusTellsClaims(u)'
  BY <1>1, <1>2, <1>3, <1>4, <1>5, <1>6, <1>7, <1>8
  DEF StatusTellsClaims, Unclaimed, Unqueued
<1>13. HoldersAreUpToDate(u)'
  BY <1>1, <1>2, <1>3, <1>4, <1>5, <1>6
  DEF HoldersAreUpToDate, Unclaimed, Busy, BusyPcs, DeleteCancel
<1> QED BY <1>9, <1>10, <1>11, <1>12, <1>13

LEMMA ClaimsPurge ==
  ASSUME TypeOK, ExclusiveClaims, NEW r \in Requests, Purge(r), NEW u \in Tasks
  PROVE  TaskClaims(u)'
<1> USE DEF taskVars, jobVars, workerVars, requestVars
<1>1. rpc[r] = "purge" /\ rpc'[r] = "erase" /\ rset'[r] = rset[r] /\ rcopy'[r] = rcopy[r]
  BY DEF TypeOK, RequestTypes, Purge, RequestGoes
<1>2. \A s \in Requests : s # r => /\ rpc'[s] = rpc[s] /\ rset'[s] = rset[s]
                                    /\ rcopy'[s] = rcopy[s]
  BY DEF TypeOK, RequestTypes, Purge, RequestGoes
<1>3. \A w \in Workers : Busy(w, u)' = Busy(w, u) BY DEF Purge, Busy
<1>4. TaskClaims(u) BY DEF ExclusiveClaims
<1> USE DEF TaskClaims
<1>5. u \in rset[r] => \A s \in Requests : u \in rset[s] => s = r
  BY <1>4 DEF OneHolder
<1>6. /\ UNCHANGED <<status, scheduled, retries>>
      /\ \A q \in Queues : queued'[q][u] = IF u \in rset[r] THEN 0 ELSE queued[q][u]
  BY DEF Purge
<1>7. \A s \in Requests : Handing(s, u)' <=> Handing(s, u)
  BY <1>1, <1>2 DEF Handing
<1>8. scheduled[u] \in Nat /\ \A q \in Queues : queued[q][u] \in Nat
  BY DEF TypeOK, JobTypes
<1>9. OneQueuedJob(u)'
  BY <1>3, <1>4, <1>5, <1>6, <1>7, <1>8 DEF OneQueuedJob, Unclaimed, Unqueued
<1>10. OneScheduledJob(u)'
  BY <1>3, <1>4, <1>5, <1>6, <1>7, <1>8 DEF OneScheduledJob, Unclaimed, Purge
<1>11. OneHolder(u)'
  BY <1>1, <1>2, <1>3, <1>4, <1>5, <1>7 DEF OneHolder, Unclaimed
<1>12. StatusTellsClaims(u)'
  BY <1>1, <1>2, <1>3, <1>4, <1>5, <1>6, <1>7, <1>8
  DEF StatusTellsClaims, Unclaimed, Unqueued
<1>13. HoldersAreUpToDate(u)'
  BY <1>1, <1>2, <1>3, <1>4, <1>5, <1>6
  DEF HoldersAreUpToDate, Unclaimed, Busy, BusyPcs, Purge
<1> QED BY <1>9, <1>10, <1>11, <1>12, <1>13

LEMMA ClaimsErase ==
  ASSUME TypeOK, ExclusiveClaims, NEW r \in Requests, Erase(r), NEW u \in Tasks
  PROVE  TaskClaims(u)'
<1> USE DEF taskVars, jobVars, workerVars, requestVars
<1>1. rpc[r] = "erase" /\ rpc'[r] = "idle" /\ rset'[r] = {}
  BY DEF TypeOK, RequestTypes, Erase, RequestRest
<1>2. \A s \in Requests : s # r => /\ rpc'[s] = rpc[s] /\ rset'[s] = rset[s]
                                    /\ rcopy'[s] = rcopy[s]
  BY DEF TypeOK, RequestTypes, Erase, RequestRest
<1>3. \A w \in Workers : Busy(w, u)' = Busy(w, u) BY DEF Erase, Busy
<1>4. TaskClaims(u) BY DEF ExclusiveClaims
<1> USE DEF TaskClaims
<1>5. u \in rset[r] => \A s \in Requests : u \in rset[s] => s = r
  BY <1>4 DEF OneHolder
<1>6. status'[u] = (IF u \in rset[r] THEN "deleted" ELSE status[u]) /\ UNCHANGED <<queued, scheduled, retries>>
  BY DEF Erase
<1>7. \A s \in Requests : Handing(s, u)' <=> Handing(s, u)
  BY <1>1, <1>2 DEF Handing
<1>8. scheduled[u] \in Nat /\ \A q \in Queues : queued[q][u] \in Nat
  BY DEF TypeOK, JobTypes
<1>9. OneQueuedJob(u)'
  BY <1>3, <1>4, <1>5, <1>6, <1>7, <1>8 DEF OneQueuedJob, Unclaimed, Unqueued
<1>10. OneScheduledJob(u)'
  BY <1>3, <1>4, <1>5, <1>6, <1>7, <1>8 DEF OneScheduledJob, Unclaimed, Erase
<1>11. OneHolder(u)'
  BY <1>1, <1>2, <1>3, <1>4, <1>5, <1>7 DEF OneHolder, Unclaimed
<1>12. StatusTellsClaims(u)'
  BY <1>1, <1>2, <1>3, <1>4, <1>5, <1>6, <1>7, <1>8
  DEF StatusTellsClaims, Unclaimed, Unqueued
<1>13. HoldersAreUpToDate(u)'
  BY <1>1, <1>2, <1>3, <1>4, <1>5, <1>6
  DEF HoldersAreUpToDate, Unclaimed, Busy, BusyPcs, Erase
<1> QED BY <1>9, <1>10, <1>11, <1>12, <1>13

LEMMA ClaimsRevalCommit ==
  ASSUME TypeOK, ExclusiveClaims, NEW r \in Requests, RevalCommit(r), NEW u \in Tasks
  PROVE  TaskClaims(u)'
<1> USE DEF taskVars, jobVars, workerVars, requestVars
<1>1. rpc[r] = "revalidate" /\ rpc'[r] = "idle" /\ rset'[r] = {}
  BY DEF TypeOK, RequestTypes, RevalCommit, RequestRest
<1>2. \A s \in Requests : s # r => /\ rpc'[s] = rpc[s] /\ rset'[s] = rset[s]
                                    /\ rcopy'[s] = rcopy[s]
  BY DEF TypeOK, RequestTypes, RevalCommit, RequestRest
<1>3. \A w \in Workers : Busy(w, u)' = Busy(w, u) BY DEF RevalCommit, Busy
<1>4. TaskClaims(u) BY DEF ExclusiveClaims
<1> USE DEF TaskClaims
<1>5. u \in rset[r] => /\ status[u] = "completed" /\ Unclaimed(u) /\ \A s \in Requests : u \in rset[s] => s = r
                       /\ scheduled[u] = PromisedJobs(rcopy[r][u])
  BY <1>1, <1>4 DEF HoldersAreUpToDate, StatusTellsClaims, OneHolder
<1>6. /\ UNCHANGED <<queued, scheduled>>
      /\ u \notin rset[r] => status'[u] = status[u] /\ retries'[u] = retries[u]
      /\ u \in rset[r] => status'[u] = Verdict(rcopy[r][u])
  <2>1. \A v \in rset[r] : HasRow(v)
    BY <1>1 DEF ExclusiveClaims, HoldersAreUpToDate, HasRow, Statuses, TypeOK, RequestTypes
  <2> QED BY <2>1 DEF RevalCommit
<1>7. \A s \in Requests : Handing(s, u)' <=> Handing(s, u)
  BY <1>1, <1>2 DEF Handing
<1>8. scheduled[u] \in Nat /\ \A q \in Queues : queued[q][u] \in Nat
  BY DEF TypeOK, JobTypes
<1>9. OneQueuedJob(u)'
  BY <1>3, <1>4, <1>5, <1>6, <1>7, <1>8 DEF OneQueuedJob, Unclaimed, Unqueued
<1>10. OneScheduledJob(u)'
  BY <1>3, <1>4, <1>5, <1>6, <1>7, <1>8 DEF OneScheduledJob, Unclaimed, RevalCommit
<1>11. OneHolder(u)'
  BY <1>1, <1>2, <1>3, <1>4, <1>5, <1>7 DEF OneHolder, Unclaimed
<1>12. StatusTellsClaims(u)'
  BY <1>1, <1>2, <1>3, <1>4, <1>5, <1>6, <1>7, <1>8
  DEF StatusTellsClaims, Unclaimed, Unqueued, Verdict, PromisedJobs
<1>13. HoldersAreUpToDate(u)'
  BY <1>1, <1>2, <1>3, <1>4, <1>5, <1>6
  DEF HoldersAreUpToDate, Unclaimed, Busy, BusyPcs, RevalCommit
<1> QED BY <1>9, <1>10, <1>11, <1>12, <1>13

LEMMA ClaimsRevalScan ==
  ASSUME TypeOK, ExclusiveClaims, Steady, NEW r \in Requests, RevalScan(r), NEW u \in Tasks
  PROVE  TaskClaims(u)'
<1> USE DEF taskVars, jobVars, workerVars, requestVars
<1>1. rpc[r] = "idle" /\ rpc'[r] = "revalidate" /\ rset'[r] = Invalid
  BY DEF TypeOK, RequestTypes, RevalScan, RequestStarts
<1>2. \A s \in Requests : s # r => /\ rpc'[s] = rpc[s] /\ rset'[s] = rset[s]
                                    /\ rcopy'[s] = rcopy[s]
  BY DEF TypeOK, RequestTypes, RevalScan, RequestStarts
<1>3. \A w \in Workers : Busy(w, u)' = Busy(w, u) BY DEF RevalScan, Busy
<1>4. TaskClaims(u) BY DEF ExclusiveClaims
<1> USE DEF TaskClaims
<1>5. u \in Invalid => /\ status[u] = "completed" /\ Unclaimed(u) /\ scheduled[u] = 0
                       /\ \A s \in Requests : u \notin rset[s]
  BY <1>4
  DEF StatusTellsClaims, RevalScan, Free, Invalid, Steady, TypeOK, JobTypes
<1>6. /\ UNCHANGED <<status, queued, retries>>
      /\ u \notin Invalid => scheduled'[u] = scheduled[u]
      /\ u \in Invalid => /\ rcopy'[r][u] = retries[u]
                          /\ scheduled'[u] = scheduled[u] + PromisedJobs(retries[u])
  BY DEF RevalScan, ScheduledRetry, PromisedJobs, TypeOK, JobTypes, RequestTypes
<1>7. \A s \in Requests : Handing(s, u)' <=> Handing(s, u) /\ s # r
  BY <1>1, <1>2 DEF Handing
<1>8. scheduled[u] \in Nat /\ \A q \in Queues : queued[q][u] \in Nat
  BY DEF TypeOK, JobTypes
<1>9. OneQueuedJob(u)'
  BY <1>3, <1>4, <1>5, <1>6, <1>7, <1>8 DEF OneQueuedJob, Unclaimed, Unqueued
<1>10. OneScheduledJob(u)'
  BY <1>3, <1>4, <1>5, <1>6, <1>7, <1>8 DEF OneScheduledJob, Unclaimed, RevalScan, PromisedJobs
<1>11. OneHolder(u)'
  BY <1>1, <1>2, <1>3, <1>4, <1>5, <1>7 DEF OneHolder, Unclaimed
<1>12. StatusTellsClaims(u)'
  BY <1>1, <1>2, <1>3, <1>4, <1>5, <1>6, <1>7, <1>8
  DEF StatusTellsClaims, Unclaimed, Unqueued, PromisedJobs
<1>13. HoldersAreUpToDate(u)'
  BY <1>1, <1>2, <1>3, <1>4, <1>5, <1>6
  DEF HoldersAreUpToDate, Unclaimed, Busy, BusyPcs, RevalScan, PromisedJobs
<1> QED BY <1>9, <1>10, <1>11, <1>12, <1>13

LEMMA ClaimsCreateTg ==
  ASSUME TypeOK, ExclusiveClaims, NEW r \in Requests, NEW t \in Tasks, CreateTg(r, t), NEW u \in Tasks
  PROVE  TaskClaims(u)'
<1> USE DEF taskVars, jobVars, workerVars, requestVars
<1>1. rpc[r] = "idle" /\ rpc'[r] = "enqueue" /\ rset'[r] = {t} /\ rcopy'[r] = rcopy[r]
  BY DEF TypeOK, RequestTypes, CreateTg, RequestStarts
<1>2. \A s \in Requests : s # r => /\ rpc'[s] = rpc[s] /\ rset'[s] = rset[s]
                                    /\ rcopy'[s] = rcopy[s]
  BY DEF TypeOK, RequestTypes, CreateTg, RequestStarts
<1>3. \A w \in Workers : Busy(w, u)' = Busy(w, u) BY DEF CreateTg, Busy
<1>4. TaskClaims(u) BY DEF ExclusiveClaims
<1> USE DEF TaskClaims
<1>5. u = t => Unclaimed(u) /\ scheduled[u] = 0 /\ \A s \in Requests : u \notin rset[s]
  BY <1>4 DEF StatusTellsClaims, CreateTg, Fresh
<1>6. status'[u] = (IF u = t THEN "pending" ELSE status[u]) /\ UNCHANGED <<queued, scheduled, retries>>
  BY DEF CreateTg, TypeOK, RowTypes
<1>7. \A s \in Requests : Handing(s, u)' <=> (Handing(s, u) /\ s # r) \/ (s = r /\ u = t)
  BY <1>1, <1>2 DEF Handing
<1>8. scheduled[u] \in Nat /\ \A q \in Queues : queued[q][u] \in Nat
  BY DEF TypeOK, JobTypes
<1>9. OneQueuedJob(u)'
  BY <1>3, <1>4, <1>5, <1>6, <1>7, <1>8 DEF OneQueuedJob, Unclaimed, Unqueued
<1>10. OneScheduledJob(u)'
  BY <1>3, <1>4, <1>5, <1>6, <1>7, <1>8 DEF OneScheduledJob, Unclaimed, CreateTg
<1>11. OneHolder(u)'
  BY <1>1, <1>2, <1>3, <1>4, <1>5, <1>7 DEF OneHolder, Unclaimed
<1>12. StatusTellsClaims(u)'
  BY <1>1, <1>2, <1>3, <1>4, <1>5, <1>6, <1>7, <1>8
  DEF StatusTellsClaims, Unclaimed, Unqueued
<1>13. HoldersAreUpToDate(u)'
  BY <1>1, <1>2, <1>3, <1>4, <1>5, <1>6
  DEF HoldersAreUpToDate, Unclaimed, Busy, BusyPcs, CreateTg
<1> QED BY <1>9, <1>10, <1>11, <1>12, <1>13

LEMMA ClaimsCheckDuplicate ==
  ASSUME TypeOK, ExclusiveClaims, NEW r \in Requests, NEW t \in Tasks, CheckDuplicate(r, t), NEW u \in Tasks
  PROVE  TaskClaims(u)'
<1> USE DEF taskVars, jobVars, workerVars, requestVars
<1>1. rpc[r] = "idle" /\ rpc'[r] = "insert" /\ rset'[r] = {t} /\ rcopy'[r] = rcopy[r]
  BY DEF TypeOK, RequestTypes, CheckDuplicate, RequestStarts
<1>2. \A s \in Requests : s # r => /\ rpc'[s] = rpc[s] /\ rset'[s] = rset[s]
                                    /\ rcopy'[s] = rcopy[s]
  BY DEF TypeOK, RequestTypes, CheckDuplicate, RequestStarts
<1>3. \A w \in Workers : Busy(w, u)' = Busy(w, u) BY DEF CheckDuplicate, Busy
<1>4. TaskClaims(u) BY DEF ExclusiveClaims
<1> USE DEF TaskClaims
<1>5. u = t => status[u] = "unborn" /\ \A s \in Requests : u \notin rset[s]
  BY DEF CheckDuplicate, Fresh
<1>6. UNCHANGED <<status, queued, scheduled, retries>>
  BY DEF CheckDuplicate
<1>7. \A s \in Requests : Handing(s, u)' <=> Handing(s, u) /\ s # r
  BY <1>1, <1>2 DEF Handing
<1>8. scheduled[u] \in Nat /\ \A q \in Queues : queued[q][u] \in Nat
  BY DEF TypeOK, JobTypes
<1>9. OneQueuedJob(u)'
  BY <1>3, <1>4, <1>5, <1>6, <1>7, <1>8 DEF OneQueuedJob, Unclaimed, Unqueued
<1>10. OneScheduledJob(u)'
  BY <1>3, <1>4, <1>5, <1>6, <1>7, <1>8 DEF OneScheduledJob, Unclaimed, CheckDuplicate
<1>11. OneHolder(u)'
  BY <1>1, <1>2, <1>3, <1>4, <1>5, <1>7 DEF OneHolder, Unclaimed
<1>12. StatusTellsClaims(u)'
  BY <1>1, <1>2, <1>3, <1>4, <1>5, <1>6, <1>7, <1>8
  DEF StatusTellsClaims, Unclaimed, Unqueued
<1>13. HoldersAreUpToDate(u)'
  BY <1>1, <1>2, <1>3, <1>4, <1>5, <1>6
  DEF HoldersAreUpToDate, Unclaimed, Busy, BusyPcs, CheckDuplicate
<1> QED BY <1>9, <1>10, <1>11, <1>12, <1>13

LEMMA ClaimsRetryLoad ==
  ASSUME TypeOK, ExclusiveClaims, Steady, NEW r \in Requests, NEW t \in Tasks, RetryLoad(r, t), NEW u \in Tasks
  PROVE  TaskClaims(u)'
<1> USE DEF taskVars, jobVars, workerVars, requestVars
<1>1. rpc[r] = "idle" /\ rpc'[r] = "retry" /\ rset'[r] = {t} /\ rcopy'[r][t] = retries[t]
  BY DEF TypeOK, RequestTypes, RetryLoad, RequestStarts
<1>2. \A s \in Requests : s # r => /\ rpc'[s] = rpc[s] /\ rset'[s] = rset[s]
                                    /\ rcopy'[s] = rcopy[s]
  BY DEF TypeOK, RequestTypes, RetryLoad, RequestStarts
<1>3. \A w \in Workers : Busy(w, u)' = Busy(w, u) BY DEF RetryLoad, Busy
<1>4. TaskClaims(u) BY DEF ExclusiveClaims
<1> USE DEF TaskClaims
<1>5. u = t => status[u] = "failed" /\ \A s \in Requests : u \notin rset[s]
  BY <1>4 DEF StatusTellsClaims, RetryLoad, Retryable, Free, Steady
<1>6. UNCHANGED <<status, queued, scheduled, retries>>
  BY DEF RetryLoad
<1>7. \A s \in Requests : Handing(s, u)' <=> Handing(s, u) /\ s # r
  BY <1>1, <1>2 DEF Handing
<1>8. scheduled[u] \in Nat /\ \A q \in Queues : queued[q][u] \in Nat
  BY DEF TypeOK, JobTypes
<1>9. OneQueuedJob(u)'
  BY <1>3, <1>4, <1>5, <1>6, <1>7, <1>8 DEF OneQueuedJob, Unclaimed, Unqueued
<1>10. OneScheduledJob(u)'
  BY <1>3, <1>4, <1>5, <1>6, <1>7, <1>8 DEF OneScheduledJob, Unclaimed, RetryLoad
<1>11. OneHolder(u)'
  BY <1>1, <1>2, <1>3, <1>4, <1>5, <1>7 DEF OneHolder, Unclaimed
<1>12. StatusTellsClaims(u)'
  BY <1>1, <1>2, <1>3, <1>4, <1>5, <1>6, <1>7, <1>8
  DEF StatusTellsClaims, Unclaimed, Unqueued
<1>13. HoldersAreUpToDate(u)'
  BY <1>1, <1>2, <1>3, <1>4, <1>5, <1>6
  DEF HoldersAreUpToDate, Unclaimed, Busy, BusyPcs, RetryLoad
<1> QED BY <1>9, <1>10, <1>11, <1>12, <1>13

LEMMA ClaimsDeleteLoad ==
  ASSUME TypeOK, ExclusiveClaims, Steady, NEW r \in Requests, NEW t \in Tasks, DeleteLoad(r, t), NEW u \in Tasks
  PROVE  TaskClaims(u)'
<1> USE DEF taskVars, jobVars, workerVars, requestVars
<1>1. rpc[r] = "idle" /\ rpc'[r] \in {"cancel", "purge"} /\ rset'[r] = {t} /\ rcopy'[r] = rcopy[r]
  BY DEF TypeOK, RequestTypes, DeleteLoad, RequestStarts
<1>2. \A s \in Requests : s # r => /\ rpc'[s] = rpc[s] /\ rset'[s] = rset[s]
                                    /\ rcopy'[s] = rcopy[s]
  BY DEF TypeOK, RequestTypes, DeleteLoad, RequestStarts
<1>3. \A w \in Workers : Busy(w, u)' = Busy(w, u) BY DEF DeleteLoad, Busy
<1>4. TaskClaims(u) BY DEF ExclusiveClaims
<1> USE DEF TaskClaims
<1>5. u = t => status[u] # "unborn" /\ \A s \in Requests : u \notin rset[s]
  BY DEF DeleteLoad, HasRow, Statuses, Free, Steady
<1>6. UNCHANGED <<status, queued, scheduled, retries>>
  BY DEF DeleteLoad
<1>7. \A s \in Requests : Handing(s, u)' <=> Handing(s, u) /\ s # r
  BY <1>1, <1>2 DEF Handing
<1>8. scheduled[u] \in Nat /\ \A q \in Queues : queued[q][u] \in Nat
  BY DEF TypeOK, JobTypes
<1>9. OneQueuedJob(u)'
  BY <1>3, <1>4, <1>5, <1>6, <1>7, <1>8 DEF OneQueuedJob, Unclaimed, Unqueued
<1>10. OneScheduledJob(u)'
  BY <1>3, <1>4, <1>5, <1>6, <1>7, <1>8 DEF OneScheduledJob, Unclaimed, DeleteLoad
<1>11. OneHolder(u)'
  BY <1>1, <1>2, <1>3, <1>4, <1>5, <1>7 DEF OneHolder, Unclaimed
<1>12. StatusTellsClaims(u)'
  BY <1>1, <1>2, <1>3, <1>4, <1>5, <1>6, <1>7, <1>8
  DEF StatusTellsClaims, Unclaimed, Unqueued
<1>13. HoldersAreUpToDate(u)'
  BY <1>1, <1>2, <1>3, <1>4, <1>5, <1>6
  DEF HoldersAreUpToDate, Unclaimed, Busy, BusyPcs, DeleteLoad
<1> QED BY <1>9, <1>10, <1>11, <1>12, <1>13

-----------------------------------------------------------------------------
(* The scheduler, the library's owner, and the whole step *)

LEMMA ClaimsPromote ==
  ASSUME TypeOK, ExclusiveClaims, Steady, NEW t \in Tasks, Promote(t), NEW u \in Tasks
  PROVE  TaskClaims(u)'
<1> USE DEF taskVars, workerVars, requestVars
<1>1. TaskClaims(u) BY DEF ExclusiveClaims
<1>2. /\ scheduled[u] \in Nat /\ \A q \in Queues : queued[q][u] \in Nat
      /\ \A w \in Workers : Busy(w, u)' = Busy(w, u)
      /\ \A r \in Requests : Handing(r, u)' = Handing(r, u)
  BY DEF TypeOK, JobTypes, Promote, Busy, Handing
<1>3. CASE u # t
  <2>1. scheduled'[u] = scheduled[u] /\ \A q \in Queues : queued'[q][u] = queued[q][u]
    BY <1>3 DEF Promote, Enqueued, TypeOK, JobTypes
  <2> QED
    BY <1>1, <1>2, <2>1
    DEF TaskClaims, OneQueuedJob, OneScheduledJob, OneHolder, StatusTellsClaims,
        HoldersAreUpToDate, Unclaimed, Unqueued, Promote
<1>4. CASE u = t
  <2>1. /\ scheduled[u] > 0 /\ scheduled'[u] = scheduled[u] - 1
        /\ \A q \in Queues : queued'[q][u] = queued[q][u] + (IF q = "retry" THEN 1 ELSE 0)
    BY <1>4 DEF Promote, Enqueued, TypeOK, JobTypes
  <2>2. /\ \A w \in Workers : ~(wpc[w] = "requeued" /\ wtask[w] = u)
        /\ \A r \in Requests : ~(rpc[r] = "revalidate" /\ u \in rset[r])
    BY <1>4 DEF Promote, Steady
  <2>3. /\ scheduled'[u] = 0
        /\ \A w \in Workers : ~Busy(w, u)
        /\ \A r \in Requests : ~Handing(r, u)
    BY <1>1, <1>2, <2>1, <2>2 DEF TaskClaims, OneScheduledJob, Busy
  <2>4. Unqueued(u) BY <1>1, <1>2, <2>1 DEF TaskClaims, OneQueuedJob, Unqueued
  <2>5. status[u] \notin {"unborn", "failed", "completed"}
    BY <1>1, <2>1, <2>2 DEF TaskClaims, StatusTellsClaims
  <2>6. OneQueuedJob(u)'
    <3>1. \A q \in Queues : queued'[q][u] = IF q = "retry" THEN 1 ELSE 0
      BY <2>1, <2>4 DEF Unqueued
    <3> QED BY <1>2, <2>3, <3>1 DEF OneQueuedJob
  <2>7. OneScheduledJob(u)' BY <2>3 DEF OneScheduledJob
  <2>8. OneHolder(u)' BY <1>1, <1>2 DEF TaskClaims, OneHolder, Promote
  <2>9. StatusTellsClaims(u)' BY <1>1, <2>5 DEF TaskClaims, StatusTellsClaims, Promote
  <2>10. HoldersAreUpToDate(u)' BY <1>1, <2>2 DEF TaskClaims, HoldersAreUpToDate, Promote
  <2> QED BY <2>6, <2>7, <2>8, <2>9, <2>10 DEF TaskClaims
<1> QED BY <1>3, <1>4

LEMMA ClaimsFileLost ==
  ASSUME TypeOK, ExclusiveClaims, NEW t \in Tasks, FileLost(t), NEW u \in Tasks
  PROVE  TaskClaims(u)'
<1> USE DEF jobVars, workerVars, requestVars
<1>1. TaskClaims(u) BY DEF ExclusiveClaims
<1>2. /\ \A w \in Workers : Busy(w, u)' = Busy(w, u)
      /\ \A r \in Requests : Handing(r, u)' = Handing(r, u)
  BY DEF FileLost, Busy, Handing
<1>3. \A w \in Workers : wtask[w] = u /\ wpc[w] = "landed" => disk'[u] = disk[u]
  BY <1>1 DEF TaskClaims, StatusTellsClaims, Unclaimed, Busy, BusyPcs, FileLost, TypeOK, RowTypes
<1>4. HoldersAreUpToDate(u)' BY <1>1, <1>3 DEF TaskClaims, HoldersAreUpToDate, FileLost
<1> QED
  BY <1>1, <1>2, <1>4
  DEF TaskClaims, OneQueuedJob, OneScheduledJob, OneHolder, StatusTellsClaims, Unclaimed,
      Unqueued, FileLost

(* The steps that steady operation excludes do not happen. *)
LEMMA NoInterruption ==
  ASSUME TypeOK, Steady
  PROVE  ~AppCrash /\ \A r \in Requests : ~AbortRequest(r)
BY DEF Faults, TypeOK, AppTypes, Steady, AppCrash, AbortRequest, Charge

LEMMA ClaimsStutter ==
  ASSUME ExclusiveClaims, UNCHANGED vars, NEW u \in Tasks
  PROVE  TaskClaims(u)'
BY DEF ExclusiveClaims, TaskClaims, OneQueuedJob, OneScheduledJob, OneHolder,
       StatusTellsClaims, HoldersAreUpToDate, Unclaimed, Unqueued, Busy, Handing,
       vars, taskVars, jobVars, workerVars, requestVars

(* Recovery runs only after a crash. *)
LEMMA NoRecovery ==
  ASSUME TypeOK, Steady, AppIsUp, [Next]_vars
  PROVE  AppIsUp' /\ ~Recovery
BY NoInterruption, StaysUp

LEMMA ClaimsNext ==
  ASSUME TypeOK, ExclusiveClaims, AppIsUp, Steady, [Next]_vars
  PROVE  ExclusiveClaims'
<1> SUFFICES ASSUME NEW u \in Tasks PROVE TaskClaims(u)' BY DEF ExclusiveClaims
<1>1. CASE UNCHANGED vars BY <1>1, ClaimsStutter
<1>2. ASSUME NEW w \in Workers, WorkerStep(w) PROVE TaskClaims(u)'
  BY <1>2, ClaimsPop, ClaimsLoad, ClaimsCommitStart, ClaimsDownloadLands, ClaimsCommitCompleted,
     ClaimsDownloadFails, ClaimsReloadAndSchedule, ClaimsCommitRetry, ClaimsNotifyDone
  DEF WorkerStep
<1>3. ASSUME NEW r \in Requests, RequestStep(r) PROVE TaskClaims(u)'
  BY <1>3, ClaimsInsert, ClaimsEnqueue, ClaimsRetryCommit, ClaimsDeleteCancel, ClaimsPurge,
     ClaimsErase, ClaimsRevalCommit
  DEF RequestStep
<1>4. ASSUME NEW r \in Requests, RequestStart(r) PROVE TaskClaims(u)'
  BY <1>4, ClaimsCreateTg, ClaimsCheckDuplicate, ClaimsRetryLoad, ClaimsDeleteLoad, ClaimsRevalScan
  DEF RequestStart
<1>5. ASSUME NEW t \in Tasks, Promote(t) PROVE TaskClaims(u)' BY <1>5, ClaimsPromote
<1>6. CASE Fault BY <1>6, NoInterruption, ClaimsJobLost, ClaimsFileLost DEF Fault
<1>7. ~Recovery BY NoRecovery
<1> QED BY <1>1, <1>2, <1>3, <1>4, <1>5, <1>6, <1>7 DEF Next

(* In steady operation every task has one claim at most, and what its holder
   will write agrees with the jobs already in Redis. *)
THEOREM ClaimsExclusive == ASSUME Steady PROVE Spec => []ExclusiveClaims
<1>1. Init => AppIsUp BY DEF Init, AppIsUp
<1>2. TypeOK /\ ExclusiveClaims /\ AppIsUp /\ [Next]_vars => ExclusiveClaims' /\ AppIsUp'
  BY ClaimsNext, NoRecovery
<1> QED BY <1>1, <1>2, ClaimsInit, TypeCorrect, PTL DEF Spec

(* In steady operation no two workers ever execute the same task, for any
   number of tasks, workers, handlers and retries, and however often workers
   lose their jobs. *)
THEOREM OneRunAtATime == ASSUME Steady PROVE Spec => []AtMostOneRun
<1>1. ExclusiveClaims /\ TypeOK => AtMostOneRun
  BY DEF ExclusiveClaims, TaskClaims, OneHolder, AtMostOneRun, Running, Busy, BusyPcs, TypeOK,
         WorkerTypes
<1> QED BY <1>1, ClaimsExclusive, TypeCorrect, PTL

(* In steady operation a failed task has no job, handler or worker left that
   could start it. *)
THEOREM FailedTaskIsIdle == ASSUME Steady PROVE Spec => []FailedIsIdle
<1>1. ExclusiveClaims /\ TypeOK => FailedIsIdle
  BY DEF ExclusiveClaims, TaskClaims, StatusTellsClaims, Unclaimed, Unqueued, FailedIsIdle,
         Carried, Running, Busy, BusyPcs, Handing, TypeOK, JobTypes
<1> QED BY <1>1, ClaimsExclusive, TypeCorrect, PTL

(* In steady operation the CANCELLED mark belongs to a deletion in progress. *)
THEOREM CancelledPasses == ASSUME Steady PROVE Spec => []CancelledIsTransient
<1>1. ExclusiveClaims => CancelledIsTransient
  BY DEF ExclusiveClaims, TaskClaims, StatusTellsClaims, CancelledIsTransient
<1> QED BY <1>1, ClaimsExclusive, PTL

-----------------------------------------------------------------------------
(* Action properties: what no step does, because every writer's private copy
   is still true when it writes. *)

(* Only CommitCompleted writes COMPLETED, and its file is still where its
   worker put it. *)
LEMMA CompletedStep ==
  ASSUME TypeOK, ExclusiveClaims, [Next]_vars, NEW t \in Tasks,
         status[t] # "completed", status'[t] = "completed"
  PROVE  disk'[t]
<1> USE DEF TypeOK, RowTypes
<1>1. CASE UNCHANGED vars BY <1>1 DEF vars, taskVars
<1>2. ASSUME NEW w \in Workers, CommitCompleted(w) PROVE disk'[t]
  <2>1. wtask[w] = t BY <1>2 DEF CommitCompleted
  <2>2. disk[t]
    BY <1>2, <2>1 DEF CommitCompleted, WorkerGoes, ExclusiveClaims, TaskClaims, HoldersAreUpToDate
  <2> QED BY <1>2, <2>2 DEF CommitCompleted
<1>3. ASSUME NEW w \in Workers, WorkerStep(w), ~CommitCompleted(w) PROVE FALSE
  BY <1>3 DEF taskVars, WorkerStep, Pop, Load, CommitStart, DownloadLands, DownloadFails,
              ReloadAndSchedule, CommitRetry, Verdict, NotifyDone
<1>4. ASSUME NEW r \in Requests, RequestStep(r) PROVE FALSE
  BY <1>4 DEF taskVars, RequestStep, Insert, Enqueue, RetryCommit, DeleteCancel, Purge, Erase,
              RevalCommit, Verdict
<1>5. ASSUME NEW r \in Requests, RequestStart(r) PROVE FALSE
  BY <1>5 DEF taskVars, RequestStart, CreateTg, CheckDuplicate, RetryLoad, DeleteLoad, RevalScan
<1>6. ASSUME (\E u \in Tasks : Promote(u)) \/ Recovery \/ Fault PROVE FALSE
  BY <1>6 DEF taskVars, Promote, Recovery, RecoverInterrupted, RecoverCommit, RecoverPending,
              Fault, AppCrash, JobLost, AbortRequest, FileLost
<1> QED BY <1>1, <1>2, <1>3, <1>4, <1>5, <1>6 DEF Next

(* In steady operation a task becomes COMPLETED only while its file is on
   disk, although the UPDATE that completes it checks nothing. *)
THEOREM CompletionNeedsFile == ASSUME Steady PROVE Spec => CompletedHasFile
<1>1. TypeOK /\ ExclusiveClaims /\ [Next]_vars =>
        [\A t \in Tasks : status[t] # "completed" /\ status'[t] = "completed" => disk'[t]]_vars
  BY CompletedStep
<1> QED BY <1>1, ClaimsExclusive, TypeCorrect, PTL DEF Spec, CompletedHasFile

(* The three writers of retry_count loaded the count that is still there, and
   add one at most. *)
LEMMA RetriesStep ==
  ASSUME TypeOK, ExclusiveClaims, [Next]_vars, NEW t \in Tasks
  PROVE  retries'[t] \in {retries[t], retries[t] + 1}
<1>0. retries[t] \in Nat BY BoundsAssumption DEF TypeOK, RowTypes, Counts
<1>1. retries \in [Tasks -> Counts] BY DEF TypeOK, RowTypes
<1>2. TaskClaims(t) BY DEF ExclusiveClaims
<1>3. ASSUME NEW w \in Workers, CommitRetry(w) PROVE retries'[t] \in {retries[t], retries[t] + 1}
  <2>1. wtask[w] = t => wn[w] = retries[t]
    BY <1>2, <1>3 DEF CommitRetry, TaskClaims, HoldersAreUpToDate
  <2> QED BY <1>0, <1>1, <1>3, <2>1 DEF CommitRetry, Recount
<1>4. ASSUME NEW r \in Requests, RetryCommit(r) PROVE retries'[t] \in {retries[t], retries[t] + 1}
  <2>1. t \in rset[r] => rcopy[r][t] = retries[t]
    BY <1>2, <1>4 DEF RetryCommit, TaskClaims, HoldersAreUpToDate
  <2> QED BY <1>0, <1>4, <2>1 DEF RetryCommit, ManualCount
<1>5. ASSUME NEW r \in Requests, RevalCommit(r) PROVE retries'[t] \in {retries[t], retries[t] + 1}
  <2>1. t \in rset[r] => rcopy[r][t] = retries[t]
    BY <1>2, <1>5 DEF RevalCommit, TaskClaims, HoldersAreUpToDate
  <2> QED BY <1>0, <1>5, <2>1 DEF RevalCommit, Recount
<1>6. ASSUME NEW w \in Workers, WorkerStep(w), ~CommitRetry(w) PROVE retries' = retries
  BY <1>6 DEF taskVars, WorkerStep, Pop, Load, CommitStart, DownloadLands, CommitCompleted,
              DownloadFails, ReloadAndSchedule, NotifyDone
<1>7. ASSUME NEW r \in Requests, RequestStep(r), ~RetryCommit(r), ~RevalCommit(r)
      PROVE  retries' = retries
  BY <1>7 DEF taskVars, RequestStep, Insert, Enqueue, DeleteCancel, Purge, Erase
<1>8. ASSUME NEW r \in Requests, RequestStart(r) PROVE retries' = retries
  BY <1>8 DEF taskVars, RequestStart, CreateTg, CheckDuplicate, RetryLoad, DeleteLoad, RevalScan
<1>9. (\E u \in Tasks : Promote(u)) \/ Recovery \/ Fault \/ UNCHANGED vars => retries' = retries
  BY DEF vars, taskVars, Promote, Recovery, RecoverInterrupted, RecoverCommit, RecoverPending,
         Fault, AppCrash, JobLost, AbortRequest, FileLost
<1> QED BY <1>0, <1>3, <1>4, <1>5, <1>6, <1>7, <1>8, <1>9 DEF Next

(* In steady operation the retry count of a row never goes back. *)
THEOREM RetryCountGrows == ASSUME Steady PROVE Spec => RetriesOnlyGrow
<1>1. TypeOK /\ ExclusiveClaims /\ [Next]_vars =>
        [\A t \in Tasks : retries'[t] >= retries[t]]_vars
  <2> SUFFICES ASSUME TypeOK, ExclusiveClaims, [Next]_vars, NEW t \in Tasks
               PROVE  retries'[t] >= retries[t]
    OBVIOUS
  <2>1. retries[t] \in Nat BY BoundsAssumption DEF TypeOK, RowTypes, Counts
  <2> QED BY <2>1, RetriesStep
<1> QED BY <1>1, ClaimsExclusive, TypeCorrect, PTL DEF Spec, RetriesOnlyGrow

-----------------------------------------------------------------------------
(* Each task lives as TaskLifecycle promises: the safety part of the
   refinement.  Until a task is being withdrawn, the worker that has accepted
   its job finds it waiting, and the one that executes it finds the status it
   wrote itself, also in the copy its except clause loads. *)

TiedToStage(t) ==
  \A w \in Workers : wtask[w] = t /\ ~Leaving(t) =>
    /\ wpc[w] = "accepted" => status[t] \in Waiting
    /\ wpc[w] \in {"downloading", "landed", "cleaned", "requeued"} => status[t] = "downloading"
    /\ wpc[w] = "requeued" => wseen[w] = "downloading"

StagesTied == \A t \in Tasks : TiedToStage(t)

(* A worker writes the status of the task it is busy with, and never ends or
   begins a deletion. *)
LEMMA WorkerWrites ==
  ASSUME TypeOK, NEW w \in Workers, WorkerStep(w) \/ JobLost(w), NEW t \in Tasks
  PROVE  /\ Leaving(t)' <=> Leaving(t)
         /\ status'[t] # status[t] =>
              /\ wtask[w] = t
              /\ CommitStart(w) \/ CommitCompleted(w) \/ CommitRetry(w)
         /\ retries'[t] # retries[t] => wtask[w] = t /\ CommitRetry(w)
<1> USE DEF TypeOK, RowTypes, taskVars, requestVars
<1>1. UNCHANGED <<rpc, rset>>
  BY DEF WorkerStep, Pop, Load, CommitStart, DownloadLands, CommitCompleted, DownloadFails,
         ReloadAndSchedule, CommitRetry, NotifyDone, JobLost
<1>2. CASE CommitStart(w)
  <2>1. \/ status' = status
        \/ HasRow(wtask[w]) /\ status' = [status EXCEPT ![wtask[w]] = "failed"]
        \/ HasRow(wtask[w]) /\ status' = [status EXCEPT ![wtask[w]] = "downloading"]
    BY <1>2 DEF CommitStart
  <2>2. retries' = retries BY <1>2 DEF CommitStart
  <2> QED BY <1>1, <1>2, <2>1, <2>2 DEF Leaving, HasRow, Statuses
<1>3. CASE CommitCompleted(w)
  BY <1>1, <1>3 DEF CommitCompleted, Leaving, HasRow, Statuses
<1>4. CASE CommitRetry(w)
  <2>1. Verdict(wn[w]) # "deleted" BY DEF Verdict
  <2> QED BY <1>1, <1>4, <2>1 DEF CommitRetry, Leaving, HasRow, Statuses
<1>5. CASE ~CommitStart(w) /\ ~CommitCompleted(w) /\ ~CommitRetry(w)
  <2>1. UNCHANGED <<status, retries>>
    BY <1>5 DEF WorkerStep, Pop, Load, DownloadLands, DownloadFails, ReloadAndSchedule,
                NotifyDone, JobLost
  <2> QED BY <1>1, <2>1 DEF Leaving
<1> QED BY <1>2, <1>3, <1>4, <1>5

(* A handler never takes a task back from its deletion. *)
LEMMA HandlerKeepsLeaving ==
  ASSUME TypeOK, ExclusiveClaims, NEW r \in Requests, RequestStep(r) \/ RequestStart(r),
         NEW t \in Tasks, Leaving(t)
  PROVE  Leaving(t)'
<1> USE DEF TypeOK, RowTypes, RequestTypes, RequestGoes, RequestRest, RequestStarts
<1>1. CASE status[t] = "deleted"
  <2>1. status'[t] = "deleted"
    <3>1. CASE Insert(r)
      <4>1. t \notin rset[r]
        BY <1>1, <3>1 DEF Insert, ExclusiveClaims, TaskClaims, HoldersAreUpToDate
      <4> QED BY <1>1, <3>1, <4>1 DEF Insert
    <3>2. CASE RequestStep(r) /\ ~Insert(r)
      BY <1>1, <3>2 DEF taskVars, RequestStep, Enqueue, RetryCommit, DeleteCancel, Purge, Erase,
                        RevalCommit, HasRow, Statuses
    <3>3. CASE RequestStart(r)
      BY <1>1, <3>3 DEF taskVars, RequestStart, CreateTg, Fresh, CheckDuplicate, RetryLoad,
                        DeleteLoad, RevalScan
    <3> QED BY <3>1, <3>2, <3>3
  <2> QED BY <2>1 DEF Leaving
<1>2. ASSUME NEW s \in Requests, t \in rset[s], rpc[s] \in {"purge", "erase"}
      PROVE  Leaving(t)'
  <2>1. CASE s # r
    <3>1. rset'[s] = rset[s] /\ rpc'[s] = rpc[s]
      BY <2>1 DEF RequestStep, Insert, Enqueue, RetryCommit, DeleteCancel, Purge, Erase,
                  RevalCommit, RequestStart, CreateTg, CheckDuplicate, RetryLoad, DeleteLoad,
                  RevalScan
    <3> QED BY <1>2, <3>1 DEF Leaving
  <2>2. CASE s = r
    <3>1. Purge(r) \/ Erase(r)
      BY <1>2, <2>2 DEF RequestStep, Insert, Enqueue, RetryCommit, DeleteCancel, RevalCommit,
                        RequestStart, CreateTg, CheckDuplicate, RetryLoad, DeleteLoad, RevalScan
    <3> QED BY <1>2, <2>2, <3>1 DEF Purge, Erase, Leaving
  <2> QED BY <2>1, <2>2
<1> QED BY <1>1, <1>2 DEF Leaving

(* A withdrawn task stays withdrawn. *)
LEMMA LeavingStays ==
  ASSUME TypeOK, ExclusiveClaims, AppIsUp, Steady, [Next]_vars, NEW t \in Tasks, Leaving(t)
  PROVE  Leaving(t)'
<1>1. ~Recovery /\ ~AppCrash /\ \A r \in Requests : ~AbortRequest(r)
  BY NoRecovery, NoInterruption
<1>2. CASE UNCHANGED vars BY <1>2 DEF vars, taskVars, requestVars, Leaving
<1>3. ASSUME NEW u \in Tasks, Promote(u) \/ FileLost(u) PROVE Leaving(t)'
  BY <1>3 DEF Promote, FileLost, taskVars, requestVars, Leaving
<1> QED BY <1>1, <1>2, <1>3, WorkerWrites, HandlerKeepsLeaving DEF Next, Fault

(* A handler that writes the status of a task either begins or ends its
   deletion, or no worker is busy with the task. *)
LEMMA HandlerWrites ==
  ASSUME TypeOK, ExclusiveClaims, NEW r \in Requests, RequestStep(r) \/ RequestStart(r),
         NEW t \in Tasks, status'[t] # status[t], ~Leaving(t)'
  PROVE  \A w \in Workers : ~Busy(w, t)
<1> USE DEF TypeOK, RowTypes, RequestTypes
<1>0. TaskClaims(t) BY DEF ExclusiveClaims
<1>1. status[t] \in {"unborn", "failed", "completed"} => \A w \in Workers : ~Busy(w, t)
  BY <1>0 DEF TaskClaims, StatusTellsClaims, Unclaimed
<1>2. CASE Insert(r) \/ RetryCommit(r) \/ RevalCommit(r)
  <2>1. t \in rset[r] BY <1>2 DEF Insert, RetryCommit, RevalCommit
  <2>2. status[t] \in {"unborn", "failed", "completed"}
    BY <1>0, <1>2, <2>1
    DEF TaskClaims, HoldersAreUpToDate, Insert, RetryCommit, RevalCommit
  <2> QED BY <1>1, <2>2
<1>3. CASE DeleteCancel(r)
  BY <1>3 DEF DeleteCancel, RequestGoes, Leaving
<1>4. CASE Erase(r) BY <1>4 DEF Erase, Leaving
<1>5. ASSUME NEW u \in Tasks, CreateTg(r, u) PROVE \A w \in Workers : ~Busy(w, t)
  BY <1>1, <1>5 DEF CreateTg, Fresh
<1>6. CASE Enqueue(r) \/ Purge(r) BY <1>6 DEF Enqueue, Purge, taskVars
<1>7. ASSUME NEW u \in Tasks, CheckDuplicate(r, u) \/ RetryLoad(r, u) \/ DeleteLoad(r, u)
      PROVE  FALSE
  BY <1>7 DEF CheckDuplicate, RetryLoad, DeleteLoad, taskVars
<1>8. ~RevalScan(r) BY DEF RevalScan, taskVars
<1> QED BY <1>2, <1>3, <1>4, <1>5, <1>6, <1>7, <1>8 DEF RequestStep, RequestStart

LEMMA TiedByWorker ==
  ASSUME TypeOK, ExclusiveClaims, StagesTied, Steady, NEW w \in Workers,
         WorkerStep(w) \/ JobLost(w), NEW t \in Tasks
  PROVE  TiedToStage(t)'
<1> USE DEF TypeOK, RowTypes, WorkerTypes
<1> SUFFICES ASSUME NEW v \in Workers, wtask'[v] = t, ~Leaving(t)'
             PROVE  /\ wpc'[v] = "accepted" => status'[t] \in Waiting
                    /\ wpc'[v] \in {"downloading", "landed", "cleaned", "requeued"} =>
                         status'[t] = "downloading"
                    /\ wpc'[v] = "requeued" => wseen'[v] = "downloading"
  BY DEF TiedToStage
<1>0. TaskClaims(t) /\ TiedToStage(t) BY DEF ExclusiveClaims, StagesTied
<1>1. ~Leaving(t) BY WorkerWrites
<1>2. CASE v # w
  <2>1. wpc'[v] = wpc[v] /\ wtask'[v] = wtask[v] /\ wseen'[v] = wseen[v]
    BY <1>2 DEF WorkerGoes, WorkerRest, WorkerStep, Pop, Load, CommitStart, DownloadLands,
                CommitCompleted, DownloadFails, ReloadAndSchedule, CommitRetry, NotifyDone,
                JobLost
  <2>2. CASE status'[t] = status[t] BY <1>0, <1>1, <2>1, <2>2 DEF TiedToStage
  <2>3. CASE status'[t] # status[t]
    <3>1. Busy(w, t)
      BY <2>3, WorkerWrites
      DEF Busy, BusyPcs, CommitStart, CommitCompleted, CommitRetry, WorkerGoes
    <3>2. ~Busy(v, t) BY <1>0, <1>2, <3>1 DEF TaskClaims, OneHolder
    <3> QED BY <2>1, <3>2 DEF Busy, BusyPcs
  <2> QED BY <2>2, <2>3
<1>3. CASE v = w
  <2>1. CASE Pop(w) BY <1>3, <2>1 DEF Pop
  <2>2. CASE Load(w)
    BY <1>3, <2>2, TasksAssumption
    DEF Load, Runnable, WorkerGoes, WorkerRest, taskVars
  <2>3. CASE CommitStart(w)
    BY <1>3, <2>3, TasksAssumption DEF CommitStart, WorkerGoes, WorkerRest
  <2>4. CASE DownloadLands(w)
    BY <1>0, <1>1, <1>3, <2>4 DEF DownloadLands, WorkerGoes, TiedToStage
  <2>5. CASE CommitCompleted(w) BY <1>3, <2>5 DEF CommitCompleted, WorkerGoes
  <2>6. CASE DownloadFails(w)
    BY <1>0, <1>1, <1>3, <2>6 DEF DownloadFails, MayRaise, Steady, WorkerGoes, TiedToStage
  <2>7. CASE ReloadAndSchedule(w)
    BY <1>0, <1>1, <1>3, <2>7, TasksAssumption
    DEF ReloadAndSchedule, WorkerRest, taskVars, TiedToStage
  <2>8. CASE CommitRetry(w)
    BY <1>3, <2>8, TasksAssumption DEF CommitRetry, WorkerGoes, WorkerRest
  <2>9. CASE NotifyDone(w) \/ JobLost(w)
    BY <1>3, <2>9, TasksAssumption DEF NotifyDone, JobLost, WorkerRest
  <2> QED BY <2>1, <2>2, <2>3, <2>4, <2>5, <2>6, <2>7, <2>8, <2>9 DEF WorkerStep
<1> QED BY <1>2, <1>3

LEMMA TiedStep ==
  ASSUME TypeOK, ExclusiveClaims, StagesTied, AppIsUp, Steady, [Next]_vars
  PROVE  StagesTied'
<1> SUFFICES ASSUME NEW t \in Tasks PROVE TiedToStage(t)' BY DEF StagesTied
<1>0. TiedToStage(t) BY DEF StagesTied
<1>1. Leaving(t) => Leaving(t)' BY LeavingStays
<1>2. ASSUME NEW r \in Requests, RequestStep(r) \/ RequestStart(r) PROVE TiedToStage(t)'
  <2>1. UNCHANGED <<wpc, wtask, wseen>>
    BY <1>2 DEF workerVars, RequestStep, Insert, Enqueue, RetryCommit, DeleteCancel, Purge,
                Erase, RevalCommit, RequestStart, CreateTg, CheckDuplicate, RetryLoad,
                DeleteLoad, RevalScan
  <2>2. CASE status'[t] = status[t] BY <1>0, <1>1, <2>1, <2>2 DEF TiedToStage
  <2>3. CASE status'[t] # status[t]
    <3>1. Leaving(t)' \/ \A w \in Workers : ~Busy(w, t) BY <1>2, <2>3, HandlerWrites
    <3> QED BY <2>1, <3>1 DEF TiedToStage, Busy, BusyPcs
  <2> QED BY <2>2, <2>3
<1>3. ASSUME NEW u \in Tasks, Promote(u) \/ FileLost(u) PROVE TiedToStage(t)'
  BY <1>0, <1>1, <1>3 DEF Promote, FileLost, taskVars, workerVars, TiedToStage
<1>4. CASE UNCHANGED vars
  BY <1>0, <1>1, <1>4 DEF vars, taskVars, workerVars, TiedToStage
<1>5. ~Recovery /\ ~AppCrash /\ \A r \in Requests : ~AbortRequest(r)
  BY NoRecovery, NoInterruption
<1> QED BY <1>2, <1>3, <1>4, <1>5, TiedByWorker DEF Next, Fault

(* A step of the life of task t, or none. *)
Lives(t) == [Life(t)!LNext]_(Life(t)!lvars)

LEMMA SameStage ==
  ASSUME NEW t \in Tasks, Leaving(t)' <=> Leaving(t), status'[t] = status[t],
         retries'[t] = retries[t]
  PROVE  Lives(t)
BY DEF Lives, Stage, Life!lvars

(* What happens to the row of a withdrawn task is nobody's concern. *)
LEMMA LeavingLives ==
  ASSUME TypeOK, ExclusiveClaims, AppIsUp, Steady, [Next]_vars, NEW t \in Tasks, Leaving(t)
  PROVE  Lives(t)
<1>1. Leaving(t)' BY LeavingStays
<1>2. retries'[t] \in {retries[t], retries[t] + 1} BY RetriesStep
<1>3. Stage(t) = "gone" /\ Stage(t)' = "gone" BY <1>1 DEF Stage
<1> QED BY <1>2, <1>3 DEF Lives, Life!LNext, Life!Forget, Life!lvars

LEMMA WorkerLives ==
  ASSUME TypeOK, ExclusiveClaims, StagesTied, NEW w \in Workers, WorkerStep(w) \/ JobLost(w),
         NEW t \in Tasks, ~Leaving(t)
  PROVE  Lives(t)
<1> USE DEF TypeOK, RowTypes
<1>0. TaskClaims(t) /\ TiedToStage(t) BY DEF ExclusiveClaims, StagesTied
<1>1. ~Leaving(t)' BY WorkerWrites
<1>2. CASE status'[t] = status[t] /\ retries'[t] = retries[t] BY <1>1, <1>2, SameStage
<1>3. CASE CommitStart(w) /\ status'[t] # status[t]
  <2>1. wtask[w] = t /\ retries'[t] = retries[t] BY <1>3, WorkerWrites DEF CommitStart
  <2>2. status[t] \in Waiting BY <1>0, <1>3, <2>1 DEF CommitStart, TiedToStage
  <2>3. status'[t] \in {"downloading", "failed"} BY <1>3, <2>1 DEF CommitStart
  <2>4. Stage(t) = "waiting" /\ Stage(t)' \in {"running", "failed"}
    BY <1>1, <2>2, <2>3 DEF Stage, Waiting
  <2> QED BY <2>1, <2>4 DEF Lives, Life!LNext, Life!Start, Life!Refuse
<1>4. CASE CommitCompleted(w) /\ status'[t] # status[t]
  <2>1. wtask[w] = t /\ retries'[t] = retries[t] BY <1>4, WorkerWrites DEF CommitCompleted
  <2>2. status[t] = "downloading"
    BY <1>0, <1>4, <2>1 DEF CommitCompleted, WorkerGoes, TiedToStage
  <2>3. status'[t] = "completed" BY <1>4, <2>1 DEF CommitCompleted
  <2>4. Stage(t) = "running" /\ Stage(t)' = "done" BY <1>1, <2>2, <2>3 DEF Stage, Waiting
  <2> QED BY <2>1, <2>4 DEF Lives, Life!LNext, Life!Succeed
<1>5. CASE CommitRetry(w) /\ (status'[t] # status[t] \/ retries'[t] # retries[t])
  <2>1. wtask[w] = t BY <1>5, WorkerWrites
  <2>2. /\ status[t] = "downloading" /\ wseen[w] = "downloading" /\ wn[w] = retries[t]
        /\ HasRow(t)
    BY <1>0, <1>5, <2>1
    DEF CommitRetry, TiedToStage, TaskClaims, HoldersAreUpToDate, HasRow, Statuses
  <2>3. /\ status'[t] = Verdict(retries[t])
        /\ retries'[t] = IF Exhausted(retries[t]) THEN retries[t] ELSE retries[t] + 1
    BY <1>5, <2>1, <2>2 DEF CommitRetry, Verdict, Recount
  <2>4. Stage(t) = "running" BY <2>2 DEF Stage, Waiting
  <2>5. Stage(t)' = IF Exhausted(retries[t]) THEN "failed" ELSE "waiting"
    BY <1>1, <2>3 DEF Stage, Waiting, Verdict
  <2>6. retries[t] \in Nat /\ MaxRetries \in Nat BY BoundsAssumption DEF Counts
  <2> QED
    BY <2>3, <2>4, <2>5, <2>6 DEF Exhausted, Lives, Life!LNext, Life!Fail, Life!TryAgain
<1> QED BY <1>2, <1>3, <1>4, <1>5, WorkerWrites

LEMMA HandlerLives ==
  ASSUME TypeOK, ExclusiveClaims, Steady, NEW r \in Requests,
         RequestStep(r) \/ RequestStart(r), NEW t \in Tasks, ~Leaving(t)
  PROVE  Lives(t)
<1> USE DEF TypeOK, RowTypes, RequestTypes, RequestGoes, RequestRest, RequestStarts
<1>0. TaskClaims(t) BY DEF ExclusiveClaims
<1>1. \A s \in Requests : s # r => rset'[s] = rset[s] /\ rpc'[s] = rpc[s]
  BY DEF RequestStep, Insert, Enqueue, RetryCommit, DeleteCancel, Purge, Erase, RevalCommit,
         RequestStart, CreateTg, CheckDuplicate, RetryLoad, DeleteLoad, RevalScan
<1>2. /\ status[t] \notin {"deleted", "cancelled"}
      /\ \A s \in Requests : t \in rset[s] => rpc[s] \notin {"purge", "erase"}
  BY <1>0 DEF Leaving, TaskClaims, StatusTellsClaims
<1>3. ASSUME status'[t] # "deleted", t \in rset'[r] => rpc'[r] \notin {"purge", "erase"}
      PROVE  ~Leaving(t)'
  BY <1>1, <1>2, <1>3 DEF Leaving
<1>4. CASE Insert(r) \/ \E u \in Tasks : CreateTg(r, u)
  <2>1. retries'[t] = retries[t] /\ ~Leaving(t)'
    BY <1>2, <1>3, <1>4 DEF Insert, CreateTg
  <2>2. \/ status'[t] = status[t]
        \/ status[t] = "unborn" /\ status'[t] = "pending"
    BY <1>0, <1>4 DEF Insert, CreateTg, Fresh, TaskClaims, HoldersAreUpToDate
  <2> QED
    BY <2>1, <2>2, SameStage DEF Lives, Stage, Waiting, Life!LNext, Life!Submit
<1>5. CASE RetryCommit(r)
  <2>1. ~Leaving(t)' BY <1>2, <1>3, <1>5 DEF RetryCommit
  <2>2. \/ status'[t] = status[t] /\ retries'[t] = retries[t]
        \/ /\ status[t] = "failed" /\ status'[t] = "retrying"
           /\ retries'[t] = retries[t] + 1
    BY <1>0, <1>5 DEF RetryCommit, ManualCount, TaskClaims, HoldersAreUpToDate
  <2> QED
    BY <2>1, <2>2, SameStage DEF Lives, Stage, Waiting, Life!LNext, Life!Resubmit
<1>6. CASE RevalCommit(r)
  <2>1. ~Leaving(t)' BY <1>2, <1>3, <1>6 DEF RevalCommit, Verdict
  <2>2. CASE status'[t] = status[t] /\ retries'[t] = retries[t] BY <2>1, <2>2, SameStage
  <2>3. CASE status'[t] # status[t] \/ retries'[t] # retries[t]
    <3>1. /\ status[t] = "completed" /\ status'[t] = Verdict(retries[t])
          /\ retries'[t] = IF Exhausted(retries[t]) THEN retries[t] ELSE retries[t] + 1
      BY <1>0, <1>6, <2>3 DEF RevalCommit, Recount, TaskClaims, HoldersAreUpToDate
    <3>2. Stage(t) = "done" BY <3>1 DEF Stage, Waiting
    <3>3. Stage(t)' = IF Exhausted(retries[t]) THEN "failed" ELSE "waiting"
      BY <2>1, <3>1 DEF Stage, Waiting, Verdict
    <3>4. retries[t] \in Nat /\ MaxRetries \in Nat BY BoundsAssumption DEF Counts
    <3> QED
      BY <3>1, <3>2, <3>3, <3>4
      DEF Exhausted, Lives, Life!LNext, Life!Requeue, Life!TryAgain
  <2> QED BY <2>2, <2>3
<1>7. CASE DeleteCancel(r) \/ \E u \in Tasks : DeleteLoad(r, u)
  <2>1. retries'[t] = retries[t] BY <1>7 DEF DeleteCancel, DeleteLoad, taskVars
  <2>2. CASE ~Leaving(t)'
    <3>1. status'[t] = status[t]
      BY <1>7, <2>2 DEF DeleteCancel, DeleteLoad, taskVars, Leaving
    <3> QED BY <2>1, <2>2, <3>1, SameStage
  <2>3. CASE Leaving(t)'
    <3>1. status[t] # "unborn"
      <4>1. CASE DeleteCancel(r)
        <5>1. t \in rset[r] /\ rpc[r] = "cancel"
          BY <1>1, <1>2, <2>3, <4>1 DEF DeleteCancel, Leaving
        <5> QED BY <1>0, <5>1 DEF TaskClaims, StatusTellsClaims
      <4>2. ASSUME NEW u \in Tasks, DeleteLoad(r, u) PROVE status[t] # "unborn"
        <5>1. t = u BY <1>1, <1>2, <2>3, <4>2 DEF DeleteLoad, taskVars, Leaving
        <5> QED BY <4>2, <5>1 DEF DeleteLoad, HasRow, Statuses
      <4> QED BY <1>7, <4>1, <4>2
    <3>2. Stage(t) \notin {"none", "gone"} /\ Stage(t)' = "gone"
      BY <2>3, <3>1 DEF Stage
    <3> QED BY <2>1, <3>2 DEF Lives, Life!LNext, Life!Withdraw
  <2> QED BY <2>2, <2>3
<1>8. CASE Enqueue(r) \/ (\E u \in Tasks : CheckDuplicate(r, u) \/ RetryLoad(r, u)) \/ RevalScan(r)
  <2>1. status'[t] = status[t] /\ retries'[t] = retries[t]
    BY <1>8 DEF Enqueue, CheckDuplicate, RetryLoad, RevalScan, taskVars
  <2>2. ~Leaving(t)'
    BY <1>2, <1>3, <1>8, <2>1 DEF Enqueue, CheckDuplicate, RetryLoad, RevalScan
  <2> QED BY <2>1, <2>2, SameStage
<1>9. CASE Purge(r) \/ Erase(r)
  <2>1. t \notin rset[r] BY <1>2, <1>9 DEF Purge, Erase
  <2>2. status'[t] = status[t] /\ retries'[t] = retries[t]
    BY <1>9, <2>1 DEF Purge, Erase, taskVars
  <2>3. ~Leaving(t)' BY <1>2, <1>3, <1>9, <2>1, <2>2 DEF Purge, Erase
  <2> QED BY <2>2, <2>3, SameStage
<1> QED
  BY <1>4, <1>5, <1>6, <1>7, <1>8, <1>9 DEF RequestStep, RequestStart

LEMMA LifeStep ==
  ASSUME TypeOK, ExclusiveClaims, StagesTied, AppIsUp, Steady, [Next]_vars, NEW t \in Tasks
  PROVE  Lives(t)
<1>1. CASE Leaving(t) BY <1>1, LeavingLives
<1>2. CASE ~Leaving(t)
  <2>1. ~Recovery /\ ~AppCrash /\ \A r \in Requests : ~AbortRequest(r)
    BY NoRecovery, NoInterruption
  <2>2. ASSUME UNCHANGED vars \/ \E u \in Tasks : Promote(u) \/ FileLost(u) PROVE Lives(t)
    <3>1. UNCHANGED <<status, retries, rpc, rset>>
      BY <2>2 DEF vars, Promote, FileLost, taskVars, requestVars
    <3> QED BY <3>1, SameStage DEF Leaving
  <2> QED BY <1>2, <2>1, <2>2, WorkerLives, HandlerLives DEF Next, Fault
<1> QED BY <1>1, <1>2

(* In steady operation the row of every task, with all that queues, workers
   and handlers do to it, goes through the life that TaskLifecycle describes:
   it waits, runs, and ends or waits again; automatic retries stop at
   MaxRetries; only a resubmission or a lost file brings an ended task back;
   a withdrawn task is gone for good. *)
THEOREM EachTaskLives ==
  ASSUME Steady, NEW t \in Tasks
  PROVE  Spec => Life(t)!LSafety
<1> DEFINE Inv == ExclusiveClaims /\ StagesTied /\ AppIsUp
<1>1. Init => Inv
  <2>1. Init => StagesTied /\ AppIsUp BY DEF Init, StagesTied, TiedToStage, AppIsUp
  <2> QED BY <2>1, ClaimsInit
<1>2. TypeOK /\ Inv /\ [Next]_vars => Inv' BY ClaimsNext, TiedStep, NoRecovery
<1>3. Init => Life(t)!LInit BY DEF Init, Stage, Leaving, Waiting, Life!LInit
<1>4. TypeOK /\ Inv /\ [Next]_vars => [Life(t)!LNext]_(Life(t)!lvars)
  BY LifeStep DEF Lives
<1> QED BY <1>1, <1>2, <1>3, <1>4, TypeCorrect, PTL DEF Spec, Life!LSafety

-----------------------------------------------------------------------------
(* Why every task settles: its steps run out.  The claim of a task is so many
   steps from its end, and each retry that is left may add eight of them. *)

StepsOfRun(pc, jobs) ==
  CASE pc = "popped" -> 6
    [] pc = "accepted" -> 5
    [] pc = "downloading" -> 4
    [] pc = "landed" -> 3
    [] pc = "cleaned" -> 2
    [] OTHER -> IF jobs > 0 THEN 9 ELSE 1

StepsOfJob(t) ==
  CASE scheduled[t] > 0 \/ (\E r \in Requests : Handing(r, t)) -> 8
    [] scheduled[t] = 0 /\ (\A r \in Requests : ~Handing(r, t)) /\ ~Unqueued(t) -> 7
    [] OTHER -> 0

InWork(t) == \E w \in Workers : Busy(w, t)
WorkerOf(t) == CHOOSE w \in Workers : Busy(w, t)

StepsOfClaim(t) ==
  IF InWork(t) THEN StepsOfRun(wpc[WorkerOf(t)], scheduled[t]) ELSE StepsOfJob(t)

(* The retry that a worker has scheduled and is about to charge. *)
Promised(t) ==
  IF InWork(t) /\ wpc[WorkerOf(t)] = "requeued" THEN scheduled[t] ELSE 0

RetriesLeft(t) ==
  IF HasRow(t) /\ ~Exhausted(retries[t]) THEN MaxRetries - retries[t] - Promised(t) ELSE 0

StepsLeft(t) == 8 * RetriesLeft(t) + StepsOfClaim(t)

(* What takes a task on: its worker, the scheduler, the handler that is about
   to enqueue it. *)
Advances(t) ==
  \/ \E w \in Workers : WorkerStep(w) /\ (Busy(w, t) \/ Busy(w, t)')
  \/ Promote(t)
  \/ \E r \in Requests : Enqueue(r) /\ Handing(r, t)

(* What may give it more to do: a handler that creates, retries or revalidates
   it, or the loss of a worker that had scheduled a retry and not charged it. *)
Renews ==
  \/ \E r \in Requests : RequestStart(r) \/ Insert(r) \/ RetryCommit(r)
  \/ \E w \in Workers : JobLost(w)

(* One worker is busy with a task at most, so any that is will do; and what is
   left is a natural number. *)
ClaimTold(t) ==
  /\ \A w \in Workers : Busy(w, t) =>
       /\ StepsOfClaim(t) = StepsOfRun(wpc[w], scheduled[t])
       /\ Promised(t) = IF wpc[w] = "requeued" THEN scheduled[t] ELSE 0
  /\ StepsOfClaim(t) \in Nat /\ RetriesLeft(t) \in Nat

LEMMA ClaimsAreTold ==
  ASSUME TypeOK, ExclusiveClaims, NEW t \in Tasks
  PROVE  ClaimTold(t)
<1>1. ASSUME NEW w \in Workers, Busy(w, t)
      PROVE  /\ StepsOfClaim(t) = StepsOfRun(wpc[w], scheduled[t])
             /\ Promised(t) = IF wpc[w] = "requeued" THEN scheduled[t] ELSE 0
  <2>1. WorkerOf(t) \in Workers /\ Busy(WorkerOf(t), t) BY <1>1 DEF WorkerOf
  <2>2. WorkerOf(t) = w BY <1>1, <2>1 DEF ExclusiveClaims, TaskClaims, OneHolder
  <2>3. InWork(t) BY <1>1 DEF InWork
  <2> QED BY <2>2, <2>3 DEF StepsOfClaim, Promised
<1>2. scheduled[t] \in {0, 1}
  BY DEF ExclusiveClaims, TaskClaims, OneScheduledJob, TypeOK, JobTypes
<1>3. StepsOfClaim(t) \in Nat BY DEF StepsOfClaim, StepsOfRun, StepsOfJob
<1>4. Promised(t) \in {0, 1} BY <1>2 DEF Promised
<1>5. RetriesLeft(t) \in Nat
  BY <1>4, BoundsAssumption DEF RetriesLeft, Exhausted, TypeOK, RowTypes, Counts
<1> QED BY <1>1, <1>3, <1>5 DEF ClaimTold

LEMMA FewerSteps ==
  ASSUME NEW t \in Tasks, ClaimTold(t), ClaimTold(t)', RetriesLeft(t)' <= RetriesLeft(t)
  PROVE  /\ StepsOfClaim(t)' < StepsOfClaim(t) => StepsLeft(t)' < StepsLeft(t)
         /\ StepsOfClaim(t)' <= StepsOfClaim(t) => StepsLeft(t)' <= StepsLeft(t)
<1>1. /\ StepsOfClaim(t) \in Nat /\ RetriesLeft(t) \in Nat
      /\ StepsOfClaim(t)' \in Nat /\ RetriesLeft(t)' \in Nat
  BY DEF ClaimTold
<1> QED BY <1>1 DEF StepsLeft

(* What does not touch a task leaves its steps alone. *)
LEMMA UntouchedKeepsSteps ==
  ASSUME NEW t \in Tasks, ClaimTold(t), ClaimTold(t)',
         \A w \in Workers : (Busy(w, t)' <=> Busy(w, t)) /\ (Busy(w, t) => wpc'[w] = wpc[w]),
         scheduled'[t] = scheduled[t], \A q \in Queues : queued'[q][t] = queued[q][t],
         \A r \in Requests : Handing(r, t)' <=> Handing(r, t)
  PROVE  StepsOfClaim(t)' = StepsOfClaim(t) /\ Promised(t)' = Promised(t)
<1>1. CASE InWork(t)
  <2>1. PICK w \in Workers : Busy(w, t) BY <1>1 DEF InWork
  <2> QED BY <2>1 DEF ClaimTold
<1>2. CASE ~InWork(t)
  <2>1. ~InWork(t)' BY <1>2 DEF InWork
  <2>2. StepsOfJob(t)' = StepsOfJob(t) BY DEF StepsOfJob, Unqueued
  <2> QED BY <1>2, <2>1, <2>2 DEF StepsOfClaim, Promised
<1> QED BY <1>1, <1>2

(* The worker that is busy with a task, or takes its job. *)
LEMMA WorkerSpends ==
  ASSUME TypeOK, TypeOK', ExclusiveClaims, ExclusiveClaims', Steady,
         NEW w \in Workers, WorkerStep(w), NEW t \in Tasks, Busy(w, t) \/ Busy(w, t)',
         ClaimTold(t), ClaimTold(t)'
  PROVE  StepsLeft(t)' < StepsLeft(t)
<1> USE DEF TypeOK, RowTypes, JobTypes, WorkerTypes
<1>0. TaskClaims(t) /\ TaskClaims(t)' BY DEF ExclusiveClaims
<1>1. CASE Pop(w)
  <2>1. wtask'[w] = t /\ wpc'[w] = "popped" /\ Busy(w, t)' /\ ~Busy(w, t)
    BY <1>1 DEF Pop, Busy, BusyPcs
  <2>2. PICK q \in Queues : queued[q][t] > 0
    BY <1>1, <2>1, ListensAssumption DEF Pop
  <2>3. /\ scheduled[t] = 0 /\ ~InWork(t) /\ ~Unqueued(t)
        /\ \A r \in Requests : ~Handing(r, t)
    BY <1>0, <2>2 DEF TaskClaims, OneQueuedJob, InWork, Unqueued
  <2>4. StepsOfClaim(t) = 7 /\ Promised(t) = 0
    BY <2>3 DEF StepsOfClaim, StepsOfJob, Promised
  <2>5. StepsOfClaim(t)' = 6 /\ Promised(t)' = 0
    BY <2>1 DEF ClaimTold, StepsOfRun
  <2>6. RetriesLeft(t)' = RetriesLeft(t)
    BY <1>1, <2>4, <2>5 DEF Pop, taskVars, RetriesLeft, HasRow
  <2>7. RetriesLeft(t) \in Nat BY DEF ClaimTold
  <2> QED BY <2>4, <2>5, <2>6, <2>7, FewerSteps
<1> SUFFICES ASSUME ~Pop(w), Busy(w, t) PROVE StepsLeft(t)' < StepsLeft(t)
  <2>1. ASSUME ~Pop(w), Busy(w, t)' PROVE Busy(w, t)
    BY <2>1, TasksAssumption
    DEF WorkerStep, Load, CommitStart, DownloadLands, CommitCompleted, DownloadFails, MayRaise,
        ReloadAndSchedule, CommitRetry, NotifyDone, WorkerGoes, WorkerRest, Busy, BusyPcs,
        Steady
  <2> QED BY <1>1, <2>1
<1>2. wtask[w] = t /\ wpc[w] \in BusyPcs BY DEF Busy
<1>3. /\ StepsOfClaim(t) = StepsOfRun(wpc[w], scheduled[t])
      /\ Promised(t) = IF wpc[w] = "requeued" THEN scheduled[t] ELSE 0
      /\ wpc[w] # "requeued" => scheduled[t] = 0
      /\ Unqueued(t) /\ \A r \in Requests : ~Handing(r, t)
  BY <1>0 DEF ClaimTold, TaskClaims, OneQueuedJob, OneScheduledJob, OneHolder, Unqueued
<1>4. wpc'[w] \notin BusyPcs =>
        /\ StepsOfClaim(t)' = StepsOfJob(t)' /\ Promised(t)' = 0
  <2> SUFFICES ASSUME wpc'[w] \notin BusyPcs PROVE ~InWork(t)'
    BY DEF StepsOfClaim, Promised
  <2>1. \A v \in Workers : v # w => wpc'[v] = wpc[v] /\ wtask'[v] = wtask[v]
    BY DEF WorkerStep, Pop, Load, CommitStart, DownloadLands, CommitCompleted, DownloadFails,
           ReloadAndSchedule, CommitRetry, NotifyDone, WorkerGoes, WorkerRest
  <2>2. \A v \in Workers : v # w => ~Busy(v, t) BY <1>0 DEF TaskClaims, OneHolder
  <2> QED BY <2>1, <2>2 DEF InWork, Busy
<1>5. Busy(w, t)' =>
        /\ StepsOfClaim(t)' = StepsOfRun(wpc'[w], scheduled'[t])
        /\ Promised(t)' = IF wpc'[w] = "requeued" THEN scheduled'[t] ELSE 0
  BY DEF ClaimTold
<1>6. UNCHANGED <<queued, rpc, rset>> /\ StepsOfJob(t)' = IF scheduled'[t] > 0 THEN 8 ELSE 0
  <2>1. UNCHANGED <<queued, rpc, rset>>
    BY DEF jobVars, requestVars, WorkerStep, Load, CommitStart, DownloadLands, CommitCompleted,
           DownloadFails, ReloadAndSchedule, CommitRetry, NotifyDone
  <2> QED BY <1>3, <2>1 DEF StepsOfJob, Unqueued, Handing
<1>7. CASE Load(w)
  <2>1. /\ wpc[w] = "popped" /\ UNCHANGED <<status, retries, scheduled>>
        /\ \/ wpc'[w] = "accepted" /\ Busy(w, t)'
           \/ wpc'[w] \notin BusyPcs
    BY <1>2, <1>7 DEF Load, WorkerGoes, WorkerRest, taskVars, jobVars, Busy, BusyPcs
  <2>2. StepsOfClaim(t) = 6 /\ Promised(t) = 0 /\ scheduled[t] = 0
    BY <1>3, <2>1 DEF StepsOfRun
  <2>3. StepsOfClaim(t)' \in {0, 5} /\ Promised(t)' = 0
    BY <1>4, <1>5, <1>6, <2>1, <2>2 DEF StepsOfRun
  <2>4. RetriesLeft(t)' = RetriesLeft(t) BY <2>1, <2>2, <2>3 DEF RetriesLeft, HasRow
  <2>5. RetriesLeft(t) \in Nat BY DEF ClaimTold
  <2> QED BY <2>2, <2>3, <2>4, <2>5, FewerSteps
<1>8. CASE CommitStart(w)
  <2>1. /\ wpc[w] = "accepted" /\ UNCHANGED <<retries, scheduled>>
        /\ HasRow(t)' <=> HasRow(t)
        /\ \/ wpc'[w] = "downloading" /\ Busy(w, t)'
           \/ wpc'[w] \notin BusyPcs
    BY <1>2, <1>8
    DEF CommitStart, WorkerGoes, WorkerRest, jobVars, Busy, BusyPcs, HasRow, Statuses
  <2>2. StepsOfClaim(t) = 5 /\ Promised(t) = 0 /\ scheduled[t] = 0
    BY <1>3, <2>1 DEF StepsOfRun
  <2>3. StepsOfClaim(t)' \in {0, 4} /\ Promised(t)' = 0
    BY <1>4, <1>5, <1>6, <2>1, <2>2 DEF StepsOfRun
  <2>4. RetriesLeft(t)' = RetriesLeft(t) BY <2>1, <2>2, <2>3 DEF RetriesLeft
  <2>5. RetriesLeft(t) \in Nat BY DEF ClaimTold
  <2> QED BY <2>2, <2>3, <2>4, <2>5, FewerSteps
<1>9. CASE DownloadLands(w) \/ DownloadFails(w)
  <2>1. /\ UNCHANGED <<status, retries, scheduled>> /\ Busy(w, t)'
        /\ \/ wpc[w] = "downloading" /\ wpc'[w] \in {"landed", "cleaned"}
           \/ wpc[w] = "landed" /\ wpc'[w] = "cleaned"
    BY <1>2, <1>9
    DEF DownloadLands, DownloadFails, MayRaise, WorkerGoes, jobVars, Steady, Busy, BusyPcs
  <2>2. /\ StepsOfClaim(t)' < StepsOfClaim(t)
        /\ Promised(t)' = Promised(t)
    BY <1>3, <1>5, <2>1 DEF StepsOfRun
  <2>4. RetriesLeft(t)' = RetriesLeft(t) BY <2>1, <2>2 DEF RetriesLeft, HasRow
  <2>5. RetriesLeft(t) \in Nat BY DEF ClaimTold
  <2> QED BY <2>2, <2>4, <2>5, FewerSteps
<1>10. CASE CommitCompleted(w)
  <2>1. /\ wpc[w] = "landed" /\ UNCHANGED <<retries, scheduled>>
        /\ HasRow(t)' <=> HasRow(t)
        /\ wpc'[w] \notin BusyPcs
    BY <1>2, <1>10
    DEF CommitCompleted, WorkerGoes, jobVars, Busy, BusyPcs, HasRow, Statuses
  <2>2. StepsOfClaim(t) = 3 /\ Promised(t) = 0 /\ scheduled[t] = 0
    BY <1>3, <2>1 DEF StepsOfRun
  <2>3. StepsOfClaim(t)' = 0 /\ Promised(t)' = 0 BY <1>4, <1>6, <2>1, <2>2
  <2>4. RetriesLeft(t)' = RetriesLeft(t) BY <2>1, <2>2, <2>3 DEF RetriesLeft
  <2>5. RetriesLeft(t) \in Nat BY DEF ClaimTold
  <2> QED BY <2>2, <2>3, <2>4, <2>5, FewerSteps
<1>11. CASE ReloadAndSchedule(w)
  <2>1. wpc[w] = "cleaned" /\ UNCHANGED <<status, retries>>
    BY <1>11 DEF ReloadAndSchedule, taskVars
  <2>2. StepsOfClaim(t) = 2 /\ Promised(t) = 0 /\ scheduled[t] = 0
    BY <1>3, <2>1 DEF StepsOfRun
  <2>3. retries[t] \in Nat /\ MaxRetries \in Nat BY BoundsAssumption DEF Counts
  <2>4. CASE ~HasRow(t)
    <3>1. wpc'[w] \notin BusyPcs /\ scheduled' = scheduled
      BY <1>2, <1>11, <2>4 DEF ReloadAndSchedule, WorkerRest, BusyPcs
    <3>2. StepsOfClaim(t)' = 0 BY <1>4, <1>6, <2>2, <3>1
    <3>3. RetriesLeft(t) = 0 /\ RetriesLeft(t)' = 0
      BY <2>1, <2>4 DEF RetriesLeft, HasRow
    <3> QED BY <2>2, <3>2, <3>3, FewerSteps
  <2>5. CASE HasRow(t)
    <3>1. /\ wpc'[w] = "requeued" /\ Busy(w, t)'
          /\ scheduled'[t] = IF Exhausted(retries[t]) THEN 0 ELSE 1
      BY <1>2, <1>11, <2>2, <2>5
      DEF ReloadAndSchedule, ScheduledRetry, Busy, BusyPcs
    <3>2. CASE Exhausted(retries[t])
      <4>1. StepsOfClaim(t)' = 1 BY <1>5, <3>1, <3>2 DEF StepsOfRun
      <4>2. RetriesLeft(t) = 0 /\ RetriesLeft(t)' = 0 BY <2>1, <3>2 DEF RetriesLeft
      <4> QED BY <2>2, <4>1, <4>2, FewerSteps
    <3>3. CASE ~Exhausted(retries[t])
      <4>1. StepsOfClaim(t)' = 9 /\ Promised(t)' = 1
        BY <1>5, <3>1, <3>3 DEF StepsOfRun
      <4>2. /\ RetriesLeft(t) = MaxRetries - retries[t]
            /\ RetriesLeft(t)' = MaxRetries - retries[t] - 1
        BY <2>1, <2>2, <2>3, <2>5, <3>3, <4>1 DEF RetriesLeft, HasRow
      <4> QED BY <2>2, <2>3, <4>1, <4>2 DEF StepsLeft
    <3> QED BY <3>2, <3>3
  <2> QED BY <2>4, <2>5
<1>12. CASE CommitRetry(w)
  <2>1. wpc[w] = "requeued" /\ wpc'[w] \notin BusyPcs /\ scheduled' = scheduled
    BY <1>2, <1>12 DEF CommitRetry, WorkerGoes, WorkerRest, jobVars, BusyPcs
  <2>2. /\ wn[w] = retries[t] /\ scheduled[t] = PromisedJobs(retries[t])
    BY <1>0, <1>2, <2>1 DEF TaskClaims, HoldersAreUpToDate
  <2>3. StepsOfClaim(t)' < StepsOfClaim(t) /\ Promised(t) = scheduled[t] /\ Promised(t)' = 0
    BY <1>3, <1>4, <1>6, <2>1 DEF StepsOfRun
  <2>4. retries[t] \in Nat /\ MaxRetries \in Nat BY BoundsAssumption DEF Counts
  <2>5. RetriesLeft(t)' = RetriesLeft(t)
    <3>1. CASE ~HasRow(t)
      <4>1. ~HasRow(t)' BY <1>2, <1>12, <3>1 DEF CommitRetry, HasRow
      <4> QED BY <3>1, <4>1 DEF RetriesLeft
    <3>2. CASE HasRow(t)
      <4>1. /\ HasRow(t)'
            /\ retries'[t] = IF Exhausted(retries[t]) THEN retries[t] ELSE retries[t] + 1
        BY <1>2, <1>12, <2>2, <3>2 DEF CommitRetry, Verdict, Recount, HasRow, Statuses
      <4>2. CASE Exhausted(retries[t])
        BY <4>1, <4>2 DEF RetriesLeft
      <4>3. CASE ~Exhausted(retries[t])
        <5>1. RetriesLeft(t) = MaxRetries - retries[t] - 1 /\ retries'[t] = retries[t] + 1
          BY <2>2, <2>3, <3>2, <4>1, <4>3 DEF RetriesLeft, PromisedJobs
        <5>2. RetriesLeft(t)' = IF retries[t] + 1 >= MaxRetries THEN 0
                                ELSE MaxRetries - (retries[t] + 1) - 0
          BY <2>3, <4>1, <5>1 DEF RetriesLeft, Exhausted
        <5> QED BY <2>4, <4>3, <5>1, <5>2 DEF Exhausted
      <4> QED BY <4>2, <4>3
    <3> QED BY <3>1, <3>2
  <2>6. RetriesLeft(t) \in Nat BY DEF ClaimTold
  <2> QED BY <2>3, <2>5, <2>6, FewerSteps
<1>13. ~NotifyDone(w) BY <1>2 DEF NotifyDone, BusyPcs
<1> QED BY <1>7, <1>8, <1>9, <1>10, <1>11, <1>12, <1>13 DEF WorkerStep

(* The scheduler, when it puts a delayed job into its queue. *)
LEMMA PromoteSpends ==
  ASSUME TypeOK, ExclusiveClaims, Steady, NEW t \in Tasks, Promote(t),
         ClaimTold(t), ClaimTold(t)'
  PROVE  StepsLeft(t)' < StepsLeft(t)
<1>1. /\ scheduled[t] = 1 /\ scheduled'[t] = 0
      /\ \A w \in Workers : Busy(w, t) => wpc[w] = "requeued"
      /\ \A r \in Requests : ~Handing(r, t)
  BY DEF Promote, ExclusiveClaims, TaskClaims, OneScheduledJob, TypeOK, JobTypes
<1>2. ~InWork(t) BY <1>1 DEF Promote, Steady, InWork, Busy
<1>3. UNCHANGED <<wpc, wtask, rpc, rset, status, retries>>
  BY DEF Promote, workerVars, requestVars, taskVars
<1>4. ~InWork(t)' /\ \A r \in Requests : ~Handing(r, t)'
  BY <1>1, <1>2, <1>3 DEF InWork, Busy, Handing
<1>5. StepsOfClaim(t) = 8 /\ Promised(t) = 0
  BY <1>1, <1>2 DEF StepsOfClaim, StepsOfJob, Promised
<1>6. StepsOfClaim(t)' \in {0, 7} /\ Promised(t)' = 0
  BY <1>1, <1>4 DEF StepsOfClaim, StepsOfJob, Promised
<1>7. RetriesLeft(t)' = RetriesLeft(t) BY <1>3, <1>5, <1>6 DEF RetriesLeft, HasRow
<1>8. RetriesLeft(t) \in Nat BY DEF ClaimTold
<1> QED BY <1>5, <1>6, <1>7, <1>8, FewerSteps

(* The handler that enqueues what it has committed. *)
LEMMA EnqueueSpends ==
  ASSUME TypeOK, ExclusiveClaims, NEW t \in Tasks, NEW r \in Requests, Enqueue(r),
         Handing(r, t), ClaimTold(t), ClaimTold(t)'
  PROVE  StepsLeft(t)' < StepsLeft(t)
<1>1. /\ scheduled[t] = 0 /\ ~InWork(t)
      /\ \A s \in Requests : s # r => ~Handing(s, t)
  BY DEF ExclusiveClaims, TaskClaims, OneScheduledJob, OneHolder, TypeOK, JobTypes, InWork,
         Handing
<1>2. UNCHANGED <<wpc, wtask, status, retries, scheduled>>
  BY DEF Enqueue, workerVars, taskVars
<1>3. /\ ~InWork(t)'
      /\ \A s \in Requests : ~Handing(s, t)'
  <2>1. \A s \in Requests : s # r => rset'[s] = rset[s] /\ rpc'[s] = rpc[s]
    BY DEF Enqueue, RequestRest, TypeOK, RequestTypes
  <2>2. rpc'[r] = "idle" BY DEF Enqueue, RequestRest, TypeOK, RequestTypes
  <2> QED BY <1>1, <1>2, <2>1, <2>2 DEF InWork, Busy, Handing
<1>4. StepsOfClaim(t) = 8 /\ Promised(t) = 0
  BY <1>1 DEF StepsOfClaim, StepsOfJob, Promised
<1>5. StepsOfClaim(t)' \in {0, 7} /\ Promised(t)' = 0
  BY <1>1, <1>2, <1>3 DEF StepsOfClaim, StepsOfJob, Promised
<1>6. RetriesLeft(t)' = RetriesLeft(t) BY <1>2, <1>4, <1>5 DEF RetriesLeft, HasRow
<1>7. RetriesLeft(t) \in Nat BY DEF ClaimTold
<1> QED BY <1>4, <1>5, <1>6, <1>7, FewerSteps

(* Whatever touches neither the claim nor the row of a task, except to charge
   a retry or to remove jobs or row. *)
LEMMA ChargesOnly ==
  ASSUME TypeOK, TypeOK', NEW t \in Tasks, ClaimTold(t), ClaimTold(t)',
         HasRow(t)' => HasRow(t), retries'[t] \in {retries[t], retries[t] + 1},
         Promised(t)' = Promised(t)
  PROVE  RetriesLeft(t)' <= RetriesLeft(t)
<1>1. /\ retries[t] \in Nat /\ retries'[t] \in Nat /\ MaxRetries \in Nat
      /\ RetriesLeft(t) \in Nat /\ RetriesLeft(t)' \in Nat
  BY BoundsAssumption DEF TypeOK, RowTypes, Counts, ClaimTold
<1>2. CASE RetriesLeft(t)' = 0 BY <1>1, <1>2
<1>3. CASE RetriesLeft(t)' # 0
  <2>1. /\ HasRow(t)' /\ ~(retries'[t] >= MaxRetries)
        /\ RetriesLeft(t)' = MaxRetries - retries'[t] - Promised(t)'
    BY <1>3 DEF RetriesLeft, Exhausted
  <2>2. HasRow(t) /\ ~(retries[t] >= MaxRetries) BY <1>1, <2>1
  <2>3. RetriesLeft(t) = MaxRetries - retries[t] - Promised(t)
    BY <2>2 DEF RetriesLeft, Exhausted
  <2>4. Promised(t) \in Int
    <3>1. scheduled[t] \in Nat BY DEF TypeOK, JobTypes
    <3> QED BY <3>1 DEF Promised
  <2> QED BY <1>1, <2>1, <2>3, <2>4
<1> QED BY <1>2, <1>3

LEMMA OthersKeepClaim ==
  ASSUME TypeOK, ExclusiveClaims, AppIsUp, Steady, [Next]_vars, NEW t \in Tasks,
         ClaimTold(t), ClaimTold(t)', ~Advances(t), ~Renews
  PROVE  /\ StepsOfClaim(t)' <= StepsOfClaim(t) /\ Promised(t)' = Promised(t)
         /\ HasRow(t)' => HasRow(t)
<1> USE DEF TypeOK, RowTypes, JobTypes, WorkerTypes, RequestTypes, ClaimTold
<1> DEFINE Same ==
      /\ \A w \in Workers : (Busy(w, t)' <=> Busy(w, t)) /\ (Busy(w, t) => wpc'[w] = wpc[w])
      /\ scheduled'[t] = scheduled[t] /\ \A q \in Queues : queued'[q][t] = queued[q][t]
      /\ \A r \in Requests : Handing(r, t)' <=> Handing(r, t)
<1>1. ASSUME Same PROVE StepsOfClaim(t)' <= StepsOfClaim(t) /\ Promised(t)' = Promised(t)
  BY <1>1, UntouchedKeepsSteps
<1>2. ASSUME NEW w \in Workers, WorkerStep(w) PROVE Same /\ (HasRow(t)' <=> HasRow(t))
  <2>1. ~Busy(w, t) /\ ~Busy(w, t)' BY <1>2 DEF Advances
  <2>2. \A v \in Workers : v # w => wpc'[v] = wpc[v] /\ wtask'[v] = wtask[v]
    BY <1>2 DEF WorkerStep, Pop, Load, CommitStart, DownloadLands, CommitCompleted,
                DownloadFails, ReloadAndSchedule, CommitRetry, NotifyDone, WorkerGoes,
                WorkerRest
  <2>3. UNCHANGED <<rpc, rset>>
    BY <1>2 DEF requestVars, WorkerStep, Pop, Load, CommitStart, DownloadLands,
                CommitCompleted, DownloadFails, ReloadAndSchedule, CommitRetry, NotifyDone
  <2>4. scheduled'[t] = scheduled[t]
    <3>1. CASE ReloadAndSchedule(w)
      <4>1. wtask[w] # t BY <2>1, <3>1 DEF ReloadAndSchedule, Busy, BusyPcs
      <4> QED BY <3>1, <4>1 DEF ReloadAndSchedule, ScheduledRetry
    <3>2. CASE ~ReloadAndSchedule(w)
      BY <1>2, <3>2 DEF jobVars, WorkerStep, Pop, Load, CommitStart, DownloadLands,
                CommitCompleted, DownloadFails, CommitRetry, NotifyDone
    <3> QED BY <3>1, <3>2
  <2>5. \A q \in Queues : queued'[q][t] = queued[q][t]
    <3>1. CASE Pop(w)
      <4>1. PICK q \in Queues, u \in Tasks :
              queued' = [queued EXCEPT ![q][u] = @ - 1] /\ wtask' = [wtask EXCEPT ![w] = u]
        BY <3>1, ListensAssumption DEF Pop
      <4>2. u # t BY <2>1, <3>1, <4>1 DEF Pop, Busy, BusyPcs
      <4> QED BY <4>1, <4>2
    <3>2. CASE ~Pop(w)
      BY <1>2, <3>2 DEF jobVars, WorkerStep, Load, CommitStart, DownloadLands,
                CommitCompleted, DownloadFails, ReloadAndSchedule, CommitRetry, NotifyDone
    <3> QED BY <3>1, <3>2
  <2>6. status'[t] = status[t]
    BY <1>2, <2>1, WorkerWrites
    DEF Busy, BusyPcs, CommitStart, CommitCompleted, CommitRetry, WorkerGoes
  <2>7. /\ \A v \in Workers : (Busy(v, t)' <=> Busy(v, t)) /\ (Busy(v, t) => wpc'[v] = wpc[v])
        /\ \A r \in Requests : Handing(r, t)' <=> Handing(r, t)
    BY <2>1, <2>2, <2>3 DEF Busy, Handing
  <2> QED BY <2>4, <2>5, <2>6, <2>7 DEF HasRow
<1>3. ASSUME NEW u \in Tasks, Promote(u) PROVE Same /\ (HasRow(t)' <=> HasRow(t))
  <2>1. u # t BY <1>3 DEF Advances
  <2>2. UNCHANGED <<wpc, wtask, rpc, rset, status>>
    BY <1>3 DEF Promote, workerVars, requestVars, taskVars
  <2>3. scheduled'[t] = scheduled[t] /\ \A q \in Queues : queued'[q][t] = queued[q][t]
    BY <1>3, <2>1 DEF Promote, Enqueued
  <2> QED BY <2>2, <2>3 DEF Busy, Handing, HasRow
<1>4. ASSUME UNCHANGED vars \/ \E u \in Tasks : FileLost(u)
      PROVE  Same /\ (HasRow(t)' <=> HasRow(t))
  BY <1>4 DEF vars, FileLost, taskVars, jobVars, workerVars, requestVars, Busy, Handing, HasRow
<1>5. ASSUME NEW r \in Requests, Enqueue(r) \/ DeleteCancel(r) \/ Erase(r) \/ RevalCommit(r)
      PROVE  Same /\ (HasRow(t)' => HasRow(t))
  <2>1. UNCHANGED <<wpc, wtask, scheduled>>
    BY <1>5 DEF Enqueue, DeleteCancel, Erase, RevalCommit, workerVars, jobVars
  <2>2. \A s \in Requests : s # r => rset'[s] = rset[s] /\ rpc'[s] = rpc[s]
    BY <1>5 DEF Enqueue, DeleteCancel, Erase, RevalCommit, RequestGoes, RequestRest
  <2>3. ~Handing(r, t) /\ ~Handing(r, t)'
    BY <1>5 DEF Advances, Enqueue, DeleteCancel, Erase, RevalCommit, RequestGoes, RequestRest,
                Handing
  <2>4. \A q \in Queues : queued'[q][t] = queued[q][t]
    <3>1. CASE Enqueue(r)
      <4>1. t \notin rset[r] BY <2>3, <3>1 DEF Enqueue, Handing
      <4> QED BY <3>1, <4>1 DEF Enqueue, EnqueuedHome
    <3>2. CASE ~Enqueue(r) BY <1>5, <3>2 DEF DeleteCancel, Erase, RevalCommit, jobVars
    <3> QED BY <3>1, <3>2
  <2>5. HasRow(t)' => HasRow(t)
    BY <1>5 DEF Enqueue, DeleteCancel, Erase, RevalCommit, taskVars, HasRow, Statuses
  <2>6. \A s \in Requests : Handing(s, t)' <=> Handing(s, t) BY <2>2, <2>3 DEF Handing
  <2>7. \A w \in Workers : (Busy(w, t)' <=> Busy(w, t)) /\ wpc'[w] = wpc[w]
    BY <2>1 DEF Busy
  <2> QED BY <2>1, <2>4, <2>5, <2>6, <2>7
<1>6. ASSUME NEW r \in Requests, Purge(r)
      PROVE  /\ StepsOfClaim(t)' <= StepsOfClaim(t) /\ Promised(t)' = Promised(t)
             /\ HasRow(t)' => HasRow(t)
  <2>1. UNCHANGED <<wpc, wtask, scheduled, status, rset>>
    BY <1>6 DEF Purge, workerVars, taskVars, RequestGoes
  <2>2. \A s \in Requests : Handing(s, t)' <=> Handing(s, t)
    BY <1>6 DEF Purge, RequestGoes, Handing
  <2>3. \A w \in Workers : (Busy(w, t)' <=> Busy(w, t)) /\ (Busy(w, t) => wpc'[w] = wpc[w])
    BY <2>1 DEF Busy
  <2>4. HasRow(t)' => HasRow(t) BY <2>1 DEF HasRow
  <2>5. CASE t \notin rset[r]
    <3>1. \A q \in Queues : queued'[q][t] = queued[q][t] BY <1>6, <2>5 DEF Purge
    <3> QED BY <1>1, <2>1, <2>2, <2>3, <2>4, <3>1
  <2>6. CASE t \in rset[r]
    <3>1. CASE InWork(t)
      <4>1. PICK w \in Workers : Busy(w, t) BY <3>1 DEF InWork
      <4>2. Busy(w, t)' /\ wpc'[w] = wpc[w] /\ scheduled'[t] = scheduled[t]
        BY <2>1, <2>3, <4>1
      <4> QED BY <2>4, <4>1, <4>2
    <3>2. CASE ~InWork(t)
      <4>1. ~InWork(t)' BY <2>3, <3>2 DEF InWork
      <4>2. Unqueued(t)' BY <1>6, <2>6 DEF Purge, Unqueued
      <4>3. StepsOfJob(t)' <= StepsOfJob(t) BY <2>1, <2>2, <4>2 DEF StepsOfJob
      <4> QED BY <2>4, <3>2, <4>1, <4>3 DEF StepsOfClaim, Promised
    <3> QED BY <3>1, <3>2
  <2> QED BY <2>5, <2>6
<1> HIDE DEF Same
<1>7. ~Recovery /\ ~AppCrash /\ \A r \in Requests : ~AbortRequest(r)
  BY NoRecovery, NoInterruption
<1> QED
  BY <1>1, <1>2, <1>3, <1>4, <1>5, <1>6, <1>7 DEF Renews, Next, Fault, RequestStep

(* The steps of a task run out, the core of Settles: each step of its worker,
   of the scheduler or of the handler that enqueues it lowers a natural number,
   and what raises it is a handler that creates, retries or revalidates tasks,
   or a lost worker.  A task therefore takes eight steps for each retry left,
   and those of its claim, until somebody asks for more. *)
THEOREM WorkRunsOut ==
  ASSUME Steady, NEW t \in Tasks
  PROVE  Spec => [][/\ StepsLeft(t) \in Nat
                    /\ Advances(t) => StepsLeft(t)' < StepsLeft(t)
                    /\ ~Renews => StepsLeft(t)' <= StepsLeft(t)]_vars
<1> DEFINE Inv == TypeOK /\ ExclusiveClaims /\ AppIsUp /\ ClaimTold(t)
           Spends == /\ StepsLeft(t) \in Nat
                     /\ Advances(t) => StepsLeft(t)' < StepsLeft(t)
                     /\ ~Renews => StepsLeft(t)' <= StepsLeft(t)
<1>1. Spec => []AppIsUp
  <2>1. Init => AppIsUp BY DEF Init, AppIsUp
  <2> QED BY <2>1, NoRecovery, TypeCorrect, PTL DEF Spec
<1>2. TypeOK /\ ExclusiveClaims => ClaimTold(t) BY ClaimsAreTold
<1>3. Inv /\ Inv' /\ [Next]_vars => Spends
  <2> SUFFICES ASSUME Inv, Inv', [Next]_vars PROVE Spends OBVIOUS
  <2>1. StepsLeft(t) \in Nat BY DEF ClaimTold, StepsLeft
  <2>2. StepsLeft(t)' \in Nat BY DEF ClaimTold, StepsLeft
  <2>3. Advances(t) => StepsLeft(t)' < StepsLeft(t)
    BY WorkerSpends, PromoteSpends, EnqueueSpends DEF Advances
  <2>4. ASSUME ~Advances(t), ~Renews PROVE StepsLeft(t)' <= StepsLeft(t)
    <3>1. /\ StepsOfClaim(t)' <= StepsOfClaim(t) /\ Promised(t)' = Promised(t)
          /\ HasRow(t)' => HasRow(t)
      BY <2>4, OthersKeepClaim
    <3>2. retries'[t] \in {retries[t], retries[t] + 1} BY RetriesStep
    <3>3. RetriesLeft(t)' <= RetriesLeft(t) BY <3>1, <3>2, ChargesOnly
    <3> QED BY <3>1, <3>3, FewerSteps
  <2> QED BY <2>1, <2>2, <2>3, <2>4
<1> HIDE DEF Spends
<1>4. Spec => [][Spends]_vars
  BY <1>1, <1>2, <1>3, TypeCorrect, ClaimsExclusive, PTL DEF Spec
<1> QED BY <1>4 DEF Spends

(* ... and a task that has none left is settled or being deleted, unless it
   lost a job on the way: no task is left waiting with nothing to take it on. *)
THEOREM DoneWhenRunOut ==
  ASSUME Steady, NEW t \in Tasks
  PROVE  Spec => [](t \notin exposed /\ StepsLeft(t) = 0 =>
                      status[t] \notin Active \/ Leaving(t))
<1> DEFINE Settled == t \notin exposed /\ StepsLeft(t) = 0 =>
                        status[t] \notin Active \/ Leaving(t)
<1>1. TypeOK /\ AppIsUp /\ [Next]_vars => AppIsUp'
  BY NoInterruption, StaysUp
<1>2. Init => AppIsUp BY DEF Init, AppIsUp
<1>3. TypeOK /\ ExclusiveClaims /\ AppIsUp /\ RecoveryCovers => Settled
  <2> SUFFICES ASSUME TypeOK, ExclusiveClaims, AppIsUp, RecoveryCovers, t \notin exposed,
                      StepsLeft(t) = 0, status[t] \in Active, ~Leaving(t)
               PROVE  FALSE
    OBVIOUS
  <2>1. StepsOfClaim(t) = 0
    <3>1. StepsOfClaim(t) \in Nat /\ RetriesLeft(t) \in Nat BY ClaimsAreTold DEF ClaimTold
    <3> QED BY <3>1 DEF StepsLeft
  <2>2. t \notin Stranded BY DEF RecoveryCovers, AppIsUp
  <2>3. Carried(t) \/ Worked(t) BY <2>2 DEF Stranded, Active
  <2>4. ~InWork(t) BY <2>1 DEF StepsOfClaim, StepsOfRun
  <2>5. StepsOfJob(t) = 0 BY <2>1, <2>4 DEF StepsOfClaim
  <2>6. ~Worked(t) /\ \A w \in Workers : ~(wtask[w] = t /\ wpc[w] \in {"popped", "accepted"})
    BY <2>4 DEF InWork, Busy, BusyPcs, Worked
  <2>7. /\ scheduled[t] = 0 /\ Unqueued(t)
        /\ \A r \in Requests : ~Handing(r, t)
    BY <2>5 DEF StepsOfJob, TypeOK, JobTypes
  <2> QED BY <2>3, <2>6, <2>7 DEF Carried, Unqueued, Handing
<1>4. BackoffOutlastsCommit BY DEF Steady
<1>5. Spec => []RecoveryCovers BY <1>4, RecoveryIsComplete
<1> HIDE DEF Settled
<1>6. Spec => []Settled
  BY <1>1, <1>2, <1>3, <1>5, TypeCorrect, ClaimsExclusive, PTL DEF Spec
<1> QED BY <1>6 DEF Settled
=============================================================================
