---------------------------- MODULE MCMediaTasks ----------------------------
(* Instances of MediaTasks for TLC. *)
EXTENDS MediaTasks

CONSTANTS tg1, link1, tgWorker, linkWorker, r1, r2, none,
          thisUrl

(* docker-compose.yml: each worker process listens to its own queue and to
   the retry queue. *)
ComposeListens ==
  [w \in Workers |-> IF w = tgWorker THEN {"tg_download", "retry"}
                                     ELSE {"external_download", "retry"}]

SameUrls == [t \in Tasks |-> thisUrl]

(* Budgets: how often a worker loses its job, the application crashes, a
   handler is stopped by an error, a finished file disappears. *)
FaultBudget(job, apps, request, file) ==
  [f \in Faults |-> CASE f = "job" -> job [] f = "app" -> apps
                      [] f = "request" -> request [] f = "file" -> file]

FilesLost == FaultBudget(0, 0, 0, 1)
OneRestart == FaultBudget(1, 1, 0, 0)
AllButFiles == FaultBudget(1, 2, 1, 0)

(* A Telegram task and a link task each live as TaskLifecycle promises, the
   progress it promises included. *)
TgLife == INSTANCE TaskLifecycle WITH stage <- Stage(tg1), attempts <- retries[tg1]
LinkLife == INSTANCE TaskLifecycle WITH stage <- Stage(link1), attempts <- retries[link1]
LivesAsPromised == TgLife!LSpec /\ LinkLife!LSpec
=============================================================================
