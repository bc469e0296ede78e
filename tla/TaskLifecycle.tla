--------------------------- MODULE TaskLifecycle ---------------------------
(***************************************************************************)
(* What the task system promises about one task, whatever queues, workers  *)
(* and handlers do to it: a task waits, runs, and either ends or waits     *)
(* again; automatic retries stop at MaxRetries; only a resubmission by the *)
(* user or a lost file brings an ended task back; a withdrawn task is gone *)
(* for good.                                                               *)
(***************************************************************************)
EXTENDS Naturals

CONSTANT MaxRetries

VARIABLES
  stage,    \* where the task is in its life
  attempts  \* retries charged to it so far

Stages == {"none", "waiting", "running", "done", "failed", "gone"}

LInit == stage = "none" /\ attempts = 0

Submit == stage = "none" /\ stage' = "waiting" /\ UNCHANGED attempts

Start == stage = "waiting" /\ stage' = "running" /\ UNCHANGED attempts

(* A task that can never run is refused before it starts. *)
Refuse == stage = "waiting" /\ stage' = "failed" /\ UNCHANGED attempts

Succeed == stage = "running" /\ stage' = "done" /\ UNCHANGED attempts

(* One more automatic retry, or none left. *)
TryAgain ==
  \/ attempts < MaxRetries /\ attempts' = attempts + 1 /\ stage' = "waiting"
  \/ attempts >= MaxRetries /\ UNCHANGED attempts /\ stage' = "failed"

Fail == stage = "running" /\ TryAgain

(* The file of a finished task has disappeared. *)
Requeue == stage = "done" /\ TryAgain

Resubmit ==
  stage = "failed" /\ stage' = "waiting" /\ attempts' = attempts + 1

Withdraw ==
  stage \notin {"none", "gone"} /\ stage' = "gone" /\ UNCHANGED attempts

(* What still happens to the counter of a task being withdrawn is nobody's
   concern. *)
Forget == stage = "gone" /\ attempts' = attempts + 1 /\ UNCHANGED stage

LNext ==
  \/ Submit \/ Start \/ Refuse \/ Succeed \/ Fail \/ Requeue \/ Resubmit
  \/ Withdraw \/ Forget

lvars == <<stage, attempts>>

(* A task neither waits nor runs for ever. *)
LFairness == WF_lvars(Start \/ Refuse) /\ WF_lvars(Succeed \/ Fail)

LSafety == LInit /\ [][LNext]_lvars

LSpec == LSafety /\ LFairness

(* The life of a task from some point on. *)
LLives == [][LNext]_lvars /\ LFairness
=============================================================================
