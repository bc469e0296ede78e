--------------------------- MODULE MeTubeProofs ---------------------------
(***************************************************************************)
(* Theorems about MeTubeDownload, for any number of links, attempts and    *)
(* outages, and whether MeTube keeps old entries or not.                   *)
(***************************************************************************)
EXTENDS MeTubeDownload, TLAPS

USE DEF workerVars, metubeVars, netVars

-----------------------------------------------------------------------------
(* Types: an attempt under way has been counted, and a task that waits has an
   attempt left. *)

AttemptsCounted ==
  \A t \in Links : /\ pc[t] = "waiting" => tries[t] < MaxTries
                   /\ pc[t] # "waiting" => tries[t] >= 1

Typed == TypeOK /\ AttemptsCounted

LEMMA FailsTyped ==
  ASSUME Typed, NEW t \in Links, tries[t] >= 1, Fails(t), UNCHANGED tries
  PROVE  /\ pc' \in [Links -> {"waiting", "submitting", "polling", "checking",
                               "completed", "failed"}]
         /\ AttemptsCounted'
BY TriesAssumption DEF Typed, TypeOK, AttemptsCounted, Fails

LEMMA AttemptTyped ==
  ASSUME Typed, NEW t \in Links, Attempt(t) \/ Deadline(t)
  PROVE  Typed'
<1> USE TriesAssumption DEF Typed
<1>1. CASE Start(t) BY <1>1 DEF Start, TypeOK, AttemptsCounted
<1>2. CASE Submit(t)
  <2>1. tries[t] \in 1..MaxTries BY <1>2 DEF Submit, TypeOK, AttemptsCounted
  <2>2. running' \subseteq Pages /\ done' \subseteq Entries
    BY <1>2, <2>1 DEF Submit, TypeOK, Pages
  <2>3. CASE pc' = [pc EXCEPT ![t] = "polling"]
    BY <1>2, <2>1, <2>2, <2>3 DEF Submit, TypeOK, AttemptsCounted
  <2>4. CASE Fails(t)
    BY <1>2, <2>1, <2>2, <2>4, FailsTyped DEF Submit, TypeOK
  <2> QED BY <1>2, <2>3, <2>4 DEF Submit
<1>3. CASE SubmitFails(t)
  <2>1. tries[t] >= 1 BY <1>3 DEF SubmitFails, AttemptsCounted
  <2> QED BY <1>3, <2>1, FailsTyped DEF SubmitFails, TypeOK
<1>4. CASE Poll(t)
  <2>1. tries[t] >= 1 BY <1>4 DEF Poll, AttemptsCounted
  <2>2. CASE pc' = [pc EXCEPT ![t] = "checking"]
    BY <1>4, <2>1, <2>2 DEF Poll, TypeOK, AttemptsCounted
  <2>3. CASE Fails(t) BY <1>4, <2>1, <2>3, FailsTyped DEF Poll, TypeOK
  <2> QED BY <1>4, <2>2, <2>3 DEF Poll
<1>5. CASE Deadline(t) BY <1>5 DEF Deadline, TypeOK, AttemptsCounted
<1>6. CASE PollTimeout(t)
  <2>1. tries[t] >= 1 BY <1>6 DEF PollTimeout, AttemptsCounted
  <2> QED BY <1>6, <2>1, FailsTyped DEF PollTimeout, TypeOK
<1>7. CASE CheckFile(t)
  <2>1. tries[t] >= 1 BY <1>7 DEF CheckFile, AttemptsCounted
  <2>2. CASE pc' = [pc EXCEPT ![t] = "completed"]
    BY <1>7, <2>1, <2>2 DEF CheckFile, TypeOK, AttemptsCounted
  <2>3. CASE Fails(t) BY <1>7, <2>1, <2>3, FailsTyped DEF CheckFile, TypeOK
  <2> QED BY <1>7, <2>2, <2>3 DEF CheckFile
<1> QED BY <1>1, <1>2, <1>3, <1>4, <1>5, <1>6, <1>7 DEF Attempt

LEMMA EndsTyped ==
  ASSUME Typed, NEW u \in running, Ends(u)
  PROVE  Typed'
<1>1. \A good \in BOOLEAN : [url |-> u, ok |-> good] \in Entries
  BY DEF Entries, Typed, TypeOK
<1>2. done' \subseteq Entries BY <1>1 DEF Ends, Typed, TypeOK
<1> QED BY <1>2 DEF Ends, Typed, TypeOK, AttemptsCounted

LEMMA TypedStep ==
  ASSUME Typed, [Next]_vars
  PROVE  Typed'
<1>1. CASE UNCHANGED vars BY <1>1 DEF vars, Typed, TypeOK, AttemptsCounted
<1>2. CASE Outage BY <1>2, TriesAssumption DEF Outage, Typed, TypeOK, AttemptsCounted
<1> QED BY <1>1, <1>2, AttemptTyped, EndsTyped DEF Next

LEMMA AlwaysTyped == Spec => []Typed
<1>1. Init => Typed BY TriesAssumption DEF Init, Typed, TypeOK, AttemptsCounted
<1> QED BY <1>1, TypedStep, PTL DEF Spec

(* The attempts of every link and the lists of MeTube hold values of their
   types; in particular no link is tried more than MaxTries times, whatever
   MeTube does. *)
THEOREM MeTubeTypeCorrect == Spec => []TypeOK
BY AlwaysTyped, PTL DEF Typed

-----------------------------------------------------------------------------
(* Why every task ends: its steps run out.  What is left of a task is what is
   left of its attempt and five steps for each attempt to come. *)

StepsOfAttempt(t) ==
  CASE pc[t] = "submitting" -> 4
    [] pc[t] = "polling" /\ ~late[t] -> 3
    [] pc[t] = "polling" /\ late[t] -> 2
    [] pc[t] = "checking" -> 1
    [] OTHER -> 0

StepsLeft(t) == 5 * (MaxTries - tries[t]) + StepsOfAttempt(t)

(* The deadline belongs to the attempt under way. *)
FreshDeadline == \A t \in Links : pc[t] = "submitting" => ~late[t]

LEMMA FreshDeadlineStep ==
  ASSUME Typed, FreshDeadline, [Next]_vars
  PROVE  FreshDeadline'
<1> USE DEF Typed, TypeOK, FreshDeadline
<1>1. CASE UNCHANGED vars BY <1>1 DEF vars
<1>2. ASSUME NEW t \in Links, Attempt(t) \/ Deadline(t) PROVE FreshDeadline'
  BY <1>2 DEF Attempt, Fails, Start, Submit, SubmitFails, Poll, Deadline, PollTimeout,
              CheckFile
<1>3. (\E u \in running : Ends(u)) \/ Outage => UNCHANGED <<pc, late>>
  BY DEF Ends, Outage
<1> QED BY <1>1, <1>2, <1>3 DEF Next

LEMMA StepSpends ==
  ASSUME Typed, Typed', FreshDeadline, NEW t \in Links, Attempt(t) \/ Deadline(t)
  PROVE  StepsLeft(t)' < StepsLeft(t)
<1> USE TriesAssumption DEF Typed, TypeOK
<1>1. CASE Start(t)
  <2>1. /\ tries'[t] = tries[t] + 1 /\ StepsOfAttempt(t) = 0 /\ StepsOfAttempt(t)' = 4
    BY <1>1 DEF Start, StepsOfAttempt
  <2>2. tries[t] \in Nat BY DEF Typed
  <2> QED BY <2>1, <2>2 DEF StepsLeft
<1>2. CASE ~Start(t)
  <2>1. tries'[t] = tries[t]
    BY <1>2 DEF Attempt, Submit, SubmitFails, Poll, Deadline, PollTimeout, CheckFile
  <2>2. \A v \in {"waiting", "failed"} : pc'[t] = v => StepsOfAttempt(t)' = 0
    BY DEF StepsOfAttempt
  <2>3. Fails(t) => pc'[t] \in {"waiting", "failed"} BY DEF Fails
  <2>4. /\ StepsOfAttempt(t)' < StepsOfAttempt(t)
        /\ StepsOfAttempt(t) \in Nat /\ StepsOfAttempt(t)' \in Nat
    <3>1. CASE Submit(t) BY <2>2, <2>3, <3>1 DEF Submit, StepsOfAttempt, FreshDeadline
    <3>2. CASE SubmitFails(t) BY <2>2, <2>3, <3>2 DEF SubmitFails, StepsOfAttempt
    <3>3. CASE Poll(t) BY <2>2, <2>3, <3>3 DEF Poll, StepsOfAttempt
    <3>4. CASE Deadline(t) BY <3>4 DEF Deadline, StepsOfAttempt
    <3>5. CASE PollTimeout(t)
      BY <2>2, <2>3, <3>5 DEF PollTimeout, TimedOut, StepsOfAttempt
    <3>6. CASE CheckFile(t) BY <2>2, <2>3, <3>6 DEF CheckFile, StepsOfAttempt
    <3> QED BY <1>2, <3>1, <3>2, <3>3, <3>4, <3>5, <3>6 DEF Attempt
  <2>5. tries[t] \in Nat /\ MaxTries \in Nat OBVIOUS
  <2> QED BY <2>1, <2>4, <2>5 DEF StepsLeft
<1> QED BY <1>1, <1>2

(* What MeTube, the network and the other tasks do leaves a task alone. *)
LEMMA OthersSpendNothing ==
  ASSUME Typed, [Next]_vars, NEW t \in Links, ~Attempt(t), ~Deadline(t)
  PROVE  pc'[t] = pc[t] /\ tries'[t] = tries[t] /\ late'[t] = late[t]
<1> USE DEF Typed, TypeOK
<1>1. ASSUME NEW s \in Links, s # t, Attempt(s) \/ Deadline(s)
      PROVE  pc'[t] = pc[t] /\ tries'[t] = tries[t] /\ late'[t] = late[t]
  BY <1>1 DEF Attempt, Fails, Start, Submit, SubmitFails, Poll, Deadline, PollTimeout,
              CheckFile
<1>2. (\E u \in running : Ends(u)) \/ Outage \/ UNCHANGED vars => UNCHANGED <<pc, tries, late>>
  BY DEF Ends, Outage, vars
<1> QED BY <1>1, <1>2 DEF Next

(* The steps of a task run out, whatever MeTube answers or fails to answer:
   each step of the worker or of the clock for a task lowers a natural number,
   and no step of anybody raises it.  With EveryTaskEnds this says how long an
   attempt can last: five steps for each try. *)
THEOREM StepsRunOut ==
  Spec => [][\A t \in Links :
               /\ StepsLeft(t) \in Nat
               /\ Attempt(t) \/ Deadline(t) => StepsLeft(t)' < StepsLeft(t)
               /\ StepsLeft(t)' <= StepsLeft(t)]_vars
<1> DEFINE Spends ==
      \A t \in Links :
        /\ StepsLeft(t) \in Nat
        /\ Attempt(t) \/ Deadline(t) => StepsLeft(t)' < StepsLeft(t)
        /\ StepsLeft(t)' <= StepsLeft(t)
<1>1. ASSUME Typed, NEW t \in Links PROVE StepsLeft(t) \in Nat
  <2>1. tries[t] \in 0..MaxTries BY <1>1 DEF Typed, TypeOK
  <2>2. MaxTries - tries[t] \in Nat BY <2>1, TriesAssumption
  <2>3. StepsOfAttempt(t) \in Nat BY DEF StepsOfAttempt
  <2> QED BY <2>2, <2>3 DEF StepsLeft
<1>2. Typed /\ FreshDeadline /\ [Next]_vars => Spends
  <2> SUFFICES ASSUME Typed, FreshDeadline, [Next]_vars, NEW t \in Links
               PROVE  /\ StepsLeft(t) \in Nat
                      /\ Attempt(t) \/ Deadline(t) => StepsLeft(t)' < StepsLeft(t)
                      /\ StepsLeft(t)' <= StepsLeft(t)
    OBVIOUS
  <2>1. Typed' BY TypedStep
  <2>2. StepsLeft(t) \in Nat BY <1>1
  <2>3. StepsLeft(t)' \in Nat
    <3>1. tries'[t] \in 0..MaxTries BY <2>1 DEF Typed, TypeOK
    <3>2. MaxTries - tries'[t] \in Nat BY <3>1, TriesAssumption
    <3>3. StepsOfAttempt(t)' \in Nat BY DEF StepsOfAttempt
    <3> QED BY <3>2, <3>3 DEF StepsLeft
  <2>4. CASE Attempt(t) \/ Deadline(t) BY <2>1, <2>2, <2>3, <2>4, StepSpends
  <2>5. CASE ~Attempt(t) /\ ~Deadline(t)
    <3>1. pc'[t] = pc[t] /\ tries'[t] = tries[t] /\ late'[t] = late[t]
      BY <2>5, OthersSpendNothing
    <3>2. StepsLeft(t)' = StepsLeft(t) BY <3>1 DEF StepsLeft, StepsOfAttempt
    <3> QED BY <2>2, <2>5, <3>2
  <2> QED BY <2>4, <2>5
<1>3. Init => FreshDeadline BY DEF Init, FreshDeadline
<1>4. Spec => []FreshDeadline BY <1>3, FreshDeadlineStep, AlwaysTyped, PTL DEF Spec
<1> HIDE DEF Spends
<1>5. Spec => [][Spends]_vars BY <1>2, <1>4, AlwaysTyped, PTL DEF Spec
<1> QED BY <1>5 DEF Spends

-----------------------------------------------------------------------------
(* Every step of an attempt is a step of the task's life. *)

Lives(t) == [Life(t)!LNext]_(Life(t)!lvars)

(* The except clause charges a retry or gives up, as the life of a task does. *)
LEMMA FailsLives ==
  ASSUME Typed, NEW t \in Links, Fails(t), pc[t] \in {"submitting", "polling", "checking"},
         tries' = tries
  PROVE  Lives(t)
<1> USE DEF Typed, TypeOK
<1>1. Stage(t) = "running" /\ Retried(t) = tries[t] - 1 BY DEF Stage, Retried
<1>2. tries[t] \in Nat /\ tries[t] >= 1 /\ MaxTries \in Nat
  BY TriesAssumption DEF AttemptsCounted
<1>3. pc'[t] = IF tries[t] < MaxTries THEN "waiting" ELSE "failed" BY DEF Fails
<1>4. CASE tries[t] < MaxTries
  <2>1. Stage(t)' = "waiting" /\ Retried(t)' = tries[t]
    BY <1>3, <1>4 DEF Stage, Retried
  <2> QED
    BY <1>1, <1>2, <1>4, <2>1 DEF Lives, Life!LNext, Life!Fail, Life!TryAgain
<1>5. CASE ~(tries[t] < MaxTries)
  <2>1. Stage(t)' = "failed" /\ Retried(t)' = tries[t] - 1
    BY <1>3, <1>5 DEF Stage, Retried
  <2> QED
    BY <1>1, <1>2, <1>5, <2>1 DEF Lives, Life!LNext, Life!Fail, Life!TryAgain
<1> QED BY <1>4, <1>5

LEMMA AttemptLives ==
  ASSUME Typed, NEW t \in Links, Attempt(t)
  PROVE  Lives(t)
<1> USE DEF Typed, TypeOK
<1>1. tries[t] \in Nat OBVIOUS
<1>2. CASE Start(t)
  <2>1. /\ pc[t] = "waiting" /\ pc'[t] = "submitting" /\ tries'[t] = tries[t] + 1
    BY <1>2 DEF Start
  <2>2. /\ Stage(t) = "waiting" /\ Retried(t) = tries[t]
        /\ Stage(t)' = "running" /\ Retried(t)' = tries[t]
    BY <1>1, <2>1 DEF Stage, Retried
  <2> QED BY <2>2 DEF Lives, Life!LNext, Life!Start
<1>3. ASSUME pc[t] \in {"submitting", "polling"}, pc' = [pc EXCEPT ![t] = pc'[t]],
             pc'[t] \in {"polling", "checking"}, tries' = tries
      PROVE  Lives(t)
  BY <1>3 DEF Lives, Stage, Retried, Life!lvars
<1>4. CASE Submit(t) BY <1>3, <1>4, FailsLives DEF Submit
<1>5. CASE SubmitFails(t) BY <1>5, FailsLives DEF SubmitFails
<1>6. CASE Poll(t) BY <1>3, <1>6, FailsLives DEF Poll
<1>7. CASE PollTimeout(t) BY <1>7, FailsLives DEF PollTimeout
<1>8. CASE CheckFile(t)
  <2>1. CASE pc' = [pc EXCEPT ![t] = "completed"]
    <3>1. /\ Stage(t) = "running" /\ Stage(t)' = "done" /\ Retried(t)' = Retried(t)
      BY <1>8, <2>1 DEF CheckFile, Stage, Retried
    <3> QED BY <3>1 DEF Lives, Life!LNext, Life!Succeed
  <2> QED BY <1>8, <2>1, FailsLives DEF CheckFile
<1> QED BY <1>2, <1>4, <1>5, <1>6, <1>7, <1>8 DEF Attempt

(* The attempts of a link task are the life that TaskLifecycle describes,
   whatever MeTube answers: it starts, succeeds, or fails into one more of
   MaxTries - 1 retries, and once it has ended it stays so. *)
THEOREM AttemptsAreALife ==
  ASSUME NEW t \in Links
  PROVE  Spec => /\ Stage(t) = "waiting" /\ Retried(t) = 0
                 /\ [][Life(t)!LNext]_(Life(t)!lvars)
<1>1. Typed /\ [Next]_vars => Lives(t)
  <2> SUFFICES ASSUME Typed, [Next]_vars PROVE Lives(t) OBVIOUS
  <2>1. CASE ~Attempt(t)
    <3>1. pc'[t] = pc[t] /\ tries'[t] = tries[t]
      BY <2>1, OthersSpendNothing DEF Deadline
    <3> QED BY <3>1 DEF Lives, Stage, Retried, Life!lvars
  <2> QED BY <2>1, AttemptLives
<1>2. Init => Stage(t) = "waiting" /\ Retried(t) = 0 BY DEF Init, Stage, Retried
<1> QED BY <1>1, <1>2, AlwaysTyped, PTL DEF Spec, Lives
=============================================================================
