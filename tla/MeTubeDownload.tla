--------------------------- MODULE MeTubeDownload ---------------------------
(***************************************************************************)
(* What the external worker does between DOWNLOADING and the outcome of a  *)
(* link task: it submits the URL to MeTube and polls MeTube's history      *)
(* until an entry with the key of its URL is finished, failed, or the      *)
(* deadline has passed.  MediaTasks has this as one step with two          *)
(* outcomes.                                                               *)
(***************************************************************************)
EXTENDS Naturals, SequencesExt

CONSTANTS
  Links,       \* link tasks
  Url,         \* Url[t]: the URL of a task: the labels of its host, the parts of
               \* its path, and v of its query ("" without one)
  MaxTries,    \* attempts of a task: retries and the first one
  MaxOutages,  \* bound: how often MeTube goes away or comes back
  KeepsDone    \* does MeTube keep the old entry of a URL submitted again?

ASSUME UrlAssumption == \A t \in Links : DOMAIN Url[t] = {"host", "path", "v"}
ASSUME TriesAssumption ==
  MaxTries \in Nat \ {0} /\ MaxOutages \in Nat /\ KeepsDone \in BOOLEAN

VARIABLES
  pc,       \* pc[t]: where the attempt of a task is, or how the last one ended
  tries,    \* tries[t]: attempts so far
  late,     \* late[t]: has the deadline of the poll passed?
  running,  \* MeTube: the URLs it is downloading
  done,     \* MeTube: the entries of its done list
  reach,    \* does MeTube answer?
  outages   \* changes of `reach` so far

workerVars == <<pc, tries, late>>
metubeVars == <<running, done>>
netVars == <<reach, outages>>
vars == <<workerVars, metubeVars, netVars>>

Init ==
  /\ pc = [t \in Links |-> "waiting"]
  /\ tries = [t \in Links |-> 0]
  /\ late = [t \in Links |-> FALSE]
  /\ running = {} /\ done = {}
  /\ reach = TRUE /\ outages = 0

-----------------------------------------------------------------------------
(* Keys of URLs: _youtube_video_id, _canonical_download_key, _urls_match *)

ShortHosts == {<<"youtu", "be">>, <<"www", "youtu", "be">>}
OnYouTube(u) ==
  IsSuffix(<<"youtube", "com">>, u.host) \/ IsSuffix(<<"youtube-nocookie", "com">>, u.host)
NamesVideo(u) == Len(u.path) >= 2 /\ u.path[1] \in {"shorts", "embed", "v"}

VideoId(u) ==
  CASE u.host \in ShortHosts /\ u.path # <<>>      -> u.path[1]
    [] OnYouTube(u) /\ u.v # ""                     -> u.v
    [] OnYouTube(u) /\ u.v = "" /\ NamesVideo(u)    -> u.path[2]
    [] OTHER                                        -> ""

(* Of any other URL the query does not count. *)
Key(u) == IF VideoId(u) # "" THEN <<"youtube", VideoId(u)>> ELSE <<"url", u.host, u.path>>

Matching(t) == {e \in done : Key(e.url) = Key(Url[t])}

(* The form MeTube gives a URL: that of the page it ends at. *)
Expanded(u) ==
  IF VideoId(u) # ""
  THEN [host |-> <<"www", "youtube", "com">>, path |-> <<"watch">>, v |-> VideoId(u)]
  ELSE IF u.host = <<"b23", "tv">>
       THEN [u EXCEPT !.host = <<"www", "bilibili", "com">>]
       ELSE u

-----------------------------------------------------------------------------
(* The attempt of a task *)

(* The except clause: another attempt, until the retries are used up. *)
Fails_OffByOne(t) == pc' = [pc EXCEPT ![t] = IF tries[t] <= MaxTries THEN "waiting" ELSE "failed"]
Fails_Early(t) == pc' = [pc EXCEPT ![t] = IF tries[t] + 1 < MaxTries THEN "waiting" ELSE "failed"]
Fails(t) == pc' = [pc EXCEPT ![t] = IF tries[t] < MaxTries THEN "waiting" ELSE "failed"]

Start(t) ==
  /\ pc[t] = "waiting"
  /\ pc' = [pc EXCEPT ![t] = "submitting"]
  /\ tries' = [tries EXCEPT ![t] = @ + 1]
  /\ late' = [late EXCEPT ![t] = FALSE]
  /\ UNCHANGED <<metubeVars, netVars>>

(* POST /add: MeTube takes the URL, and the worker hears of it or not. *)
Submit(t) ==
  /\ pc[t] = "submitting" /\ reach
  /\ running' = running \cup {Expanded(Url[t])}
  /\ done' = IF KeepsDone THEN done ELSE {e \in done : e.url # Expanded(Url[t])}
  /\ \/ pc' = [pc EXCEPT ![t] = "polling"]
     \/ Fails(t)
  /\ UNCHANGED <<tries, late, netVars>>

(* ... or it is unreachable, or rejects the URL. *)
SubmitFails(t) ==
  /\ pc[t] = "submitting"
  /\ Fails(t)
  /\ UNCHANGED <<tries, late, metubeVars, netVars>>

(* One round of the loop that finds an entry, be it that of an earlier attempt or
   of another task with the same key; a request that fails and a list without a
   matching entry make it sleep and go round again. *)
Poll(t) ==
  /\ pc[t] = "polling" /\ ~late[t] /\ reach
  /\ \E e \in Matching(t) :
       IF e.ok THEN pc' = [pc EXCEPT ![t] = "checking"] ELSE Fails(t)
  /\ UNCHANGED <<tries, late, metubeVars, netVars>>

Deadline(t) ==
  /\ pc[t] = "polling" /\ ~late[t]
  /\ late' = [late EXCEPT ![t] = TRUE]
  /\ UNCHANGED <<pc, tries, metubeVars, netVars>>

TimedOut_IfAnswered(t) == late[t] /\ reach
TimedOut(t) == late[t]

PollTimeout(t) ==
  /\ pc[t] = "polling" /\ TimedOut(t)
  /\ Fails(t)
  /\ UNCHANGED <<tries, late, metubeVars, netVars>>

(* The file of the entry is there with something in it, or not. *)
CheckFile(t) ==
  /\ pc[t] = "checking"
  /\ \/ pc' = [pc EXCEPT ![t] = "completed"]
     \/ Fails(t)
  /\ UNCHANGED <<tries, late, metubeVars, netVars>>

-----------------------------------------------------------------------------
(* MeTube *)

(* A download ends; its entry replaces an older one of the same URL. *)
Ends(u) ==
  /\ running' = running \ {u}
  /\ \E good \in BOOLEAN :
       done' = {e \in done : e.url # u} \cup {[url |-> u, ok |-> good]}
  /\ UNCHANGED <<workerVars, netVars>>

Outage ==
  /\ outages < MaxOutages
  /\ outages' = outages + 1 /\ reach' = ~reach
  /\ UNCHANGED <<workerVars, metubeVars>>

-----------------------------------------------------------------------------
Attempt(t) ==
  Start(t) \/ Submit(t) \/ SubmitFails(t) \/ Poll(t) \/ PollTimeout(t) \/ CheckFile(t)

Next ==
  \/ \E t \in Links : Attempt(t) \/ Deadline(t)
  \/ \E u \in running : Ends(u)
  \/ Outage

Spec == Init /\ [][Next]_vars

(* The worker goes on and time passes; MeTube owes nothing. *)
Fairness == \A t \in Links : WF_vars(Attempt(t)) /\ WF_vars(Deadline(t))

FairSpec == Spec /\ Fairness

-----------------------------------------------------------------------------
(* Properties *)

Pages == {Expanded(Url[t]) : t \in Links}
Entries == [url : Pages, ok : BOOLEAN]

(* Type invariant. *)
TypeOK ==
  /\ pc \in [Links -> {"waiting", "submitting", "polling", "checking", "completed", "failed"}]
  /\ tries \in [Links -> 0..MaxTries]
  /\ late \in [Links -> BOOLEAN]
  /\ running \subseteq Pages
  /\ done \subseteq Entries
  /\ reach \in BOOLEAN /\ outages \in 0..MaxOutages

(* The deadline ends a poll, though MeTube may never answer again and old
   downloads may still be running: every task completes or fails, though tasks share entries. *)
EveryTaskEnds == \A t \in Links : <>(pc[t] \in {"completed", "failed"})

-----------------------------------------------------------------------------
(* Refinement: the attempts of a link task go through the stages of
   TaskLifecycle.  The first attempt is no retry. *)
Stage(t) ==
  CASE pc[t] = "waiting" -> "waiting"
    [] pc[t] = "completed" -> "done"
    [] pc[t] = "failed" -> "failed"
    [] OTHER -> "running"

Retried(t) == IF pc[t] = "waiting" THEN tries[t] ELSE tries[t] - 1

Life(t) == INSTANCE TaskLifecycle
           WITH MaxRetries <- MaxTries - 1, stage <- Stage(t), attempts <- Retried(t)
=============================================================================
