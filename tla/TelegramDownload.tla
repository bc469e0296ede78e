-------------------------- MODULE TelegramDownload --------------------------
(***************************************************************************)
(* What tg_worker._do_download does between the status check of a Telegram *)
(* task and the commit of its outcome: the files it writes, the references *)
(* by which Telegram hands out the media, and the refreshing of a          *)
(* reference from the message the media came with.  Which job starts a run *)
(* and when a failed one is tried again is MediaTasks; here a task has one *)
(* run at a time and any failed attempt may be followed by another.        *)
(*                                                                         *)
(* Telegram and pyrogram are external: a download raises (because the      *)
(* reference has expired, or for another reason), or leaves a file of any  *)
(* size up to the whole, since pyrogram's stream swallows errors.  The     *)
(* message may meanwhile have been edited or deleted.  The name of a file  *)
(* is what _safe_file_name makes of it: the id of the task is in it, so    *)
(* files of two tasks never meet.                                          *)
(***************************************************************************)
EXTENDS Integers, Sequences, FiniteSets

CONSTANTS
  Names,        \* names the media may have
  NoPath,       \* local_path of a row that has never completed
  Whole,        \* the size of the media
  MaxAttempts,  \* bound: runs of the task
  MaxLost       \* bound: runs whose process dies

ASSUME NamesAssumption == Names # {} /\ NoPath \notin Names
ASSUME WholeAssumption == Whole \in Nat \ {0}
ASSUME LimitsAssumption == MaxAttempts \in Nat /\ MaxLost \in Nat

Absent == -1
Sizes == 0..Whole

VARIABLES
  status,     \* the status column, "waiting" for PENDING and RETRYING
  name, size, ref,  \* columns file_name, file_size (0 if unknown) and
                    \* telegram_file_id; references are numbered
  path,       \* column local_path: the library file of which name
  origin,     \* does the row know the chat and the message?
  part,       \* part[n]: <task>_n.tmp.temp, what pyrogram writes to, exists
  temp,       \* temp[n]: size of <task>_n.tmp, Absent if there is none
  library,    \* library[n]: size of <task>_n in the media library
  pc,         \* where the run is
  rname, rsize, rref,  \* its copies of file_name, file_size, file_id
  refreshed,  \* reference refreshed in this run (as the code counts it)
  why,        \* what the current download of the run is for
  tried,      \* history: the references this run has downloaded with
  issued,     \* references the message has given so far
  attempts,   \* runs so far
  lost        \* runs lost so far

rowVars == <<status, name, size, ref, path, origin>>
fileVars == <<part, temp, library>>
copyVars == <<rname, rsize, rref, refreshed, why, tried>>
countVars == <<attempts, lost>>
vars == <<rowVars, fileVars, pc, copyVars, issued, countVars>>

Statuses == {"waiting", "downloading", "completed", "failed", "deleted"}
Pcs == {"idle", "connect", "refresh", "fetch", "fetching", "fetched",
        "moved", "failing", "cleaned"}
Reasons == {"first", "expired", "empty"}

HasRow == status # "deleted"
-----------------------------------------------------------------------------
(* Files.  Path.unlink(missing_ok=True) of the temporary file and of the
   file pyrogram writes to. *)
Unlinked(n) ==
  /\ temp' = [temp EXCEPT ![n] = Absent]
  /\ part' = [part EXCEPT ![n] = FALSE]

UnlinkTemp_Keeps(n) == UNCHANGED <<temp, part>>
UnlinkTemp(n) == Unlinked(n)

Cleans_TempOnly(n) == Unlinked(n) /\ UNCHANGED library
Cleans(n) == Unlinked(n) /\ library' = [library EXCEPT ![n] = Absent]
-----------------------------------------------------------------------------
(* The run *)

Fails == pc' = "failing"

RunOver ==
  /\ pc' = "idle"
  /\ why' = "first" /\ refreshed' = FALSE /\ tried' = <<>>
  /\ UNCHANGED <<rname, rsize, rref>>

(* Load the row, set it DOWNLOADING, commit, copy the fields. *)
Start ==
  /\ pc = "idle" /\ status = "waiting"
  /\ attempts < MaxAttempts /\ attempts' = attempts + 1
  /\ status' = "downloading"
  /\ pc' = "connect"
  /\ rname' = name /\ rsize' = size /\ rref' = ref
  /\ UNCHANGED <<name, size, ref, path, origin, fileVars, refreshed, why, tried,
                 issued, lost>>

(* get_worker_client, then one refresh up front if the size is unknown. *)
Connect ==
  /\ pc = "connect"
  /\ pc' \in {"failing", IF rsize = 0 /\ origin THEN "refresh" ELSE "fetch"}
  /\ UNCHANGED <<rowVars, fileVars, copyVars, issued, countVars>>

(* _refresh_media_reference and the assignments that follow it in each of
   its three places: the row (if it is still there) and the run take the new
   reference, name and size, a size of 0 leaving the known one, and the paths
   follow the name.  Only the third place does not note that it refreshed. *)
Known_Adds(old, new) == old + new
Known(old, new) == IF new > 0 THEN new ELSE old

TakesName_KeepsPaths(n) == UNCHANGED rname
TakesName(n) == rname' = n

TakesReference_Forgets == UNCHANGED rref
TakesReference == rref' = issued + 1

Refresh(n, s) ==
  /\ pc = "refresh" /\ origin
  /\ pc' = "fetch"
  /\ issued' = issued + 1
  /\ TakesReference /\ TakesName(n) /\ rsize' = Known(rsize, s)
  /\ IF HasRow THEN ref' = issued + 1 /\ name' = n /\ size' = Known(size, s)
               ELSE UNCHANGED <<ref, name, size>>
  /\ refreshed' = (why # "empty")
  /\ UNCHANGED <<status, path, origin, fileVars, why, tried, countVars>>

(* The message is gone, out of reach, or without media. *)
RefreshRaises ==
  /\ pc = "refresh" /\ Fails
  /\ UNCHANGED <<rowVars, fileVars, copyVars, issued, countVars>>

(* download_tg_file: pyrogram opens the file it writes to ... *)
Fetch ==
  /\ pc = "fetch" /\ pc' = "fetching"
  /\ part' = [part EXCEPT ![rname] = TRUE]
  /\ tried' = Append(tried, rref)
  /\ UNCHANGED <<rowVars, temp, library, rname, rsize, rref, refreshed, why,
                 issued, countVars>>

(* ... and moves it to the temporary file of the task, however much came. *)
FetchEnds(s) ==
  /\ pc = "fetching" /\ pc' = "fetched"
  /\ part' = [part EXCEPT ![rname] = FALSE]
  /\ temp' = [temp EXCEPT ![rname] = s]
  /\ UNCHANGED <<rowVars, library, copyVars, issued, countVars>>

(* FILE_REFERENCE_EXPIRED: the first time, refresh and download once more. *)
FetchExpires ==
  /\ pc = "fetching" /\ why = "first"
  /\ pc' = "refresh" /\ why' = "expired"
  /\ UnlinkTemp(rname)
  /\ UNCHANGED <<rowVars, library, rname, rsize, rref, refreshed, tried,
                 issued, countVars>>

(* Any other exception, no file returned, or an expired reference again;
   pyrogram may or may not have removed what it was writing. *)
FetchRaises ==
  /\ pc = "fetching" /\ Fails
  /\ part' \in {part, [part EXCEPT ![rname] = FALSE]}
  /\ UNCHANGED <<rowVars, temp, library, copyVars, issued, countVars>>

(* An empty file is an expired reference that pyrogram swallowed: refresh
   and download once more, unless this run has already refreshed. *)
SwallowedExpiry_Again == temp[rname] = 0 /\ origin /\ why # "empty"
SwallowedExpiry == temp[rname] = 0 /\ ~refreshed /\ origin /\ why # "empty"

FetchedNothing ==
  /\ pc = "fetched" /\ SwallowedExpiry
  /\ pc' = "refresh" /\ why' = "empty"
  /\ UnlinkTemp(rname)
  /\ UNCHANGED <<rowVars, library, rname, rsize, rref, refreshed, tried,
                 issued, countVars>>

(* Move the temporary file to the library, then look at its size there. *)
SizeFits_Any(s) == s > 0
SizeFits(s) == s > 0 /\ (rsize > 0 => s = rsize)

Move ==
  /\ pc = "fetched" /\ ~SwallowedExpiry
  /\ IF temp[rname] # Absent
     THEN /\ library' = [library EXCEPT ![rname] = temp[rname]]
          /\ temp' = [temp EXCEPT ![rname] = Absent]
          /\ IF SizeFits(temp[rname]) THEN pc' = "moved" ELSE Fails
     ELSE Fails /\ UNCHANGED <<temp, library>>
  /\ UNCHANGED <<rowVars, part, copyVars, issued, countVars>>

(* UPDATE ... SET status = COMPLETED, local_path, file_size WHERE id = ...,
   which matches no row once the task is deleted.  The notice that follows
   is guarded. *)
Complete ==
  /\ pc = "moved"
  /\ RunOver
  /\ IF HasRow THEN /\ status' = "completed"
                    /\ path' = rname /\ size' = library[rname]
               ELSE UNCHANGED <<status, path, size>>
  /\ UNCHANGED <<name, ref, origin, fileVars, issued, countVars>>

CompleteRaises ==
  /\ pc = "moved" /\ Fails
  /\ UNCHANGED <<rowVars, fileVars, copyVars, issued, countVars>>

(* The except clause: _cleanup_task_files of the current names ... *)
Cleanup ==
  /\ pc = "failing" /\ pc' = "cleaned"
  /\ Cleans(rname)
  /\ UNCHANGED <<rowVars, copyVars, issued, countVars>>

(* ... and schedule_retry of the row, if there is one (which outcome, see
   MediaTasks). *)
GiveBack ==
  /\ pc = "cleaned"
  /\ RunOver
  /\ IF HasRow THEN status' \in {"waiting", "failed"} ELSE UNCHANGED status
  /\ UNCHANGED <<name, size, ref, path, origin, fileVars, issued, countVars>>

(* The process dies, the job times out, or an exception escapes the job. *)
Lose ==
  /\ pc # "idle"
  /\ lost < MaxLost /\ lost' = lost + 1
  /\ RunOver
  /\ UNCHANGED <<rowVars, fileVars, issued, attempts>>
-----------------------------------------------------------------------------
(* The rest of the system *)

(* recover_interrupted_tasks *)
Recover ==
  /\ status = "downloading" /\ pc = "idle"
  /\ status' = "waiting"
  /\ UNCHANGED <<name, size, ref, path, origin, fileVars, pc, copyVars, issued,
                 countVars>>

(* retry_task *)
Resubmit ==
  /\ status = "failed"
  /\ status' = "waiting"
  /\ UNCHANGED <<name, size, ref, path, origin, fileVars, pc, copyVars, issued,
                 countVars>>

(* The owner of the library takes the file away; revalidation finds out. *)
TakeAway ==
  /\ status = "completed" /\ pc = "idle"
  /\ status' = "waiting"
  /\ library' = [library EXCEPT ![path] = Absent]
  /\ UNCHANGED <<name, size, ref, path, origin, part, temp, pc, copyVars,
                 issued, countVars>>

(* delete_task, at any moment; files are left alone. *)
Delete ==
  /\ HasRow
  /\ status' = "deleted"
  /\ UNCHANGED <<name, size, ref, path, origin, fileVars, pc, copyVars, issued,
                 countVars>>
-----------------------------------------------------------------------------
Init ==
  /\ status = "waiting"
  /\ name \in Names /\ size \in {0, Whole} /\ ref = 0
  /\ path = NoPath
  /\ origin \in BOOLEAN
  /\ part = [n \in Names |-> FALSE]
  /\ temp = [n \in Names |-> Absent]
  /\ library = [n \in Names |-> Absent]
  /\ pc = "idle"
  /\ rname = name /\ rsize = 0 /\ rref = 0
  /\ refreshed = FALSE /\ why = "first" /\ tried = <<>>
  /\ issued = 0 /\ attempts = 0 /\ lost = 0

Run ==
  \/ Start \/ Connect \/ RefreshRaises \/ Fetch
  \/ \E n \in Names, s \in {0, Whole} : Refresh(n, s)
  \/ \E s \in Sizes : FetchEnds(s)
  \/ FetchExpires \/ FetchRaises \/ FetchedNothing
  \/ Move \/ Complete \/ CompleteRaises \/ Cleanup \/ GiveBack

Others == Lose \/ Recover \/ Resubmit \/ TakeAway \/ Delete

Next == Run \/ Others

Spec == Init /\ [][Next]_vars
-----------------------------------------------------------------------------
(* Properties *)

(* Type invariant. *)
TypeOK ==
  /\ status \in Statuses
  /\ name \in Names /\ size \in Sizes /\ ref \in Nat
  /\ path \in Names \cup {NoPath}
  /\ origin \in BOOLEAN
  /\ part \in [Names -> BOOLEAN]
  /\ temp \in [Names -> Sizes \cup {Absent}]
  /\ library \in [Names -> Sizes \cup {Absent}]
  /\ pc \in Pcs
  /\ rname \in Names /\ rsize \in Sizes /\ rref \in Nat
  /\ refreshed \in BOOLEAN /\ why \in Reasons
  /\ tried \in Seq(Nat)
  /\ issued \in Nat /\ attempts \in Nat /\ lost \in Nat

(* A completed task has its file where the row says it is, not empty, under
   the name the row shows although a refresh may have renamed the media in
   the middle of the run, and of the size the row shows. *)
CompletedHasItsFile ==
  status = "completed" => path = name /\ library[path] = size /\ size > 0

(* What a broken stream leaves is not taken for the media: a task whose size
   was known, from the start or by a refresh, completes with that size. *)
NeverShort ==
  [][(status # "completed" /\ status' = "completed" /\ size > 0)
       => size' = size]_vars

(* Files nobody owns: those of a name that neither the run under way nor the
   completed row has.  A deleted row leaves its finished files to the owner
   of the library. *)
Owned(n) ==
  \/ pc # "idle" /\ rname = n
  \/ part[n] = FALSE /\ temp[n] = Absent /\
       (library[n] = Absent \/ status = "deleted" \/ (status = "completed" /\ path = n))

Leftover == {n \in Names : ~Owned(n)}

(* Cleaning up looks at the names a run has last, and a refresh in the middle
   of a run changes them; still nothing is left behind but by a run whose
   process died, one name each. *)
LeftoversBound == Cardinality(Leftover) <= lost

(* A run downloads twice at most, and never twice with the same reference:
   an expired one is not asked again. *)
SecondChance ==
  /\ Len(tried) <= 2
  /\ \A i, j \in 1..Len(tried) : i # j => tried[i] # tried[j]
=============================================================================
