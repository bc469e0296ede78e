--------------------------- MODULE WorkerSession ---------------------------
(***************************************************************************)
(* The Telegram session that workers borrow.  The application logs in,     *)
(* exports the session string to Redis and counts the export in            *)
(* tg:session_gen; every other process connects with the string it finds   *)
(* there, caches its client and compares generations at the next call of   *)
(* get_worker_client.                                                      *)
(*                                                                         *)
(* A login is a number; the string of a login never changes, so a refresh  *)
(* exports it again.  rq forks a process per job: the client of a worker   *)
(* lasts for one job, the one of the application for its lifetime.         *)
(***************************************************************************)
EXTENDS Integers, FiniteSets

CONSTANTS
  Procs,         \* processes that call get_worker_client
  Coroutines,    \* calls in progress at once in one process
  MaxLogins,     \* bound: logins
  MaxGen,        \* bound: the loop refreshes up to this generation
  Disturbances   \* what may happen in this instance besides logins and refreshes

Calls == Procs \X Coroutines
Logins == 1..MaxLogins
None == 0      \* no string, no client, no listener
Missing == -1  \* what _get_session_gen returns without the key
Gens == 1..(MaxGen + MaxLogins) \cup {Missing}

ASSUME BoundsAssumption == MaxLogins \in Nat \ {0} /\ MaxGen \in Nat \ {0}
ASSUME DisturbancesAssumption ==
  \* "revoke": Telegram invalidates a login; "drop": a connection is lost
  Disturbances \subseteq {"revoke", "logout", "drop"}

VARIABLES
  string,    \* tg:session_string: the login it belongs to
  gen,       \* tg:session_gen
  logins,    \* logins so far
  listener,  \* the login the listener of the application runs on
  app,       \* the application: idle, exporting, or clearing the keys
  revoked,   \* logins Telegram has invalidated
  wclient,   \* wclient[p]: the login of _worker_client
  wgen,      \* wgen[p]: _worker_gen
  up,        \* up[p]: _worker_client.is_connected
  pc,        \* pc[c]: where a call is
  str,       \* str[c]: the string it read
  cgen,      \* cgen[c]: the generation it read
  got,       \* got[c]: the login of the client it returned
  during,    \* during[c]: history, the strings Redis has held since it began
  upset      \* history: the generation was deleted, or an export fell between
             \* the two reads of a call

redisVars == <<string, gen>>
appVars == <<logins, listener, app>>
clientVars == <<wclient, wgen, up>>
callVars == <<pc, str, cgen, got, during>>
vars == <<redisVars, appVars, revoked, clientVars, callVars, upset>>

Init ==
  /\ string = None /\ gen = Missing
  /\ logins = 0 /\ listener = None /\ app = "idle"
  /\ revoked = {}
  /\ wclient = [p \in Procs |-> None]
  /\ wgen = [p \in Procs |-> Missing]
  /\ up = [p \in Procs |-> FALSE]
  /\ pc = [c \in Calls |-> "idle"]
  /\ str = [c \in Calls |-> None]
  /\ cgen = [c \in Calls |-> Missing]
  /\ got = [c \in Calls |-> None]
  /\ during = [c \in Calls |-> {}]
  /\ upset = FALSE

-----------------------------------------------------------------------------
(* Redis *)

(* The pipeline of export_session_to_redis; INCR starts from 0. *)
Counted_FromMissing == gen + 1
Counted == IF gen = Missing THEN 1 ELSE gen + 1

BetweenReads(c) == pc[c] \in {"locking", "counting"}

ExportOf(s) ==
  /\ string' = s
  /\ gen' = Counted
  /\ during' = [c \in Calls |-> IF pc[c] = "idle" THEN {} ELSE during[c] \cup {s}]
  /\ upset' = (upset \/ \E c \in Calls : BetweenReads(c))

-----------------------------------------------------------------------------
(* get_worker_client *)

Cache(p, login, g, connected) ==
  /\ wclient' = [wclient EXCEPT ![p] = login]
  /\ wgen' = [wgen EXCEPT ![p] = g]
  /\ up' = [up EXCEPT ![p] = connected]
Uncache(p) == Cache(p, None, Missing, FALSE)

(* The call goes on at `step`; one that ends forgets what it read. *)
Goes(c, step) == pc' = [pc EXCEPT ![c] = step]
Ends(c, login) ==
  /\ Goes(c, IF login = None THEN "idle" ELSE "using")
  /\ got' = [got EXCEPT ![c] = login]
  /\ str' = [str EXCEPT ![c] = None]
  /\ cgen' = [cgen EXCEPT ![c] = Missing]

(* The steps under `async with _lock`. *)
Locked == {"creating", "pinging", "refetching", "counting", "reconnecting",
           "clearing", "clearing_gen"}
LockFree(p) == \A i \in Coroutines : pc[<<p, i>>] \notin Locked

Call(c) ==
  /\ pc[c] = "idle"
  /\ Goes(c, "reading")
  /\ during' = [during EXCEPT ![c] = {string}]
  /\ UNCHANGED <<redisVars, appVars, revoked, clientVars, str, cgen, got, upset>>

(* _wait_for_session_string: the string once it is there, ... *)
ReadString(c) ==
  /\ pc[c] = "reading" /\ string # None
  /\ str' = [str EXCEPT ![c] = string]
  /\ Goes(c, "locking")
  /\ UNCHANGED <<redisVars, appVars, revoked, clientVars, cgen, got, during, upset>>

(* ... and nothing after a minute without one. *)
NoString(c) ==
  /\ pc[c] = "reading" /\ string = None
  /\ Ends(c, None)
  /\ UNCHANGED <<redisVars, appVars, revoked, clientVars, during, upset>>

(* A cached client of another generation is discarded. *)
Discarded_Never(p) == FALSE
Discarded(p) == wclient[p] # None /\ wgen[p] # gen

Enter(c, p) ==
  /\ pc[c] = "locking" /\ LockFree(p)
  /\ cgen' = [cgen EXCEPT ![c] = gen]
  /\ Goes(c, IF wclient[p] = None \/ Discarded(p) THEN "creating"
             ELSE IF up[p] THEN "pinging" ELSE "refetching")
  /\ IF Discarded(p) THEN Uncache(p) ELSE UNCHANGED clientVars
  /\ UNCHANGED <<redisVars, appVars, revoked, str, got, during, upset>>

(* Client(...).start() on the string read before the lock; a start that
   raises leaves an unconnected client behind, without a generation. *)
Create(c, p) ==
  /\ pc[c] = "creating"
  /\ \/ /\ str[c] \notin revoked
        /\ Cache(p, str[c], cgen[c], TRUE)
        /\ Ends(c, str[c])
     \/ /\ str[c] \in revoked \/ "drop" \in Disturbances
        /\ Cache(p, str[c], Missing, FALSE)
        /\ Ends(c, None)
  /\ UNCHANGED <<redisVars, appVars, revoked, during, upset>>

Answers_Always(p) == up[p]
Answers(p) == up[p] /\ wclient[p] \notin revoked

Ping(c, p) ==
  /\ pc[c] = "pinging"
  /\ \/ /\ Answers(p)
        /\ Ends(c, wclient[p])
     \/ /\ ~Answers(p) \/ "drop" \in Disturbances
        /\ Goes(c, "refetching")
        /\ UNCHANGED <<str, cgen, got>>
  /\ UNCHANGED <<redisVars, appVars, revoked, clientVars, during, upset>>

(* A reconnection reads the string and then the generation again. *)
Refetch(c, p) ==
  /\ pc[c] = "refetching"
  /\ IF string = None
     THEN Uncache(p) /\ Ends(c, None)
     ELSE /\ str' = [str EXCEPT ![c] = string]
          /\ Goes(c, "counting")
          /\ UNCHANGED <<clientVars, cgen, got>>
  /\ UNCHANGED <<redisVars, appVars, revoked, during, upset>>

Count(c) ==
  /\ pc[c] = "counting"
  /\ cgen' = [cgen EXCEPT ![c] = gen]
  /\ Goes(c, "reconnecting")
  /\ UNCHANGED <<redisVars, appVars, revoked, clientVars, str, got, during, upset>>

(* An auth key error makes the worker clear both keys. *)
Reconnect(c, p) ==
  /\ pc[c] = "reconnecting"
  /\ \/ /\ str[c] \notin revoked
        /\ Cache(p, str[c], cgen[c], TRUE)
        /\ Ends(c, str[c])
     \/ /\ str[c] \in revoked
        /\ Goes(c, "clearing")
        /\ UNCHANGED <<clientVars, str, cgen, got>>
     \/ /\ "drop" \in Disturbances
        /\ Uncache(p) /\ Ends(c, None)
  /\ UNCHANGED <<redisVars, appVars, revoked, during, upset>>

(* _clear_worker_session_keys: whatever the keys hold by now. *)
ClearString(c) ==
  /\ pc[c] = "clearing"
  /\ string' = None
  /\ Goes(c, "clearing_gen")
  /\ UNCHANGED <<gen, appVars, revoked, clientVars, str, cgen, got, during, upset>>

ClearGen(c, p) ==
  /\ pc[c] = "clearing_gen"
  /\ gen' = Missing /\ upset' = TRUE
  /\ Uncache(p) /\ Ends(c, None)
  /\ UNCHANGED <<string, appVars, revoked, during>>

(* The caller is done with the client. *)
Done(c) ==
  /\ pc[c] = "using"
  /\ Goes(c, "idle")
  /\ got' = [got EXCEPT ![c] = None]
  /\ UNCHANGED <<redisVars, appVars, revoked, clientVars, str, cgen, during, upset>>

(* A process ends whatever it is doing: rq forks one per job, and containers
   restart.  (Not between the two deletions of ClearString and ClearGen: that
   would only leave the counter higher than it has to be.) *)
Exit(p) ==
  /\ wclient[p] # None
  /\ \A i \in Coroutines : pc[<<p, i>>] # "clearing_gen"
  /\ Uncache(p)
  /\ pc' = [c \in Calls |-> IF c[1] = p THEN "idle" ELSE pc[c]]
  /\ str' = [c \in Calls |-> IF c[1] = p THEN None ELSE str[c]]
  /\ cgen' = [c \in Calls |-> IF c[1] = p THEN Missing ELSE cgen[c]]
  /\ got' = [c \in Calls |-> IF c[1] = p THEN None ELSE got[c]]
  /\ UNCHANGED <<redisVars, appVars, revoked, during, upset>>

-----------------------------------------------------------------------------
(* The application: login, listener, logout *)

(* sign_in: the new login replaces the listener's. *)
SignIn ==
  /\ app = "idle" /\ logins < MaxLogins
  /\ logins' = logins + 1
  /\ listener' = logins + 1
  /\ app' = "exporting"
  /\ UNCHANGED <<redisVars, revoked, clientVars, callVars, upset>>

(* The export that follows the start of the listener. *)
Export ==
  /\ app = "exporting"
  /\ ExportOf(listener)
  /\ app' = "idle"
  /\ UNCHANGED <<logins, listener, revoked, clientVars, pc, str, cgen, got>>

(* _session_refresh_loop *)
MayRefresh_OnlyPresent == app = "idle" /\ listener # None /\ string # None
MayRefresh == app = "idle" /\ listener # None

Refresh ==
  /\ MayRefresh /\ gen < MaxGen
  /\ ExportOf(listener)
  /\ UNCHANGED <<appVars, revoked, clientVars, pc, str, cgen, got>>

(* logout, and the status request that finds the login invalid: the listener
   stops, then the two keys go. *)
Logout ==
  /\ app = "idle"
  /\ "logout" \in Disturbances \/ listener \in revoked
  /\ listener' = None
  /\ app' = "clearing"
  /\ UNCHANGED <<redisVars, logins, revoked, clientVars, callVars, upset>>

DropString ==
  /\ app = "clearing"
  /\ string' = None
  /\ app' = "clearing_gen"
  /\ UNCHANGED <<gen, logins, listener, revoked, clientVars, callVars, upset>>

DropGen ==
  /\ app = "clearing_gen"
  /\ gen' = Missing /\ upset' = TRUE
  /\ app' = "idle"
  /\ UNCHANGED <<string, logins, listener, revoked, clientVars, callVars>>

-----------------------------------------------------------------------------
(* Telegram and the network *)

Revoke(k) ==
  /\ "revoke" \in Disturbances
  /\ k <= logins /\ k \notin revoked
  /\ revoked' = revoked \cup {k}
  /\ UNCHANGED <<redisVars, appVars, clientVars, callVars, upset>>

Drop(p) ==
  /\ "drop" \in Disturbances /\ up[p]
  /\ up' = [up EXCEPT ![p] = FALSE]
  /\ UNCHANGED <<redisVars, appVars, revoked, wclient, wgen, callVars, upset>>

-----------------------------------------------------------------------------
Step(c, p) ==
  \/ ReadString(c) \/ NoString(c) \/ Enter(c, p) \/ Create(c, p) \/ Ping(c, p)
  \/ Refetch(c, p) \/ Count(c) \/ Reconnect(c, p) \/ ClearString(c) \/ ClearGen(c, p)
  \/ Done(c)

Clearing == DropString \/ DropGen

Next ==
  \/ \E c \in Calls : Call(c) \/ Step(c, c[1])
  \/ \E p \in Procs : Exit(p) \/ Drop(p)
  \/ SignIn \/ Export \/ Refresh \/ Logout \/ Clearing
  \/ \E k \in Logins : Revoke(k)

Spec == Init /\ [][Next]_vars

(* The start of a client has no timeout: while Telegram cannot be reached it
   holds the lock. *)
MayHang(c) == pc[c] \in {"creating", "reconnecting"}

(* Other waits time out or go on, an export that was begun happens, and the
   refresh loop comes round every four hours.  Nothing obliges anybody to call,
   to log in or to log out. *)
Fairness ==
  /\ \A c \in Calls : WF_vars(~MayHang(c) /\ Step(c, c[1]))
  /\ WF_vars(Export) /\ WF_vars(Refresh) /\ WF_vars(Clearing)

FairSpec == Spec /\ Fairness

-----------------------------------------------------------------------------
(* Properties *)

(* Type invariant. *)
TypeOK ==
  /\ string \in Logins \cup {None}
  /\ gen \in Gens
  /\ logins \in 0..MaxLogins /\ listener \in 0..logins
  /\ app \in {"idle", "exporting", "clearing", "clearing_gen"}
  /\ revoked \subseteq Logins
  /\ wclient \in [Procs -> Logins \cup {None}]
  /\ wgen \in [Procs -> Gens]
  /\ up \in [Procs -> BOOLEAN]
  /\ pc \in [Calls -> Locked \cup {"idle", "reading", "locking", "using"}]
  /\ str \in [Calls -> Logins \cup {None}]
  /\ cgen \in [Calls -> Gens]
  /\ got \in [Calls -> Logins \cup {None}]
  /\ during \in [Calls -> SUBSET (Logins \cup {None})]
  /\ upset \in BOOLEAN

Current(c) == pc[c] = "using" => got[c] \in during[c]

(* tg_client.py:294-296 "worker processes detect the change and discard their
   stale cached clients on the next get_worker_client() call": a call returns a
   client of a string that Redis held at some time during the call, unless the
   generation has been deleted before (it then starts again at values workers
   still hold) or an export has fallen between the reads of string and
   generation. *)
FreshClient == ~upset => \A c \in Calls : Current(c)

(* A worker that holds an old login, or the string of one, gets to the login of
   the listener in the end: once every other login is revoked and the
   listener's stays valid, only its clients are returned. *)
CatchesUp ==
  \A k \in Logins :
    <>[](listener = k /\ k \notin revoked /\ 1..logins \ {k} \subseteq revoked)
      => <>[](\A c \in Calls : pc[c] = "using" => got[c] = k)

(* A login is not lost to a worker that clears the keys because of an older
   one: while the listener runs on a login, its string is there again and
   again. *)
LoginSurvives ==
  \A k \in Logins : <>[](listener = k) => []<>(string = k)
=============================================================================
