----------------------------- MODULE LoginFlow -----------------------------
(***************************************************************************)
(* Logging in to Telegram through the web interface: the requests of       *)
(* app/api/auth.py, the listener they restart, the session files, and the  *)
(* session string the workers read.  All of it runs in one event loop, so  *)
(* a step is what happens between two awaits.                              *)
(*                                                                         *)
(* A login attempt is a number: the send-code that began it.  Its client   *)
(* owns a session file, which holds a login once the attempt is in         *)
(* `signed`, wherever the file has been moved by then.                     *)
(***************************************************************************)
EXTENDS Integers, FiniteSets

CONSTANTS
  Requests,     \* requests to the web interface that may be in progress at once
  Boot,         \* the start of the application, which is no request
  MaxCodes,     \* bound: login attempts
  MaxClients,   \* bound: client objects of the listener that exist at once
  MaxRetries,   \* max_retries of TelegramListener.start
  Events,       \* what else may happen in this instance
  MaxEvents     \* bound: how many of these happen

Attempts == 1..MaxCodes
Clients == 1..MaxClients
None == 0     \* no file, no string, no client
Blank == -1   \* a session file that holds no login: opening a missing file creates it
Procs == Requests \cup {Boot}

ASSUME RequestsAssumption == IsFiniteSet(Requests) /\ Boot \notin Requests
ASSUME BoundsAssumption ==
  MaxCodes \in Nat \ {0} /\ MaxClients \in Nat \ {0} /\ MaxRetries \in Nat
ASSUME EventsAssumption ==
  \* "config": the configuration is saved; "restart": the application restarts;
  \* "revoke": Telegram invalidates a login; "duplicate": AUTH_KEY_DUPLICATED;
  \* "network": a call fails; "timeout": a wait_for expires; "worker": a worker
  \* clears the keys
  Events \subseteq {"logout", "config", "restart", "revoke", "duplicate", "network",
                   "timeout", "worker"}

VARIABLES
  main,      \* {name}.session: the attempt whose file it is
  auth,      \* {name}_auth.session: likewise
  signed,    \* attempts that have signed in
  passed,    \* attempts whose code was accepted and that owe the password
  revoked,   \* logins Telegram has invalidated
  codes,     \* attempts so far
  state,     \* _state: client, needs_2fa, logged_in
  live,      \* attempts whose auth client is connected
  listener,  \* tg_listener: the current client, the refresh loops, its handle on one
  link,      \* link[k]: client k is off, connected ("half") or initialised ("on")
  uses,      \* uses[k]: the session client k opened
  string,    \* tg:session_string
  req,       \* req[r]: where request r is, and what it holds
  count,     \* how many of Events have happened; a duplicate key during a start is not counted
  crossed,   \* history: a send-code overlapped a sign-in or another send-code
  raced,     \* history: the listener was started or stopped during a start
  left,      \* history: a start failed and left its client connected
  gone       \* history: a logout ran alone, and nobody has signed in since, nor has
             \* the application restarted with a client left

files == <<main, auth>>
telegram == <<signed, passed, revoked, codes>>
login == <<state, live>>
clients == <<listener, link, uses>>
history == <<crossed, raced, left, gone>>
vars == <<files, telegram, login, clients, string, req, count, history>>

Idle == [op |-> "none", pc |-> "idle", at |-> None, saw |-> None, tries |-> 0,
         alone |-> FALSE]
Fresh == [client |-> None, needs_2fa |-> FALSE, logged_in |-> FALSE]
Stopped == [cur |-> None, loops |-> 0, ref |-> FALSE]

Init ==
  /\ main = None /\ auth = None /\ string = None
  /\ signed = {} /\ passed = {} /\ revoked = {} /\ codes = 0
  /\ state = Fresh /\ live = {}
  /\ listener = Stopped
  /\ link = [k \in Clients |-> "off"]
  /\ uses = [k \in Clients |-> None]
  /\ req = [r \in Procs |-> Idle]
  /\ count = 0
  /\ crossed = FALSE /\ raced = FALSE /\ left = FALSE /\ gone = FALSE

-----------------------------------------------------------------------------
(* Requests *)

Becomes(r, q) == req' = [req EXCEPT ![r] = q]
Goes(r, step) == Becomes(r, [req[r] EXCEPT !.pc = step])
Waits(r, step, on) == Becomes(r, [req[r] EXCEPT !.pc = step, !.at = on])
Ends(r) == Becomes(r, Idle)
(* A request begins.  `alone` is history: a logout has had the application to
   itself so far. *)
Begins(r, op, step, on) ==
  LET alone == op = "logout" /\ \A q \in Procs \ {r} : req[q].pc = "idle"
      saw == IF op = "status" THEN main ELSE None
  IN req' = [q \in Procs |->
       IF q = r THEN [op |-> op, pc |-> step, at |-> on, saw |-> saw, tries |-> 0,
                      alone |-> alone]
                ELSE [req[q] EXCEPT !.alone = FALSE]]
At(r, op, step) == req[r].pc = step /\ req[r].op \in op

(* The web interface answers once lifespan has started the listener. *)
Accepts(r) == r \in Requests /\ req[r].pc = "idle" /\ req[Boot].pc = "idle"
Happens(e) == e \in Events /\ count < MaxEvents /\ count' = count + 1

SignsIn == {"code", "password"}
StartSteps == {"connecting", "half", "backoff", "naming"}
Starting(q) == req[q].pc \in StartSteps

Valid(s) == s \in signed \ revoked
Opened(file) == IF file = None THEN Blank ELSE file
Running == listener.cur # None /\ link[listener.cur] # "off"

-----------------------------------------------------------------------------
(* TelegramListener *)

HoldsClient(q) == Starting(q) \/ req[q].pc \in {"stopping", "asking"}
Unused(k) ==
  /\ link[k] = "off" /\ k # listener.cur
  /\ \A q \in Procs : HoldsClient(q) => req[q].at # k
Collected == [k \in Clients |-> IF Unused(k) THEN None ELSE uses[k]]

(* start: a new client replaces the current one, and its own start opens
   `file`, the main session file as it is by then. *)
Launch(r, k, file) ==
  /\ k = CHOOSE j \in Clients : Unused(j)
  /\ listener' = [listener EXCEPT !.cur = k]
  /\ uses' = [Collected EXCEPT ![k] = Opened(file)]
  /\ main' = Opened(file)
  /\ raced' = (raced \/ \E q \in Procs \ {r} : Starting(q))
Relaunch(r, file) ==
  \E k \in Clients : Unused(k) /\ Launch(r, k, file) /\ Waits(r, "connecting", k)

(* stop: the refresh loop it knows is cancelled, then the client is stopped. *)
CancelsLoop_Forgets(l) == [l EXCEPT !.ref = FALSE]
CancelsLoop(l) == [l EXCEPT !.ref = FALSE, !.loops = IF l.ref THEN @ - 1 ELSE @]
BeginsStop(r) ==
  /\ listener' = CancelsLoop(listener)
  /\ raced' = (raced \/ \E q \in Procs \ {r} : Starting(q))
  /\ UNCHANGED <<link, uses>>

(* Client.stop refuses a client that is not initialised. *)
Stops(k) == link[k] = "on" /\ link' = [link EXCEPT ![k] = "off"]
RefusesStop(k) == link[k] # "on" /\ UNCHANGED link

(* A start that fails with an exception: sign-in goes on to export the session
   through a client of its own, everybody else gives up. *)
StartFails(r, file) ==
  IF req[r].op \in SignsIn
  THEN main' = Opened(file) /\ Waits(r, "fallback", Opened(file))
  ELSE main' = file /\ Ends(r)

Leaves(k) == left' = (left \/ link'[k] # "off")

(* client.start(): the connection, then the authorisation. *)
Connects(r) ==
  /\ req[r].pc = "connecting"
  /\ link' = [link EXCEPT ![req[r].at] = IF @ = "off" THEN "half" ELSE @]
  /\ Goes(r, "half")
  /\ UNCHANGED <<files, telegram, login, listener, uses, string, count, history>>

Authorises(r) ==
  LET k == req[r].at
  IN /\ req[r].pc = "half" /\ link[k] # "off" /\ Valid(uses[k])
     /\ link' = [link EXCEPT ![k] = "on"]
     /\ IF link'[listener.cur] # "off"
        THEN Waits(r, "naming", listener.cur) /\ UNCHANGED <<main, left>>
        ELSE StartFails(r, main) /\ Leaves(k)
     /\ UNCHANGED <<auth, telegram, login, listener, uses, string, count,
                    crossed, raced, gone>>

(* Telegram still holds an earlier connection: wait and try again. *)
MayRetry_Always(r) == TRUE
MayRetry(r) == req[r].tries < MaxRetries

Duplicate(r) ==
  /\ "duplicate" \in Events /\ req[r].pc \in {"connecting", "half"}
  /\ MayRetry(r)
  /\ link' = [link EXCEPT ![req[r].at] = "off"]
  /\ Becomes(r, [req[r] EXCEPT !.pc = "backoff",
                               !.tries = IF @ < MaxRetries THEN @ + 1 ELSE @])
  /\ UNCHANGED <<files, telegram, login, listener, uses, string, count, history>>

(* The next attempt starts the client that is current by then. *)
Retries(r) ==
  LET k == listener.cur
  IN /\ req[r].pc = "backoff"
     /\ IF link[k] = "off"
        THEN /\ main' = Opened(main)
             /\ uses' = [uses EXCEPT ![k] = Opened(main)]
             /\ Waits(r, "connecting", k)
        ELSE StartFails(r, main) /\ UNCHANGED uses
     /\ UNCHANGED <<auth, telegram, login, listener, link, string, count, history>>

(* An error that names the key (AUTH_KEY_UNREGISTERED, or the last
   AUTH_KEY_DUPLICATED) takes the session with it (_clear_session). *)
IsAuthKeyError(r) ==
  \/ uses[req[r].at] \in revoked
  \/ "duplicate" \in Events /\ ~MayRetry(r)

AuthFails(r) ==
  /\ req[r].pc \in {"connecting", "half"} /\ IsAuthKeyError(r)
  /\ link' = [link EXCEPT ![req[r].at] = "off"]
  /\ string' = None
  /\ StartFails(r, None)
  /\ UNCHANGED <<auth, telegram, login, listener, uses, count, history>>

(* Any other exception, which SESSION_REVOKED counts as; a file without a login
   makes the client ask for a phone number, which nobody can type. *)
OtherError(r) ==
  LET k == req[r].at
  IN /\ \/ Starting(r) /\ req[r].pc # "backoff" /\ Happens("network")
        \/ req[r].pc = "half" /\ ~Valid(uses[k]) /\ UNCHANGED count
        \/ req[r].pc \in {"half", "naming"} /\ link[k] = "off" /\ UNCHANGED count
     /\ link' = IF req[r].pc = "naming" THEN link ELSE [link EXCEPT ![k] = "off"]
     /\ StartFails(r, main) /\ Leaves(k)
     /\ UNCHANGED <<auth, telegram, login, listener, uses, string, crossed, raced, gone>>

(* wait_for cancels the start; the client is not disconnected by that. *)
TimesOut(r) ==
  /\ Happens("timeout") /\ Starting(r) /\ req[r].op # "config"
  /\ StartFails(r, main)
  /\ left' = (left \/ link[req[r].at] # "off")
  /\ UNCHANGED <<auth, telegram, login, clients, string, crossed, raced, gone>>

(* sign_in and sign_in_2fa end alike, whether or not anything was exported. *)
FinishLogin(r) ==
  /\ state' = [client |-> None, logged_in |-> TRUE,
               needs_2fa |-> state.needs_2fa /\ req[r].op = "code"]
  /\ Ends(r)

Exported_Unchecked(s) == s
Exported(s) == IF s \in signed THEN s ELSE string

(* get_me, the export, a refresh loop of its own. *)
StartsLoop_None(l) == l
StartsLoop(l) == [l EXCEPT !.loops = @ + 1, !.ref = TRUE]
Started(r) ==
  /\ req[r].pc = "naming" /\ link[req[r].at] # "off"
  /\ string' = Exported(uses[listener.cur])
  /\ listener' = StartsLoop(listener)
  /\ IF req[r].op \in SignsIn THEN FinishLogin(r) ELSE Ends(r) /\ UNCHANGED state
  /\ UNCHANGED <<files, telegram, live, link, uses, count, history>>

(* _session_refresh_loop *)
Refresh ==
  /\ listener.loops > 0 /\ Running
  /\ string' = Exported(uses[listener.cur])
  /\ UNCHANGED <<files, telegram, login, clients, req, count, history>>

(* The client that exports the session when the listener did not start. *)
Fallback(r) ==
  /\ req[r].pc = "fallback"
  /\ \/ Valid(req[r].at) /\ string' = req[r].at
     \/ UNCHANGED string
  /\ FinishLogin(r)
  /\ UNCHANGED <<files, telegram, live, clients, count, history>>

-----------------------------------------------------------------------------
(* /send-code *)

Disconnected_Never(c) == live
Disconnected(c) == live \ {c}

SendCode(r) ==
  /\ Accepts(r)
  /\ codes + Cardinality({q \in Requests : req[q].pc = "clearing"}) < MaxCodes
  /\ live' = Disconnected(state.client)
  /\ Begins(r, "send", "clearing", None)
  /\ crossed' = (crossed \/ \E q \in Requests : req[q].op \in SignsIn \cup {"send"})
  /\ UNCHANGED <<files, telegram, state, clients, string, count, raced, left, gone>>

(* The file of the last attempt goes, the new client creates its own. *)
OpensAuth(r) ==
  /\ req[r].pc = "clearing"
  /\ codes' = codes + 1
  /\ auth' = codes + 1
  /\ Waits(r, "sending", codes + 1)
  /\ UNCHANGED <<main, signed, passed, revoked, login, clients, string, count, history>>

CodeSent(r) ==
  /\ req[r].pc = "sending"
  /\ state' = [Fresh EXCEPT !.client = req[r].at]
  /\ live' = live \cup {req[r].at}
  /\ Ends(r)
  /\ UNCHANGED <<files, telegram, clients, string, count, history>>

CodeNotSent(r) ==
  /\ req[r].pc = "sending"
  /\ Ends(r)
  /\ UNCHANGED <<files, telegram, login, clients, string, count, history>>

-----------------------------------------------------------------------------
(* /sign-in and /sign-in-2fa *)

MayCheckPassword == state.client # None /\ state.needs_2fa

SignIn(r) ==
  /\ Accepts(r)
  /\ \/ state.client # None /\ Begins(r, "code", "asked", state.client)
     \/ MayCheckPassword /\ Begins(r, "password", "asked", state.client)
  /\ crossed' = (crossed \/ \E q \in Requests : req[q].op = "send")
  /\ UNCHANGED <<files, telegram, login, clients, string, count, raced, left, gone>>

(* What Telegram lets through: a code for a connected client that owes none, a
   password after a code. *)
Accepted(r, a) == a \in live \ signed /\ (req[r].op = "password" => a \in passed)

(* From here on the code speaks to the client _state holds by then. *)
SignedIn(r) ==
  LET a == req[r].at
  IN /\ req[r].pc = "asked" /\ Accepted(r, a)
     /\ signed' = signed \cup {a} /\ gone' = FALSE
     /\ IF state.client = None THEN Ends(r)
        ELSE Becomes(r, [req[r] EXCEPT !.pc = "greeting", !.at = state.client, !.saw = a])
     /\ UNCHANGED <<files, passed, revoked, codes, login, clients, string, count,
                    crossed, raced, left>>

NeedsPassword(r) ==
  LET a == req[r].at
  IN /\ At(r, {"code"}, "asked") /\ Accepted(r, a)
     /\ passed' = passed \cup {a}
     /\ state' = [state EXCEPT !.needs_2fa = TRUE]
     /\ Ends(r)
     /\ UNCHANGED <<files, signed, revoked, codes, live, clients, string, count, history>>

SignInFails(r) ==
  /\ req[r].pc \in {"asked", "greeting", "leaving"}
  /\ Ends(r)
  /\ UNCHANGED <<files, telegram, login, clients, string, count, history>>

Greeted(r) ==
  /\ req[r].pc = "greeting" /\ req[r].at \in live \cap signed
  /\ state.client \in live
  /\ live' = Disconnected(state.client)
  /\ Waits(r, "leaving", state.client)
  /\ UNCHANGED <<files, telegram, state, clients, string, count, history>>

(* _promote_auth_session, and the restart of the listener. *)
Promote(r) ==
  /\ req[r].pc = "leaving" /\ auth # None
  /\ auth' = None
  /\ IF Running
     THEN main' = auth /\ BeginsStop(r) /\ Waits(r, "stopping", listener.cur)
     ELSE Relaunch(r, auth) /\ UNCHANGED link
  /\ UNCHANGED <<telegram, login, string, count, crossed, left, gone>>

Restarts(r) ==
  LET k == req[r].at
  IN /\ At(r, SignsIn, "stopping")
     /\ \/ Stops(k) /\ Relaunch(r, main)
        \/ RefusesStop(k) /\ StartFails(r, main) /\ UNCHANGED <<listener, uses, raced>>
     /\ UNCHANGED <<auth, telegram, login, string, count, crossed, left, gone>>

-----------------------------------------------------------------------------
(* /logout *)

ClearsFiles_MainOnly == main' = None /\ UNCHANGED auth
ClearsFiles == main' = None /\ auth' = None

(* What logout does once the listener is stopped: the auth client is
   disconnected, then everything goes. *)
Logout(r) ==
  /\ Accepts(r) /\ Happens("logout")
  /\ IF Running
     THEN BeginsStop(r) /\ Begins(r, "logout", "stopping", listener.cur) /\ UNCHANGED live
     ELSE /\ Begins(r, "logout", "parting", None)
          /\ live' = Disconnected(state.client)
          /\ UNCHANGED <<clients, raced>>
  /\ UNCHANGED <<files, telegram, state, string, crossed, left, gone>>

ListenerStopped(r) ==
  LET k == req[r].at
  IN /\ At(r, {"logout"}, "stopping")
     /\ Stops(k) \/ RefusesStop(k)
     /\ live' = Disconnected(state.client)
     /\ Waits(r, "parting", None)
     /\ UNCHANGED <<files, telegram, state, listener, uses, string, count, history>>

Parted(r) ==
  /\ req[r].pc = "parting"
  /\ ClearsFiles /\ string' = None
  /\ state' = Fresh
  /\ Ends(r)
  /\ gone' = req[r].alone
  /\ UNCHANGED <<telegram, live, clients, count, crossed, raced, left>>

-----------------------------------------------------------------------------
(* /status *)

Says(logged_in) == state' = [state EXCEPT !.logged_in = logged_in]

(* A one-shot client on the main session. *)
MayProbe(saw) == saw # None /\ ~state.logged_in

Status(r) ==
  /\ Accepts(r)
  /\ IF Running
     THEN Begins(r, "status", "asking", listener.cur)
     ELSE MayProbe(main) /\ Begins(r, "status", "probing", main)
  /\ UNCHANGED <<files, telegram, login, clients, string, count, history>>

ListenerAnswers(r) ==
  /\ req[r].pc = "asking" /\ link[req[r].at] # "off" /\ Valid(uses[req[r].at])
  /\ Says(TRUE) /\ Ends(r)
  /\ UNCHANGED <<files, telegram, live, clients, string, count, history>>

(* The test of auth.py knows "auth key", AUTH_KEY_DUPLICATED and error 404; a
   login that was revoked may fail with one of them or with another error. *)
ListenerInvalid(r) ==
  /\ req[r].pc = "asking"
  /\ \/ uses[req[r].at] \in revoked /\ UNCHANGED count
     \/ Happens("duplicate")
  /\ BeginsStop(r) /\ Waits(r, "stopping", listener.cur)
  /\ UNCHANGED <<files, telegram, login, string, crossed, left, gone>>

(* get_me failed otherwise (AUTH_KEY_UNREGISTERED and SESSION_REVOKED too): a
   probe answers, if there was a file when the request began. *)
ListenerSilent(r) ==
  /\ req[r].pc = "asking"
  /\ \/ /\ link[req[r].at] = "off" \/ ~Valid(uses[req[r].at])
        /\ UNCHANGED count
     \/ Happens("network")
  /\ IF MayProbe(req[r].saw)
     THEN main' = Opened(main) /\ Waits(r, "probing", Opened(main))
     ELSE Ends(r) /\ UNCHANGED main
  /\ UNCHANGED <<auth, telegram, login, clients, string, history>>

ListenerDropped(r) ==
  /\ At(r, {"status"}, "stopping")
  /\ Stops(req[r].at) \/ RefusesStop(req[r].at)
  /\ ClearsFiles /\ string' = None
  /\ Says(FALSE) /\ Ends(r)
  /\ UNCHANGED <<telegram, live, listener, uses, count, history>>

(* What the probe found; its verdict falls on the file that is there by now. *)
Probed(r) ==
  LET s == req[r].at
  IN /\ req[r].pc = "probing"
     /\ \/ Valid(s) /\ Says(TRUE) /\ UNCHANGED <<main, string, count>>
        \/ Happens("timeout") /\ Says(FALSE) /\ main' = None /\ UNCHANGED string
        \/ /\ \/ s \in revoked /\ UNCHANGED count
              \/ Happens("duplicate")
           /\ Says(FALSE) /\ main' = None /\ string' = None
        \/ /\ \/ ~Valid(s) /\ UNCHANGED count
              \/ Happens("network")
           /\ Says(FALSE) /\ UNCHANGED <<main, string>>
     /\ Ends(r)
     /\ UNCHANGED <<auth, telegram, live, clients, history>>

-----------------------------------------------------------------------------
(* The configuration, the application, and everybody else *)

(* save_config starts the listener if it does not run and there is a session. *)
SaveConfig(r) ==
  /\ Accepts(r) /\ ~Running /\ main # None /\ Happens("config")
  /\ \E k \in Clients :
       Unused(k) /\ Launch(r, k, main) /\ Begins(r, "config", "connecting", k)
  /\ UNCHANGED <<auth, telegram, login, link, string, crossed, left, gone>>

(* The application restarts: only files and Redis remain.  lifespan starts the
   listener if there is a session. *)
Restart ==
  /\ Happens("restart")
  /\ state' = Fresh /\ live' = {}
  /\ link' = [k \in Clients |-> "off"]
  /\ LET starts == main # None
     IN /\ listener' = [Stopped EXCEPT !.cur = IF starts THEN 1 ELSE None]
        /\ uses' = [k \in Clients |-> IF starts /\ k = 1 THEN main ELSE None]
        /\ req' = [q \in Procs |->
             IF q = Boot /\ starts
             THEN [op |-> "boot", pc |-> "connecting", at |-> 1, saw |-> None,
                   tries |-> 0, alone |-> FALSE]
             ELSE Idle]
  /\ crossed' = FALSE /\ raced' = FALSE /\ left' = FALSE
  /\ gone' = (gone /\ ~left)
  /\ UNCHANGED <<files, telegram, string>>

(* Telegram invalidates a login. *)
Revoke(a) ==
  /\ Happens("revoke") /\ a \in signed \ revoked
  /\ revoked' = revoked \cup {a}
  /\ UNCHANGED <<files, signed, passed, codes, login, clients, string, req, history>>

(* _clear_worker_session_keys in a worker. *)
WorkerClears ==
  /\ Happens("worker") /\ string # None
  /\ string' = None
  /\ UNCHANGED <<files, telegram, login, clients, req, history>>

-----------------------------------------------------------------------------
StartStep(r) ==
  \/ Connects(r) \/ Authorises(r) \/ Duplicate(r) \/ Retries(r) \/ AuthFails(r)
  \/ OtherError(r) \/ TimesOut(r) \/ Started(r)

Step(r) ==
  \/ StartStep(r) \/ Fallback(r)
  \/ OpensAuth(r) \/ CodeSent(r) \/ CodeNotSent(r)
  \/ SignedIn(r) \/ NeedsPassword(r) \/ SignInFails(r) \/ Greeted(r) \/ Promote(r)
  \/ Restarts(r)
  \/ ListenerStopped(r) \/ Parted(r)
  \/ ListenerAnswers(r) \/ ListenerInvalid(r) \/ ListenerSilent(r) \/ ListenerDropped(r)
  \/ Probed(r)

Request(r) == SendCode(r) \/ SignIn(r) \/ Logout(r) \/ Status(r) \/ SaveConfig(r)

Next ==
  \/ \E r \in Procs : Request(r) \/ Step(r)
  \/ Refresh \/ Restart \/ WorkerClears
  \/ \E a \in Attempts : Revoke(a)

Spec == Init /\ [][Next]_vars

(* Pyrogram connects in a loop for as long as Telegram cannot be reached.  A
   wait_for is around every such wait but two: save_config starts the listener
   (config.py:233) and send_code connects its client (auth.py:240) without. *)
MayHang(r) == At(r, {"config"}, "connecting") \/ At(r, {"send"}, "sending")

(* Every other await ends: with an answer, an error or its timeout.  The refresh
   loop comes round.  Nobody has to ask for anything. *)
Fairness ==
  /\ \A r \in Procs : WF_vars(~MayHang(r) /\ Step(r))
  /\ WF_vars(Refresh)

FairSpec == Spec /\ Fairness

-----------------------------------------------------------------------------
(* Properties *)

Sessions == Attempts \cup {None, Blank}
Pcs == StartSteps \cup {"idle", "fallback", "clearing", "sending", "asked", "greeting",
                        "leaving", "stopping", "parting", "asking", "probing"}

(* Type invariant. *)
TypeOK ==
  /\ main \in Sessions /\ auth \in Attempts \cup {None}
  /\ passed \subseteq Attempts /\ revoked \subseteq signed /\ signed \subseteq Attempts
  /\ codes \in 0..MaxCodes
  /\ state \in [client : 0..codes, needs_2fa : BOOLEAN, logged_in : BOOLEAN]
  /\ live \subseteq Attempts
  /\ listener \in [cur : Clients \cup {None}, loops : Nat, ref : BOOLEAN]
  /\ link \in [Clients -> {"off", "half", "on"}]
  /\ uses \in [Clients -> Sessions]
  /\ string \in signed \cup {None}
  /\ req \in [Procs -> [op : SignsIn \cup {"none", "send", "logout", "status", "config", "boot"},
                        pc : Pcs, at : Sessions \cup Clients, saw : Sessions,
                        tries : 0..MaxRetries, alone : BOOLEAN]]
  /\ crossed \in BOOLEAN /\ raced \in BOOLEAN /\ left \in BOOLEAN /\ gone \in BOOLEAN

(* auth.py:111 "Replace main session with the successful auth-flow session": what
   a sign-in puts in place is the login it obtained, whatever else goes on,
   unless a send-code has overlapped a sign-in or another send-code. *)
PromotesOwn ==
  [][\A r \in Requests :
       req[r].pc = "leaving" /\ req'[r].pc \in {"stopping", "connecting"}
         => main' = req[r].saw \/ crossed]_vars

(* telegram.py:209: whatever fails or times out, the listener has one client
   and one refresh loop, which stop will find, as long as it is not started or
   stopped while it starts. *)
OneListener ==
  ~raced => /\ \A k \in Clients : link[k] # "off" => k = listener.cur
            /\ listener.loops = IF listener.ref THEN 1 ELSE 0

(* auth.py:435 "Logged out, session removed": after a logout that no other request
   overlapped, no file, no key and no flag holds a login until somebody
   signs in; unless a failed start had left its client connected, which goes on
   answering for a login and, where a refresh loop is left too, is exported. *)
LogoutIsFinal ==
  gone => /\ main \notin signed /\ auth \notin signed
          /\ string # None \/ state.logged_in => left

(* telegram.py:205-208: while the listener runs on a login, the string of that
   login is in Redis again and again, though workers clear it; unless a start
   failed once its client was connected, which leaves it without a loop. *)
KeepsExporting ==
  \A a \in Attempts :
    <>[](Running /\ uses[listener.cur] = a /\ link[listener.cur] = "on"
           /\ ~left /\ ~raced)
      => []<>(string = a)

(* auth.py:169 "never hangs the UI": every request ends, with every retry,
   timeout and restart on its way, or waits for a connection to Telegram for
   ever, where nothing bounds that wait. *)
RequestsEnd == \A r \in Procs : req[r].pc # "idle" ~> req[r].pc = "idle" \/ []MayHang(r)

(* telegram.py:185-189: a start that finds its connection still held by
   Telegram says to wait and to try again, so the session has to be there. *)
SessionKept == [][(main \in signed) => main' \in signed]_vars
=============================================================================
