# telegram_media_hub in TLA+

telegram_media_hub watches Telegram chats, turns media and links into download
tasks, and runs them in RQ workers.  This directory models its core, checks
the models with TLC and proves the most important results with TLAPS.
Paths below are relative to the repository.

## 1. The system

| Component | Where | State it keeps | Operations |
|---|---|---|---|
| Task lifecycle | `app/services/dispatcher.py`, `app/api/tasks.py`, `app/workers/*`, `app/core/redis.py`, `app/models/task.py`, `app/main.py` | rows of `tasks` (Postgres), jobs of three RQ queues and the scheduled-job registry (Redis) | create, retry, delete, revalidate; run a job; schedule a retry; recover at start |
| Telegram download body | `tg_worker.py:123-505`, `tg_downloader.py` | the temporary and the finished file, the row, a file reference | connect, refresh the reference, download (twice at most), move, check, complete; clean up |
| MeTube download | `external_worker.py` | MeTube's queue and done list (external) | submit, poll, check the file |
| Worker session | `app/core/tg_client.py` | `tg:session_string`, `tg:session_gen` (Redis), one client per process | `get_worker_client`, export, clear |
| Listener and login | `app/services/telegram.py`, `app/api/auth.py`, `app/api/config.py`, `app/main.py` | two `.session` files, the listener's client and refresh loop, `_state`, `tg:session_string` | send-code, sign-in, 2FA, status, logout; start with retries, stop, refresh loop |
| Enqueue batches, notifier | `telegram.py:69-103,234-371`, `notifier.py` | names per chat and a timer | create, accumulate, flush, send by one route after another |
| Proxy pool | `app/services/proxy_pool.py`, `app/api/proxies.py` | rows of `proxies` | health check, add, enable, disable, delete |
| Bot polling | `main.py:143-275` | update offset | ask, carry out, answer, confirm |
| Settings, web login, status, schema, UI | the rest of `app/` | configuration, cookies | no protocol |

How they interact.  The application process (one event loop: web API, listener,
bot, health loop) and the workers never talk directly.  They share rows in
Postgres and jobs and keys in Redis, and no operation covers two of them
atomically.  `rq` forks a process per job; the workers listen to their own
queue and both to `retry` (`docker-compose.yml:40,61`).

What makes it hard: a commit and the enqueue that belongs to it are separate
steps, in one order in the handlers and in the other in `schedule_retry`;
a login goes through requests that each await Telegram and meanwhile share
`_state`, two files and one listener; statuses are read without locks and written
by id; a worker can die at any point and RQ does not run a lost job again; a restart of the application runs a
recovery while workers may be alive; health checks write from snapshots; string
and generation of a session are read separately.  `PROJECT.json` lists each
hazard at its line with the properties about it.

What makes the parts correct: a task that waits has exactly one job, runs once
at a time, is COMPLETED only with its file, is never forgotten and always
settles; retries stop at the limit; recovery makes good what crashes left; the
status of a proxy follows from its failures; workers get to the current login;
every attempt at MeTube ends, and its task goes through the stages it should; a
Telegram download is whole, under the name the row shows, and leaves no files
behind; a sign-in puts its own login in place, a logout is final, the listener
has one client and one loop; the chat hears of every addition, once; no command
of the bot is lost or repeated for nothing.

## 2. Modules

| Module | Models | Runs through | Proofs in |
|---|---|---|---|
| `TaskLifecycle` | the promise about one task (abstract) | `MCMediaTasks` | `MediaClaimsProofs`, `MeTubeProofs` |
| `MediaTasks` | tasks, queues, workers, handlers, recovery | `MCMediaTasks` | `MediaTasksProofs`, `MediaClaimsProofs` |
| `MeTubeDownload` | the download step of a link task in detail | `MCMeTubeDownload` | `MeTubeProofs` |
| `WorkerSession` | the shared Telegram session | `MCWorkerSession` | `WorkerSessionProofs` |
| `ProxyPool` | the proxy pool | `MCProxyPool` | `ProxyPoolProofs` |
| `TelegramDownload` | the download step of a Telegram task in detail | `MCTelegramDownload` | `TelegramDownloadProofs` |
| `LoginFlow` | the login requests, the listener, the session files | `MCLoginFlow` | `LoginFlowProofs` |
| `EnqueueNotices` | message handlers, enqueue batches, the routes of a notice | `ChatServices` | `ChatProofs` |
| `BotPolling` | the command loop of the bot | `ChatServices` | `ChatProofs` |
| `ChatServices` | the two before, in the one process whose crash takes both | `MCChat` | `ChatProofs` |

`TelegramDownload` and `MeTubeDownload` open up the step of `MediaTasks` between
DOWNLOADING and the outcome; `WorkerSession` begins where `LoginFlow` ends, at the
exported string; a notice gets its client from `WorkerSession`.

`PROJECT.json` maps every definition to the lines it translates.  An operator
with a suffix such as `Exhausted_OffByOne` is a wrong variant of the definition
that follows it; nothing uses it, and it serves to see a property fail.

### MediaTasks

A step is what the code does between two points where another process can act.
Handlers and workers keep copies of what they loaded and write from these.

* Rows: `status`, `retries`, `disk` (is the finished file there).  "unborn" and
  "deleted" stand for the absence of a row.
* Jobs: `queued[q][t]` counts jobs (a bag: every order of a queue is allowed),
  `scheduled[t]` counts delayed retries.
* A worker goes `Pop` -> `Load` (status check, URL check) -> `CommitStart`
  (DOWNLOADING) -> `DownloadLands` or `DownloadFails` -> `CommitCompleted`, or
  `ReloadAndSchedule` -> `CommitRetry`; `NotifyDone` ends it.  `ReloadAndSchedule`
  puts the job into Redis before `CommitRetry` commits the row, as
  `schedule_retry` does.  Writes that the ORM skips because the value has not
  changed are skipped in the model.
* Handlers: `CreateTg`, `CheckDuplicate`/`Insert` then `Enqueue`; `RetryLoad` then
  `RetryCommit` then `Enqueue`; `DeleteLoad`, `DeleteCancel`, `Purge`, `Erase`;
  `RevalScan` then `RevalCommit`.
* Start of the application: `RecoverInterrupted`, `RecoverCommit`,
  `RecoverPending`.
* Faults: `JobLost` (the worker dies, its job times out, an exception escapes),
  `AppCrash`, `AbortRequest`, `FileLost`; `Budget` bounds each.  The workers are
  containers of their own, which nothing makes wait for the application
  (`docker-compose.yml:26-61`): a restart of the whole stack is an `AppCrash` and a
  `JobLost` of each busy worker, and the workers may be up first.
* `exposed` is history: the tasks that, since the last recovery began, lost a job with
  their worker or a step of a stopped handler, or had their job taken before the
  recovery had committed the row.
* Switches: `Overlap` (two handlers act on one task), `BackoffOutlastsCommit`
  (a delayed job, 30 s or more, runs after the commit that follows), `NotifyRaises`.

### MeTubeDownload

Refines the step between DOWNLOADING and the outcome of a link task:
`Start`, `Submit`/`SubmitFails`, `Poll`/`PollTimeout`, `CheckFile`.  URLs are records
of host labels, path parts and the `v` of the query, so that `VideoId` and `Key` are
`_youtube_video_id` and `_canonical_download_key` with all their hosts and paths.
MeTube is external: it lists downloads under the page they end at (`Expanded`), in `done`
once they have ended, and may keep the entry of a URL that is submitted again
(`KeepsDone`; the compose file sets CLEAR_COMPLETED_AFTER=0).  A poll takes any entry with
the key of its URL, also one that an earlier attempt or another task left: so does the
code.  `Life(t)` maps the attempts of a link to the stages of `TaskLifecycle`.

### WorkerSession

A login is a number.  `Call`, `ReadString`, `Enter` (lock, generation, discard),
`Create`, `Ping`, `Refetch`, `Count`, `Reconnect`, `ClearString`, `ClearGen` are the
branches of `get_worker_client`; the lock is the fact that one coroutine per
process is in `Locked`.  The application does `SignIn`, `Export`, `Refresh`,
`Logout`, `DropString`, `DropGen`.  `during[c]` is history: the strings Redis has
held since the call began.  Assumed of Telegram: a ping and a start on an
invalidated login fail.  A process may end at any time (`Exit`: rq forks one per
job, containers restart).  `upset` is history too: an export fell between the
two reads of a call, or the generation was deleted.  `Disturbances` says what else
may happen in an instance.

### ProxyPool

A check takes a snapshot (`StartCheck`), probes row after row (`Probe`) and writes
each by id (`WriteResult`), whatever the row says by then.  Several checks and
edits may be under way.  Edits load a row (`LoadRow`) and write the columns that
differ from what they loaded (`CommitEnable`, `CommitDisable`, `CommitDelete`).
`get_best_proxy`, `report_success` and `report_failure` have no caller in the
repository and are left out.

### TelegramDownload

One task and its runs, one at a time.  A run goes `Start` -> `Connect` -> (`Refresh`)
-> `Fetch` -> `FetchEnds` -> `Move` -> `Complete`, or through `Cleanup` and `GiveBack`,
the except clause.  The row and the run have their own copies of name, size and
reference; a `Refresh` from the message changes both, so the paths change in the
middle of a run.  Its three places (`why`: size unknown, reference expired, empty
file) are one action.  Files are three functions of the name: what pyrogram writes to
(`part`), the temporary file and the library.  Telegram and pyrogram are external: a
download raises, or ends with any size up to the whole, since pyrogram's stream
swallows errors.  `Lose` is the death of a process; `Recover`, `Resubmit`, `TakeAway` and
`Delete` are what the rest of the system does to the row.

### LoginFlow

A login attempt is a number; its client owns a session file, wherever it is moved,
and `main` and `auth` say whose file is at the two paths.  A request has a program
counter: `SendCode`, `OpensAuth`, `CodeSent`; `SignIn`, `SignedIn` or `NeedsPassword`,
`Greeted`, `Promote`; `Logout`, `ListenerStopped`, `Parted`; `Status`, `ListenerAnswers`,
`ListenerInvalid`, `ListenerSilent`, `Probed`.  Every request after its first await goes
on with what `_state`, the files and the listener hold by then.  The listener's start is shared
by sign-in, `SaveConfig` and the start of the application (`Boot`): `Launch`, `Connects`,
`Authorises`, `Duplicate` with `Retries`, `AuthFails`, `OtherError`, `TimesOut`,
`Started`.  `listener.loops` counts refresh loops, `ref` tells whether `stop` knows one.
`Promote` waits only if there is a listener to stop; from there to the next await it is one step.
Assumed of pyrogram 2.0.106 (external): a start connects, authorises, then
initialises, and a start that is cancelled stays connected; `stop` refuses a client that
is not initialised; opening a session file that is missing creates it (`Blank`).
Telegram lets a code or a password through once, for a connected client.
`crossed`, `raced`, `left` and `gone` are history and name the circumstances the
properties depend on.

### EnqueueNotices, BotPolling, ChatServices

A handler gets task after task from the dispatcher (`Create`), each adding its name to the
batch of the chat and restarting the timer; an item is one such answer, be it a new task or,
for a URL that is being downloaded already, the one there is, which is announced again;
`Flush` takes the batch out of the table before the
notice is sent.  A notice goes from route to route (`Routes`: the bot, the cached peer,
the plain call, once more after `get_chat`) until one works; `AnswerLost` delivers it and looks
like a refusal.  A message is how many media and links it has: what makes a link or a video
is parsing.  The bot asks with its offset, which is when Telegram forgets the updates below it
(`Ask`), carries out what it gets and asks again.  A crash empties batches, notices
and the offset at once.

## 3. Runs

Runs that pass:

| Run | Question | Bounds, and why they are enough |
|---|---|---|
| `steady` | one claim, one run, honest statuses, growing retry counts; MediaTasks implements TaskLifecycle, liveness included | a Telegram and a link task (its URL rejected), both workers, two handlers, a lost file, two automatic and one manual retry: every pair of actors meets on a task, and a task can reach the retry limit and pass it by hand |
| `overlap` | no task forgotten, every task settles, though handlers overlap and notices raise | one task is enough: handlers interfere only on the same row |
| `recovery` | what a restart of the application leaves behind is `exposed`, nothing else; every other task settles | one link task, both workers, which live on or lose their job, one handler; two crashes, so that recovery itself is interrupted, a lost job and a stopped handler before, between or after them |
| `proxy_pool` | only enabling parts status and count, dead proxies are dropped, live ones recover | the loop, a manual check and an edit overlap on one proxy (proxies do not interact); three outages let it die, recover and die again, three failures tell the threshold from its neighbours |
| `session` | a call returns a client of a current string, stale clients do not last, a cleared login comes back | two coroutines of one process, two logins, refreshes up to generation two, every disturbance; two processes share nothing but Redis, and the proof covers any number |
| `telegram_download` | a completed task has its own, whole file; nothing is left behind but by the dead; no reference twice | an old and a new name, sizes nothing, part and whole, three runs of which two die: a run can be renamed, expire openly or silently, end short and be followed by one that meets what it left |
| `login` | a sign-in promotes its own login; one client, one loop; a logout is final | two requests at a time, two attempts (a second send-code under a sign-in), five client objects (two requests, the boot, one current and one collected), two further events of six kinds |
| `login_live` | a listener that runs brings its string back; every request ends, or waits for a connection where no timeout is | one attempt, as liveness needs the graph of all eight kinds of events; a retry, two events |
| `chat` | no name dropped or told twice, replies to the right message, everything announced unless the client of the user is never obtained; no command lost or repeated for nothing | a message with one link and one with two share a batch; a lost answer, a crash; an update that is no command before one that is |
| `metube` | every link task ends; each implements TaskLifecycle, liveness included | two links to one video, which share a key, a download and its entries, and a b23.tv link whose expanded form has another key; two attempts, MeTube goes and comes back |

Runs that show a disagreement between code and documentation (each checks one
property that quotes a doc, a docstring or a comment; `findings` in
`PROJECT.json` has the lines):

| Run | What the code does |
|---|---|
| `recovery_restart` | application and worker restart in the middle of a download; the worker takes the recovered job before the recovery commits, skips it because the row says DOWNLOADING, and the commit leaves a RETRYING task without a job |
| `duplicate_key` | after its last retry, a start that Telegram refuses as a duplicate deletes the session file it says to try again with |

Other limits seen in the code while modelling, without a run of their own:

* Two requests for one URL both insert an active task: the check and the insert are
  two statements (`dispatcher.py:57`).
* Both workers listen to `retry`, so the external one runs retries of Telegram
  tasks, beside a Telegram download.
* A completion notice that raises sends a completed link task back to RETRYING
  (`NotifyRaises` in `overlap`).
* A check of proxies that began earlier writes over DISABLED.
* URLs of other sites than YouTube that differ in their query alone share a key in
  MeTube's lists, so a task may take the entry of another, as it may take the entry an
  earlier attempt of its own URL left.  Short links of b23.tv never match their
  expanded form and run into the deadline.
* A worker that dies leaves its task DOWNLOADING until the application restarts
  (the reason for `exposed` in `Settles`); recovery also enqueues tasks a worker
  is still running or whose retry is scheduled, and its commit may write RETRYING
  over what the worker has written meanwhile, COMPLETED too.
* `_cancel_rq_jobs_for_task` leaves scheduled jobs; they find no row later.
* `notify_failed` announces that retries are used up one retry early.
* Checks from old snapshots make a FAILED proxy ACTIVE again for a while, and
  `enable_proxy` writes only the columns that differ from what it loaded.
* An export between the two reads of `get_worker_client`, or a generation that
  starts again after a logout, leaves a client of an old string in use until its
  ping fails (the reason for `upset` in `FreshClient`).
* Three waits for Telegram have no timeout: the start of a worker's client
  (`tg_client.py:206` and after, under the lock of the process), the start of the listener
  when the configuration is saved (`config.py:233`) and the connection of a send-code
  (`auth.py:240`).  While Telegram cannot be reached, notices, calls and requests behind
  them wait (`MayHang`, `WaitsForClient`).
* A duplicate URL is announced as if it were a new task (`telegram.py:366-371`).
* The test for a dead login differs from place to place: `auth.py:33` overlooks
  AUTH_KEY_UNREGISTERED, and both overlook SESSION_REVOKED, which leaves the session there.
* `get_retry_delay` (`retry_handler.py:16-29`) returns 30, 60, 120, 240, 480 s where
  its docstring says 30 s to 1 h, and `external_worker.py:146` announces substring
  matching where the code compares keys.

* A stream that breaks off on media of unknown size completes a task short: its
  size is what came, and a later whole download would not fit the row.
* Progress writes are not awaited and may land after COMPLETED; only displayed
  figures are concerned.
* Messages that keep arriving less than five seconds apart put a flush off for as long
  as they come (finitely many in the model); a creation that fails drops the
  later links of its message; an answer that is lost sends the notice twice; commands are
  carried out again after a crash that came before the next request.
* A send-code under a sign-in, or two at once: the later answer replaces `_state.client`
  under the other request, which then promotes a blank or another file or ends with
  an error (the reason for `crossed` in `PromotesOwn`).  A logout during a sign-in is
  undone by it (`gone` asks for a logout alone).
* Starts of the listener that overlap leave a client connected and a loop that
  nobody cancels (`raced` in `OneListener`).  A start that times out (60 and 300 s)
  or fails after its client connected leaves a listener without refresh loop, which
  answers "logged in" even after a logout (`left` in `LogoutIsFinal`, `KeepsExporting`).
* The verdict of a status probe falls on whatever main file is there by then, and
  `logged_in` is TRUE after a sign-in even if listener and fallback both failed.

All runs say CHECK_DEADLOCK FALSE: once every bound is used up and every task
ended, or nobody calls any more, the system rightly stops.

### Fairness

* Workers and handlers go on once they have begun (RQ's job timeout is on every job, the
  handlers of `MediaTasks` wait for Postgres and Redis only); RQ pops waiting jobs, its
  scheduler (`--with-scheduler`) promotes delayed ones.  Nobody is obliged to
  create, retry or delete; no fault must happen.
* The health loop starts checks for ever (`main.py:107-116`); probes time out.
* The refresh loop exports every four hours; an export that was begun happens
  (Redis is up), calls of `get_worker_client` go on, but for the start of a client, which
  may take for ever and keeps the lock meanwhile.
* A poll goes round and its deadline passes.  MeTube owes nothing.
* Login: pyrogram connects in a loop while Telegram cannot be reached.  Where a `wait_for`
  is around it, it ends; `MayHang` names the two waits without one (the start of the
  listener by `save_config`, the connection of a send-code), and no fairness is assumed of
  them.  Every other await ends, with an answer or an error, and the refresh loop comes
  round.  Nobody has to log in.
* Chat: the event loop runs the handlers, timers and notices that are ready, requests to
  Telegram end with an answer or an error.  That the client of the user is obtained
  (`GetClient`) is not assumed, nor that a message arrives.

### What does not hold, on purpose of the instance

With `Overlap`, `AtMostOneRun`, `CompletedHasFile`, `FailedIsIdle` and
`RetriesOnlyGrow` fail: revalidating twice at once (a double click) schedules two
jobs for a row, and a retry accepts a row that a delete under way has marked
CANCELLED.  `StrandedBound` holds there, and is proved there.  `AtMostOneRun` also
needs that the application does not restart: its recovery enqueues what runs.  Status and count of a proxy
may disagree after `enable_proxy`; `CountDecides` says that nothing else parts them.

## 4. Proofs

TLAPS proves for every value of the constants (all results are listed in
`PROJECT.json`):

1. `MediaTasksProofs!TypeCorrect`: `Spec => []TypeOK`.
2. `MediaClaimsProofs`, under `Steady` (one handler per task at a time, none cut
   short, no restart, no raising notice; lost jobs and lost files are allowed).
   That no task runs twice is not inductive: a second run comes from a second job,
   a handler about to enqueue, or a delayed job that coexists with a worker.
   `ExclusiveClaims` says of each task that at most one of these exists, ties
   statuses to them, and ties a job that is in Redis before its row is committed
   to what the holder is about to write.  One lemma per action shows that
   it is preserved.  `AtMostOneRun`, `FailedIsIdle` and `CancelledIsTransient` follow from
   the invariant, `CompletedHasFile` and `RetriesOnlyGrow` from it step by step.
   * `EachTaskLives`: the row of each task, with all its jobs, workers and handlers, implements
     `LSafety`, the safety part of `TaskLifecycle`.  Each step that changes a status is the abstract
     step of its stage or a stutter; what it needs from the state before is in
     `StagesTied`: unless its task is being deleted, a worker about to start has one that waits,
     a worker about to end one that runs, and what it loaded before it requeued is what the row says.
   * `WorkRunsOut` and `DoneWhenRunOut` are what `Settles` rests on besides fairness.
     `StepsLeft(t)` counts eight steps for each retry the task has left and those of its
     present claim; a step that serves the task lowers it, and only a handler that creates,
     retries or revalidates, or a lost worker, raises it.  A task with none left is settled
     or being deleted, unless it lost a job on the way.
3. `MediaTasksProofs!NoTaskForgotten`, under `DelaysOutlast` (delays outlast commits,
   finitely many tasks; handlers overlap, stop and notices raise as they like):
   `StrandedBound`, which speaks of the time before the first restart of the
   application.  Its invariant counts the tasks
   without a keeper: a worker whose except clause loaded the very status it is going
   to write keeps nothing, since the ORM writes no unchanged column.  Every
   action other than a fault forgets no task; a fault forgets at most one.
   `RecoveryIsComplete`, under `BackoffOutlastsCommit` alone: `RecoveryCovers`, with workers
   that live on, take jobs, die or are up first, with handlers that overlap, and with crashes
   at any point of a recovery.  The recovery enqueues what was interrupted, commits it, then
   enqueues what never started; `RecoveryInv` says what each phase has reached: which tasks
   have a job or someone at work on them, or are `exposed`, and what a worker that pops a
   job before the commit does to them.
4. `ProxyPoolProofs!CountsDecide`: `CountDecides` for any number of proxies, checks and
   edits.  A check writes both columns from one count, and a disabling or a removal
   claims nothing about it.  `StatusFollowsCount` draws the consequence: where nobody
   enables proxies by hand, status and count never disagree.
5. `WorkerSessionProofs!ClientsAreFresh`: `FreshClient` for any number of processes and
   coroutines and every disturbance.  That a returned client is current is not
   inductive: it rests on what other calls of the process cached, and under which
   generation.  The invariant `SessionInv` says that the generation in Redis stands
   for one login (`StandsFor`): a string read, a pending connection or a cached client
   under it is of that login; that no process holds a generation ahead of it
   (`NotAhead`); that what a call holds is a string Redis has held since it began
   (`Held`); and that the lock admits one call of a process (`OneInside`).
6. `TelegramDownloadProofs`, for any names, sizes, runs and deaths: `CompletedHasItsFile`,
   `NeverShort`, `SecondChance`, `LeftoversBound`.  That the file of a completed task is
   the one the row shows rests on the copies of a run following the row (`CopiesKeepUp`);
   that no reference is used twice on the order in which they were given (`InOrder`).  The bound
   on leftovers charges each file without an owner to a run that died (`Tidy`): a refresh
   renames only once the temporary files of the old name are gone.
   `RunsAreShort`: a run takes twelve steps at most, so refreshing and downloading cannot
   alternate for ever.
7. `ChatProofs`, for any messages, chats, updates, losses and crashes: `NothingDropped`,
   `ToldOnce`, `CommandsOnce`.  That a name is in one place needs that it was in none
   before its turn (`Places`); that the chat is told of an addition once, that a name still on its way has been
   delivered no more often than answers were lost (`Told`); that no command is lost,
   that every command below the offset has been carried out or is in hand (`BotInv`).
8. `LoginFlowProofs`, for any requests, attempts, clients, retries and events:
   * `OwnLoginPromoted` (`PromotesOwn`) from `OwnFile`: unless something crossed,
     send-codes are alone among the requests that use `_state`, and the file at the auth
     path is that of the client of `_state`, or of the attempt that waits for Telegram.
   * `ListenerIsOne` (`OneListener`) from `OneClient`: a start under way holds the
     current client, alone, while no loop runs; a stop holds a client whose loop is
     cancelled already.
   * `LogoutsAreFinal` (`LogoutIsFinal`) from `Forgotten`: after a logout that was alone no file,
     client, probe or request knows of a login, and a logout that has been alone so
     far stops the client that is current.  It refuses to stop a half-connected one,
     so `Halves` is needed: such a client is of a start under way, or was left.
   * `RequestsAreShort`: a request takes `3 * MaxRetries + 8` steps at most, whatever else goes on.
     Its places follow one another (`Roads`), and only a start that Telegram refuses goes
     back, for one retry less; nobody adds to it.  This is what `RequestsEnd` rests on besides
     fairness.
9. `MeTubeProofs`, for any links (shared keys included), limits and outages of MeTube:
   * `StepsRunOut`: a step of an attempt and a deadline lower a natural number that nothing raises,
     which is what `EveryTaskEnds` rests on besides fairness.
   * `AttemptsAreALife`: every step is a step of `TaskLifecycle` or a stutter, the safety part
     of `LivesAsPromised`.
10. `PoolTypeCorrect`, `SessionTypeCorrect`, `DownloadTypeCorrect`, `ChatTypeCorrect`,
   `LoginTypeCorrect` and `MeTubeTypeCorrect`: the type invariants.

Model-checked only: liveness (`Settles`, the fairness of `LivesAsPromised`, `Recovers`,
`DeadIsDropped`, `CatchesUp`, `LoginSurvives`, `EveryTaskEnds`, `KeepsExporting`, `RequestsEnd`,
`Announced`), which is beyond the prover, and the two disagreements.  The theorems about
steps that run out are safety: that the steps are taken is the fairness above.
`CancelledIsTransient` is proved and not run.

## 5. Not modelled

* Loss of Redis or Postgres data, and exports that fail because Redis is down; handlers' 404
  answers change no state.
* Progress figures, wording of messages, the cache of peers, parsing of links.
* `get_best_proxy`, `report_success` and `report_failure`: no caller.
* What a caller does with a client that another coroutine of its process discards.
* Settings (one file read and written whole; that saving them starts the listener is in
  `LoginFlow`), web login (signed cookies), schema and migrations, the pages of the
  web interface: no protocol.

## 6. Plan

1. Composition of `LoginFlow` with `WorkerSession` through the exported string, with the
   generation.
2. Composition of `MeTubeDownload` and `TelegramDownload` into the tasks of `MediaTasks`; files
   of two runs of a task that overlap (`Overlap`).
3. Proofs: the steps of a notice, and the additions that put a flush off, run out, as
   those of tasks and requests do.
