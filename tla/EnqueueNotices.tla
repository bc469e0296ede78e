--------------------------- MODULE EnqueueNotices ---------------------------
(***************************************************************************)
(* What happens to a message of a watched chat inside the application: its *)
(* handler creates one task after another and adds the name of each to the *)
(* batch of the chat; five seconds after the last addition the batch is    *)
(* flushed, and one notice goes out by the first route that works.         *)
(*                                                                         *)
(* Everything here is coroutines of one event loop: a step is what runs    *)
(* between two awaits.  How a task is created is MediaTasks, how the       *)
(* client of the last routes is obtained is WorkerSession; here both       *)
(* succeed or fail.  Telegram is external: it delivers a notice or refuses *)
(* it, and its answer to a delivered one may be lost.                      *)
(*                                                                         *)
(* An item is one answer of the dispatcher to a message, a new task or,    *)
(* for a URL that is being downloaded already, the one it found: the       *)
(* handlers announce both.                                                 *)
(***************************************************************************)
EXTENDS Naturals, Sequences

CONSTANTS
  Messages,    \* messages with media or links
  Count,       \* Count[m]: how many media and links message m has
  Chats,       \* watched chats
  ChatOf,      \* ChatOf[m]: the chat of message m
  MaxLosses,   \* bound: answers of Telegram that are lost
  MaxCrashes   \* bound: crashes of the application

ASSUME CountAssumption == Count \in [Messages -> Nat \ {0}]
ASSUME ChatAssumption == ChatOf \in [Messages -> Chats]
ASSUME NoticeLimits == MaxLosses \in Nat /\ MaxCrashes \in Nat

AllItems == UNION {{<<m, i>> : i \in 1..Count[m]} : m \in Messages}

VARIABLES
  handler,   \* handler[m]: "new", "running" or "ended"
  added,     \* added[m]: how many items of m its handler has added
  batch,     \* batch[c]: names in the batch of chat c, <<>> if there is none
  first,     \* first[c]: first_msg_id of that batch
  timer,     \* timer[c]: its timer: "none", "sleeping", or "due" once the
             \* five seconds are over and the coroutine has not run yet
  notices,   \* notices on their way: what they name, reply to, and the route
  over,      \* items whose notice has been sent or given up
  delivered, \* delivered[x]: notices about item x that reached the chat
  losses,    \* answers lost so far
  crashes    \* crashes so far

batchVars == <<batch, first, timer>>
noticeVars == <<handler, added, batchVars, notices, over, delivered, losses, crashes>>

NoMessage == "none"
TimerStates == {"none", "sleeping", "due"}
Routes == {"mode", "bot", "client", "raw", "send", "again"}
Entries(s) == {s[i] : i \in 1..Len(s)}
-----------------------------------------------------------------------------
(* Handlers: _handle_tg_video, ..., _handle_text_message.  The dispatcher of
   pyrogram runs several at a time. *)
Receive(m) ==
  /\ handler[m] = "new"
  /\ handler' = [handler EXCEPT ![m] = "running"]
  /\ UNCHANGED <<added, batchVars, notices, over, delivered, losses, crashes>>

(* _notify_enqueued: open a batch if the chat has none, add the name, cancel
   the timer if it is not done, and start another.  The cancelled timer never
   flushes, not even if its time was over. *)
RepliesTo_Last(c, m) == m
RepliesTo(c, m) == IF batch[c] = <<>> THEN m ELSE first[c]

Restarted_OnlyFirst(c) == IF batch[c] = <<>> THEN "sleeping" ELSE "none"
Restarted(c) == "sleeping"

NotifyEnqueued(c, m, x) ==
  /\ batch' = [batch EXCEPT ![c] = Append(@, x)]
  /\ first' = [first EXCEPT ![c] = RepliesTo(c, m)]
  /\ timer' = [timer EXCEPT ![c] = Restarted(c)]

(* The dispatcher has answered with the task of the next link of m. *)
Create(m) ==
  /\ handler[m] = "running"
  /\ added' = [added EXCEPT ![m] = @ + 1]
  /\ NotifyEnqueued(ChatOf[m], m, <<m, added'[m]>>)
  /\ handler' = [handler EXCEPT ![m] = IF added'[m] = Count[m] THEN "ended" ELSE @]
  /\ UNCHANGED <<notices, over, delivered, losses, crashes>>

(* Creating it raised: the links that follow in the message get no task. *)
CreateFails(m) ==
  /\ handler[m] = "running"
  /\ handler' = [handler EXCEPT ![m] = "ended"]
  /\ UNCHANGED <<added, batchVars, notices, over, delivered, losses, crashes>>
-----------------------------------------------------------------------------
(* _flush_enqueue_batch *)
Elapse(c) ==
  /\ timer[c] = "sleeping"
  /\ timer' = [timer EXCEPT ![c] = "due"]
  /\ UNCHANGED <<handler, added, batch, first, notices, over, delivered, losses, crashes>>

(* The batch leaves the table before the notice about it is sent, so that
   what is added meanwhile opens another batch. *)
Popped_Later(c) == UNCHANGED <<batch, first>>
Popped(c) ==
  /\ batch' = [batch EXCEPT ![c] = <<>>]
  /\ first' = [first EXCEPT ![c] = NoMessage]

Flush(c) ==
  /\ timer[c] = "due"
  /\ timer' = [timer EXCEPT ![c] = "none"]
  /\ Popped(c)
  /\ notices' = notices \cup {[names |-> batch[c], to |-> first[c], at |-> "mode"]}
  /\ UNCHANGED <<handler, added, over, delivered, losses, crashes>>
-----------------------------------------------------------------------------
(* notifier._send_message: bot first, if the mode says so, then the user's
   client: the cached peer, the plain call, and once more after get_chat. *)
MovesOn(n, route) ==
  /\ notices' = (notices \ {n}) \cup {[n EXCEPT !.at = route]}
  /\ UNCHANGED over

Ends(n) ==
  /\ notices' = notices \ {n}
  /\ over' = over \cup Entries(n.names)

ReadMode(n) ==
  /\ n.at = "mode"
  /\ \E route \in {"bot", "client"} : MovesOn(n, route)
  /\ UNCHANGED <<handler, added, batchVars, delivered, losses, crashes>>

(* get_worker_client returns none or raises, or the peer is looked up.  The start
   of its client has no timeout (tg_client.py:206): it may wait for ever. *)
GetClient(n) ==
  /\ n.at = "client"
  /\ Ends(n) \/ \E route \in {"raw", "send"} : MovesOn(n, route)
  /\ UNCHANGED <<handler, added, batchVars, delivered, losses, crashes>>

FallsBack(n) ==
  CASE n.at = "bot" -> MovesOn(n, "client")
    [] n.at = "raw" -> MovesOn(n, "send")
    [] n.at = "send" -> MovesOn(n, "again")
    [] n.at = "again" -> Ends(n)

Reaches(n) ==
  delivered' = [x \in AllItems |->
                  delivered[x] + (IF x \in Entries(n.names) THEN 1 ELSE 0)]

Sending(n) == n.at \in {"bot", "raw", "send", "again"}

Succeeds_FallsThrough(n) == FallsBack(n)
Succeeds(n) == Ends(n)

Send(n) ==
  /\ Sending(n)
  /\ Reaches(n) /\ Succeeds(n)
  /\ UNCHANGED <<handler, added, batchVars, losses, crashes>>

SendRefused(n) ==
  /\ Sending(n)
  /\ FallsBack(n)
  /\ UNCHANGED <<handler, added, batchVars, delivered, losses, crashes>>

(* Delivered, but the request times out: it looks like a refusal. *)
AnswerLost(n) ==
  /\ Sending(n)
  /\ losses < MaxLosses /\ losses' = losses + 1
  /\ Reaches(n) /\ FallsBack(n)
  /\ UNCHANGED <<handler, added, batchVars, crashes>>
-----------------------------------------------------------------------------
(* Batches, timers and handlers live in the memory of the application. *)
NoticesCrash ==
  /\ crashes < MaxCrashes /\ crashes' = crashes + 1
  /\ handler' = [m \in Messages |-> IF handler[m] = "running" THEN "ended" ELSE handler[m]]
  /\ batch' = [c \in Chats |-> <<>>]
  /\ first' = [c \in Chats |-> NoMessage]
  /\ timer' = [c \in Chats |-> "none"]
  /\ notices' = {}
  /\ UNCHANGED <<added, over, delivered, losses>>

NoticesInit ==
  /\ handler = [m \in Messages |-> "new"]
  /\ added = [m \in Messages |-> 0]
  /\ batch = [c \in Chats |-> <<>>]
  /\ first = [c \in Chats |-> NoMessage]
  /\ timer = [c \in Chats |-> "none"]
  /\ notices = {} /\ over = {}
  /\ delivered = [x \in AllItems |-> 0]
  /\ losses = 0 /\ crashes = 0

HandlerStep(m) == Create(m) \/ CreateFails(m)
FlushStep(c) == Elapse(c) \/ Flush(c)
SendStep == \E n \in notices :
  ReadMode(n) \/ Send(n) \/ SendRefused(n) \/ AnswerLost(n)

NoticesNext ==
  \/ \E m \in Messages : Receive(m) \/ HandlerStep(m)
  \/ \E c \in Chats : FlushStep(c)
  \/ SendStep
  \/ \E n \in notices : GetClient(n)

(* The event loop runs what is ready, and a request to Telegram ends with an
   answer or an error.  Nothing says that a client is obtained (GetClient), nor
   that a message arrives. *)
NoticesFairness ==
  /\ \A m \in Messages : WF_noticeVars(HandlerStep(m))
  /\ \A c \in Chats : WF_noticeVars(FlushStep(c))
  /\ WF_noticeVars(SendStep)

NoticesSpec == NoticesInit /\ [][NoticesNext \/ NoticesCrash]_noticeVars
-----------------------------------------------------------------------------
(* Properties *)

(* Type invariant. *)
NoticesTypeOK ==
  /\ handler \in [Messages -> {"new", "running", "ended"}]
  /\ added \in [Messages -> Nat] /\ \A m \in Messages : added[m] <= Count[m]
  /\ batch \in [Chats -> Seq(AllItems)]
  /\ first \in [Chats -> Messages \cup {NoMessage}]
  /\ timer \in [Chats -> TimerStates]
  /\ \A n \in notices : /\ n.names \in Seq(AllItems) \ {<<>>}
                        /\ n.to \in Messages /\ n.at \in Routes
  /\ over \subseteq AllItems
  /\ delivered \in [AllItems -> Nat]
  /\ losses \in Nat /\ crashes \in Nat

Added == {x \in AllItems : x[2] <= added[x[1]]}

(* Where the notice about an item is. *)
Waits(x) == \E c \in Chats : x \in Entries(batch[c])
Travels(x) == \E n \in notices : x \in Entries(n.names)

(* Every name that was added is in the batch of its chat, in a notice under
   way or behind it, and never in two of them, whatever was added between the
   end of the five seconds, the flush and the sending (a crash forgets what
   had not been sent); a batch that waits has a timer that will flush it; and
   a notice replies to the message of the name it shows, its first, although
   the handlers of several messages fill a batch by turns. *)
InOnePlace ==
  /\ crashes = 0 => \A x \in Added : Waits(x) \/ Travels(x) \/ x \in over
  /\ \A x \in AllItems : ~(Waits(x) /\ Travels(x)) /\ ~(Travels(x) /\ x \in over)
  /\ \A n, o \in notices : n # o => Entries(n.names) \cap Entries(o.names) = {}

TimersTick == \A c \in Chats : batch[c] # <<>> <=> timer[c] # "none"

RepliesToItsFirst == \A n \in notices : n.to = Head(n.names)[1]

NothingDropped == InOnePlace /\ TimersTick /\ RepliesToItsFirst

(* The chat is told of an item once, however many routes a notice tries; twice
   only if an answer of Telegram was lost. *)
ToldOnce == \A x \in AllItems : delivered[x] <= 1 + losses

(* What was added is announced, or every route has refused the notice: no
   addition puts the flush off for ever and no notice gets stuck, unless it
   waits for ever for the client of the user. *)
WaitsForClient(x) == \E n \in notices : x \in Entries(n.names) /\ n.at = "client"

Announced ==
  \A x \in AllItems : x \in Added ~> (x \in over \/ crashes > 0 \/ []WaitsForClient(x))
=============================================================================
