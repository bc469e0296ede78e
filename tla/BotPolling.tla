----------------------------- MODULE BotPolling -----------------------------
(***************************************************************************)
(* The command loop of the notification bot (main._bot_polling_loop): ask  *)
(* Telegram for updates from an offset on, carry out each, answer, ask     *)
(* again.  The offset lives in memory only; asking with it is what tells   *)
(* Telegram that the updates below it may be forgotten.  Telegram is       *)
(* external, as its Bot API documents getUpdates.                          *)
(***************************************************************************)
EXTENDS Integers, Sequences

CONSTANTS
  MaxUpdates,   \* bound: updates that arrive, numbered from 1
  Commands,     \* those that are commands the bot knows
  MaxRestarts   \* bound: crashes of the application

ASSUME UpdatesAssumption == MaxUpdates \in Nat /\ Commands \subseteq 1..MaxUpdates
ASSUME RestartsAssumption == MaxRestarts \in Nat

VARIABLES
  arrived,    \* Telegram has received updates 1..arrived
  forgotten,  \* ... and forgotten those below this number
  bot,        \* where the loop is
  offset,     \* its offset
  updates,    \* what is left of the result it works on
  handled,    \* handled[u]: how often command u was carried out
  restarts    \* crashes so far

botVars == <<arrived, forgotten, bot, offset, updates, handled, restarts>>

BotStates == {"start", "ask", "asked", "sleep", "work", "command", "reply"}
Largest(x, y) == IF x > y THEN x ELSE y

Arrive ==
  /\ arrived < MaxUpdates /\ arrived' = arrived + 1
  /\ UNCHANGED <<forgotten, bot, offset, updates, handled, restarts>>

(* The application is up: five seconds later the loop begins. *)
Begin ==
  /\ bot \in {"start", "sleep"} /\ bot' = "ask"
  /\ UNCHANGED <<arrived, forgotten, offset, updates, handled, restarts>>

(* Telegram receives getUpdates(offset): it forgets what is below and
   returns the rest. *)
Ask ==
  LET from == Largest(forgotten, offset) IN
  /\ bot = "ask" /\ bot' = "asked"
  /\ forgotten' = from
  /\ updates' = [i \in 1..(arrived + 1 - from) |-> from + i - 1]
  /\ UNCHANGED <<arrived, offset, handled, restarts>>

Answer ==
  /\ bot = "asked" /\ bot' = "work"
  /\ UNCHANGED <<arrived, forgotten, offset, updates, handled, restarts>>

(* The request fails before or after Telegram saw it: sleep, ask again. *)
AskFails ==
  /\ bot \in {"ask", "asked"} /\ bot' = "sleep"
  /\ updates' = <<>>
  /\ UNCHANGED <<arrived, forgotten, offset, handled, restarts>>

(* Take the next update; anything but a known command is passed over. *)
Passed_Same(u) == Largest(offset, u)
Passed_Two(u) == Largest(offset, u + 2)
Passed(u) == Largest(offset, u + 1)

Take ==
  /\ bot = "work" /\ updates # <<>>
  /\ offset' = Passed(Head(updates))
  /\ IF Head(updates) \in Commands
     THEN bot' = "command" /\ UNCHANGED updates
     ELSE updates' = Tail(updates) /\ UNCHANGED bot
  /\ UNCHANGED <<arrived, forgotten, handled, restarts>>

(* _bot_cmd_status, _bot_cmd_tasks, _bot_cmd_retry: whatever they meet they
   turn into a reply. *)
Command ==
  /\ bot = "command" /\ bot' = "reply"
  /\ handled' = [handled EXCEPT ![Head(updates)] = @ + 1]
  /\ UNCHANGED <<arrived, forgotten, offset, updates, restarts>>

(* sendMessage, guarded. *)
Reply ==
  /\ bot = "reply" /\ bot' = "work"
  /\ updates' = Tail(updates)
  /\ UNCHANGED <<arrived, forgotten, offset, handled, restarts>>

AskAgain ==
  /\ bot = "work" /\ updates = <<>> /\ bot' = "ask"
  /\ UNCHANGED <<arrived, forgotten, offset, updates, handled, restarts>>

BotCrash ==
  /\ restarts < MaxRestarts /\ restarts' = restarts + 1
  /\ bot' = "start" /\ offset' = 0 /\ updates' = <<>>
  /\ UNCHANGED <<arrived, forgotten, handled>>

BotInit ==
  /\ arrived = 0 /\ forgotten = 1
  /\ bot = "start" /\ offset = 0 /\ updates = <<>>
  /\ handled = [u \in 1..MaxUpdates |-> 0]
  /\ restarts = 0

BotNext ==
  \/ Arrive \/ Begin \/ Ask \/ Answer \/ AskFails \/ Take \/ Command \/ Reply
  \/ AskAgain

BotSpec == BotInit /\ [][BotNext \/ BotCrash]_botVars
-----------------------------------------------------------------------------
(* Properties *)

(* Type invariant. *)
BotTypeOK ==
  /\ arrived \in 0..MaxUpdates
  /\ forgotten \in 1..(MaxUpdates + 1)
  /\ bot \in BotStates
  /\ offset \in 0..(MaxUpdates + 1)
  /\ updates \in Seq(1..MaxUpdates)
  /\ handled \in [1..MaxUpdates -> Nat]
  /\ restarts \in Nat

(* No command is lost and none is carried out twice for nothing: what
   Telegram has forgotten was carried out, requests that fail and crashes
   notwithstanding, and a command is repeated (a /retry, say) once per crash
   at most, because the offset is only confirmed by the next request. *)
CommandsOnce ==
  \A u \in Commands :
    /\ u < forgotten => handled[u] > 0
    /\ handled[u] <= 1 + restarts
=============================================================================
