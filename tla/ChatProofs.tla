----------------------------- MODULE ChatProofs -----------------------------
(***************************************************************************)
(* The results about the chats, for any number of messages, chats and      *)
(* commands, lost answers and crashes.                                     *)
(*                                                                         *)
(* That Telegram forgets no command before it was carried out, and none is *)
(* carried out twice in one life, rests on the updates of a result         *)
(* following one another without a gap from the offset on (BotInv).  That  *)
(* no name is dropped or told twice rests on each being in one place       *)
(* (NoticesInv).                                                           *)
(***************************************************************************)
EXTENDS ChatServices, SequenceTheorems, TLAPS

-----------------------------------------------------------------------------
(* The bot *)

InHand(u) == bot = "command" /\ u = Head(updates)

BotInv ==
  /\ BotTypeOK
  /\ offset <= arrived + 1 /\ forgotten <= arrived + 1
  /\ bot \in {"start", "sleep", "ask"} => updates = <<>>
  /\ \A i \in 1..Len(updates) : updates[i] = Head(updates) + i - 1 /\ updates[i] <= arrived
  /\ bot \in {"asked", "work"} /\ updates # <<>>
       => Head(updates) = Largest(forgotten, offset)
  /\ bot \in {"command", "reply"}
       => updates # <<>> /\ offset = Head(updates) + 1 /\ forgotten <= Head(updates)
  /\ \A u \in Commands : u < forgotten \/ u < offset => handled[u] > 0 \/ InHand(u)
  /\ \A u \in Commands : InHand(u) => u >= forgotten
  /\ \A u \in 1..MaxUpdates :
       /\ handled[u] <= 1 + restarts
       /\ u >= offset \/ InHand(u) => handled[u] <= restarts

LEMMA BotBounds == MaxUpdates \in Nat /\ Commands \subseteq 1..MaxUpdates /\ MaxRestarts \in Nat
BY UpdatesAssumption, RestartsAssumption

LEMMA LargestType ==
  ASSUME NEW x \in Int, NEW y \in Int
  PROVE  Largest(x, y) \in {x, y} /\ Largest(x, y) >= x /\ Largest(x, y) >= y
BY DEF Largest

(* The rest of a run of numbers is a run of numbers. *)
LEMMA RestFacts ==
  ASSUME NEW s \in Seq(1..MaxUpdates), s # <<>>,
         \A i \in 1..Len(s) : s[i] = Head(s) + i - 1
  PROVE  /\ Head(s) \in 1..MaxUpdates /\ Head(s) = s[1] /\ 1 \in 1..Len(s)
         /\ Tail(s) \in Seq(1..MaxUpdates) /\ Len(Tail(s)) = Len(s) - 1
         /\ \A i \in 1..Len(Tail(s)) : i + 1 \in 1..Len(s) /\ Tail(s)[i] = s[i + 1]
         /\ Tail(s) # <<>> => Head(Tail(s)) = Head(s) + 1
         /\ \A i \in 1..Len(Tail(s)) : Tail(s)[i] = Head(Tail(s)) + i - 1
<1> USE BotBounds
<1>1. Len(s) \in Nat /\ Len(s) > 0 BY EmptySeq
<1>2. /\ Head(s) \in 1..MaxUpdates /\ Head(s) = s[1] /\ 1 \in 1..Len(s)
      /\ Tail(s) \in Seq(1..MaxUpdates) /\ Len(Tail(s)) = Len(s) - 1
      /\ \A i \in 1..Len(Tail(s)) : i + 1 \in 1..Len(s) /\ Tail(s)[i] = s[i + 1]
  BY <1>1, HeadTailProperties
<1>3. Tail(s) # <<>> => Head(Tail(s)) = Head(s) + 1
  <2> SUFFICES ASSUME Tail(s) # <<>> PROVE Head(Tail(s)) = Head(s) + 1 OBVIOUS
  <2>1. Len(Tail(s)) \in Nat /\ Len(Tail(s)) > 0 BY <1>2, EmptySeq
  <2>2. Head(Tail(s)) = Tail(s)[1] /\ 1 \in 1..Len(Tail(s)) BY <1>2, <2>1
  <2>3. Tail(s)[1] = s[2] /\ 2 \in 1..Len(s) BY <1>2, <2>2
  <2> QED BY <1>2, <2>2, <2>3
<1>4. \A i \in 1..Len(Tail(s)) : Tail(s)[i] = Head(Tail(s)) + i - 1
  <2> SUFFICES ASSUME NEW i \in 1..Len(Tail(s)) PROVE Tail(s)[i] = Head(Tail(s)) + i - 1
    OBVIOUS
  <2>1. Tail(s) # <<>>
    <3>1. Len(<<>>) = 0 BY EmptySeq
    <3>2. Len(Tail(s)) # 0
      <4> DEFINE k == Len(Tail(s))
      <4>1. k \in Nat BY <1>1, <1>2
      <4>2. i \in 1..k OBVIOUS
      <4> HIDE DEF k
      <4>3. k # 0 BY <4>1, <4>2
      <4> QED BY <4>3 DEF k
    <3> QED BY <3>1, <3>2
  <2>2. i \in Nat /\ i + 1 \in 1..Len(s) /\ Tail(s)[i] = s[i + 1] BY <1>2
  <2>3. s[i + 1] = Head(s) + (i + 1) - 1 BY <2>2
  <2> QED BY <1>2, <1>3, <2>1, <2>2, <2>3
<1> QED BY <1>2, <1>3, <1>4

LEMMA BotInitInv == BotInit => BotInv
<1> SUFFICES ASSUME BotInit PROVE BotInv OBVIOUS
<1> USE BotBounds DEF BotInit
<1>1. updates \in Seq(1..MaxUpdates) /\ Len(updates) = 0 OBVIOUS
<1>2. BotTypeOK BY <1>1 DEF BotTypeOK, BotStates
<1> QED BY <1>1, <1>2 DEF BotInv, InHand

(* Telegram returns the numbers from the one it forgets up to, to the last. *)
LEMMA AskInv == ASSUME BotInv, Ask PROVE BotInv'
<1> DEFINE from == Largest(forgotten, offset)
           n == arrived + 1 - from
<1> USE BotBounds
<1>1. /\ arrived \in Nat /\ from \in Int /\ from >= 1 /\ from <= arrived + 1
      /\ from >= forgotten /\ from >= offset /\ from \in {forgotten, offset}
      /\ forgotten \in Int /\ offset \in Int /\ n \in Nat
  BY SMTT(30), LargestType DEF BotInv, BotTypeOK
<1>2. updates' = [i \in 1..n |-> from + i - 1] BY DEF Ask
<1>3. \A i \in 1..n : from + i - 1 \in 1..MaxUpdates /\ from + i - 1 <= arrived
  <2> SUFFICES ASSUME NEW i \in 1..n
               PROVE  from + i - 1 \in 1..MaxUpdates /\ from + i - 1 <= arrived
    OBVIOUS
  <2>1. arrived <= MaxUpdates BY DEF BotInv, BotTypeOK
  <2> HIDE DEF from
  <2> QED BY <1>1, <2>1
<1>4. updates' \in Seq(1..MaxUpdates) /\ Len(updates') = n
  <2>1. updates' \in [1..n -> 1..MaxUpdates] BY <1>2, <1>3
  <2> QED BY <1>1, <2>1
<1>5. updates' # <<>> => Head(updates') = from
  <2> SUFFICES ASSUME updates' # <<>> PROVE Head(updates') = from OBVIOUS
  <2>1. n > 0 BY <1>4, <1>1, EmptySeq
  <2>2. 1 \in 1..n /\ updates'[1] = from BY <1>1, <1>2, <2>1
  <2> QED BY <1>4, <2>2
<1>6. \A i \in 1..Len(updates') : updates'[i] = Head(updates') + i - 1 /\ updates'[i] <= arrived
  <2> SUFFICES ASSUME NEW i \in 1..n
               PROVE updates'[i] = Head(updates') + i - 1 /\ updates'[i] <= arrived
    BY <1>4
  <2>1. updates' # <<>> BY <1>4, EmptySeq
  <2> QED BY <1>2, <1>3, <1>5, <2>1
<1>7. BotTypeOK' BY <1>1, <1>4 DEF Ask, BotInv, BotTypeOK, BotStates
<1>8. Largest(from, offset) = from BY <1>1 DEF Largest
<1>9. /\ bot = "ask" /\ bot' = "asked" /\ forgotten' = from
      /\ UNCHANGED <<arrived, offset, handled, restarts>>
  BY DEF Ask
<1>10. \A u \in Commands : u < from => handled[u] > 0
  BY <1>1, <1>9 DEF BotInv, InHand
<1>11. \A u \in 1..MaxUpdates : handled[u] <= 1 + restarts /\ (u >= offset => handled[u] <= restarts)
  BY DEF BotInv
<1>12. \A u \in Commands : u < offset => u < from BY <1>1
<1> HIDE DEF from, n
<1> QED BY <1>1, <1>5, <1>6, <1>7, <1>8, <1>9, <1>10, <1>11, <1>12 DEF BotInv, InHand

LEMMA TakeInv == ASSUME BotInv, Take PROVE BotInv'
<1> DEFINE u == Head(updates)
<1> USE BotBounds
<1>1. updates \in Seq(1..MaxUpdates) /\ updates # <<>> /\ bot = "work" BY DEF Take, BotInv, BotTypeOK
<1>2. \A i \in 1..Len(updates) : updates[i] = u + i - 1 /\ updates[i] <= arrived BY DEF BotInv
<1>3. /\ u \in 1..MaxUpdates /\ u = updates[1] /\ 1 \in 1..Len(updates)
      /\ Tail(updates) \in Seq(1..MaxUpdates) /\ Len(Tail(updates)) = Len(updates) - 1
      /\ \A i \in 1..Len(Tail(updates)) :
           i + 1 \in 1..Len(updates) /\ Tail(updates)[i] = updates[i + 1]
      /\ Tail(updates) # <<>> => Head(Tail(updates)) = u + 1
      /\ \A i \in 1..Len(Tail(updates)) :
           Tail(updates)[i] = Head(Tail(updates)) + i - 1
  BY <1>1, <1>2, RestFacts
<1>4. u = Largest(forgotten, offset) BY <1>1 DEF BotInv
<1>5. /\ forgotten \in Nat /\ offset \in Nat /\ arrived \in Nat /\ u <= arrived
      /\ arrived <= MaxUpdates /\ forgotten <= u /\ offset <= u
  BY <1>2, <1>3, <1>4, LargestType DEF BotInv, BotTypeOK
<1>6. Passed(u) = u + 1 BY <1>5, <1>3 DEF Passed, Largest
<1>7. offset' = u + 1 /\ UNCHANGED <<arrived, forgotten, handled, restarts>>
  BY <1>6 DEF Take
<1>8. \A v \in Commands : v < u => handled[v] > 0
  BY <1>1, <1>4, <1>5, <1>3 DEF BotInv, InHand, Largest
<1>9. \A v \in 1..MaxUpdates : handled[v] <= 1 + restarts /\ (v >= u => handled[v] <= restarts)
  BY <1>3, <1>5 DEF BotInv
<1>10. CASE u \in Commands
  <2>1. bot' = "command" /\ updates' = updates BY <1>10 DEF Take
  <2>2. BotTypeOK'
    <3>1. offset' \in 0..(MaxUpdates + 1) BY <1>3, <1>5, <1>7
    <3>2. UNCHANGED <<arrived, forgotten, handled, restarts, updates>> BY <1>7, <2>1
    <3> QED BY <2>1, <3>1, <3>2 DEF BotInv, BotTypeOK, BotStates
  <2> QED BY <1>2, <1>3, <1>5, <1>7, <1>8, <1>9, <2>1, <2>2 DEF BotInv, InHand
<1>11. CASE u \notin Commands
  <2>1. bot' = "work" /\ updates' = Tail(updates) BY <1>11, <1>1 DEF Take
  <2>2. BotTypeOK'
    <3>1. offset' \in 0..(MaxUpdates + 1) BY <1>3, <1>5, <1>7
    <3>2. UNCHANGED <<arrived, forgotten, handled, restarts>> BY <1>7
    <3>3. updates' \in Seq(1..MaxUpdates) BY <1>3, <2>1
    <3> QED BY <2>1, <3>1, <3>2, <3>3 DEF BotInv, BotTypeOK, BotStates
  <2>3. updates' # <<>> => Head(updates') = Largest(forgotten', offset')
    BY <1>3, <1>5, <1>7, <2>1 DEF Largest
  <2>4. \A i \in 1..Len(updates') : updates'[i] = Head(updates') + i - 1 /\ updates'[i] <= arrived
    BY <1>2, <1>3, <2>1
  <2>5. \A v \in Commands : v < u + 1 => handled[v] > 0
    BY <1>3, <1>8, <1>11
  <2>6. \A v \in 1..MaxUpdates :
          handled'[v] <= 1 + restarts' /\ (v >= offset' => handled'[v] <= restarts')
    BY <1>3, <1>7, <1>9
  <2>7. offset' <= arrived' + 1 /\ forgotten' <= arrived' + 1 BY <1>3, <1>5, <1>7
  <2>8. \A v \in Commands : v < forgotten' \/ v < offset' => handled'[v] > 0
    <3>1. forgotten' = forgotten /\ offset' = u + 1 /\ handled' = handled BY <1>7
    <3>2. u \in Nat /\ forgotten \in Nat /\ forgotten <= u BY <1>3, <1>5
    <3> HIDE DEF u
    <3> SUFFICES ASSUME NEW v \in Commands, v < forgotten' \/ v < offset' PROVE handled'[v] > 0
      OBVIOUS
    <3>3. v \in Nat BY BotBounds
    <3>4. v < u + 1 BY <3>1, <3>2, <3>3
    <3> QED BY <2>5, <3>1, <3>4
  <2>9. bot' # "command" BY <2>1
  <2> QED BY <1>7, <2>1, <2>2, <2>3, <2>4, <2>6, <2>7, <2>8, <2>9 DEF BotInv, InHand
<1> QED BY <1>10, <1>11

LEMMA CommandInv == ASSUME BotInv, Command PROVE BotInv'
<1> USE BotBounds
<1>1. /\ updates \in Seq(1..MaxUpdates) /\ updates # <<>>
      /\ \A i \in 1..Len(updates) : updates[i] = Head(updates) + i - 1
  BY DEF Command, BotInv, BotTypeOK
<1>2. Head(updates) \in 1..MaxUpdates BY <1>1, RestFacts
<1>3. /\ \A v \in 1..MaxUpdates :
           handled'[v] = IF v = Head(updates) THEN handled[v] + 1 ELSE handled[v]
      /\ handled' \in [1..MaxUpdates -> Nat]
  <2>1. /\ handled \in [1..MaxUpdates -> Nat]
        /\ handled' = [handled EXCEPT ![Head(updates)] = handled[Head(updates)] + 1]
    BY DEF Command, BotInv, BotTypeOK
  <2> HIDE DEF Command
  <2> QED BY <1>2, <2>1
<1>4. BotTypeOK' BY <1>3 DEF Command, BotInv, BotTypeOK, BotStates
<1>5. /\ bot = "command" /\ bot' = "reply"
      /\ UNCHANGED <<arrived, forgotten, offset, updates, restarts>>
  BY DEF Command
<1>6. offset = Head(updates) + 1 /\ restarts \in Nat /\ offset \in Nat
  BY <1>5 DEF BotInv, BotTypeOK
<1>7. \A v \in Commands : v < forgotten \/ v < offset => handled'[v] > 0
  BY SMTT(30), <1>2, <1>3, <1>5 DEF BotInv, InHand, BotTypeOK
<1>8. \A v \in 1..MaxUpdates :
        handled'[v] <= 1 + restarts /\ (v >= offset => handled'[v] <= restarts)
  <2> SUFFICES ASSUME NEW v \in 1..MaxUpdates
               PROVE handled'[v] <= 1 + restarts /\ (v >= offset => handled'[v] <= restarts)
    OBVIOUS
  <2>1. /\ handled[v] <= 1 + restarts /\ handled[v] \in Nat
        /\ v >= offset \/ v = Head(updates) => handled[v] <= restarts
    BY <1>5 DEF BotInv, InHand, BotTypeOK
  <2>2. v >= offset => v # Head(updates) BY <1>2, <1>6
  <2> QED BY <1>3, <1>6, <2>1, <2>2
<1> QED BY <1>4, <1>5, <1>7, <1>8 DEF BotInv, InHand

LEMMA ReplyInv == ASSUME BotInv, Reply PROVE BotInv'
<1> USE BotBounds
<1>1. /\ updates \in Seq(1..MaxUpdates) /\ updates # <<>>
      /\ \A i \in 1..Len(updates) : updates[i] = Head(updates) + i - 1 /\ updates[i] <= arrived
      /\ offset = Head(updates) + 1 /\ forgotten <= Head(updates)
      /\ forgotten \in Nat /\ offset \in Nat
  BY DEF Reply, BotInv, BotTypeOK
<1>2. /\ Head(updates) \in 1..MaxUpdates
      /\ Tail(updates) \in Seq(1..MaxUpdates)
      /\ \A i \in 1..Len(Tail(updates)) :
           i + 1 \in 1..Len(updates) /\ Tail(updates)[i] = updates[i + 1]
      /\ Tail(updates) # <<>> => Head(Tail(updates)) = Head(updates) + 1
      /\ \A i \in 1..Len(Tail(updates)) :
           Tail(updates)[i] = Head(Tail(updates)) + i - 1
  BY <1>1, RestFacts
<1>3. /\ bot = "reply" /\ bot' = "work" /\ updates' = Tail(updates)
      /\ UNCHANGED <<arrived, forgotten, offset, handled, restarts>>
  BY DEF Reply
<1>4. BotTypeOK' BY <1>2, <1>3 DEF BotInv, BotTypeOK, BotStates
<1>5. updates' # <<>> => Head(updates') = Largest(forgotten', offset')
  BY SMTT(30), <1>1, <1>2, <1>3 DEF Largest
<1>6. \A i \in 1..Len(updates') : updates'[i] = Head(updates') + i - 1 /\ updates'[i] <= arrived
  BY <1>1, <1>2, <1>3
<1> QED BY <1>3, <1>4, <1>5, <1>6 DEF BotInv, InHand

LEMMA BotStep == ASSUME BotInv, BotNext \/ BotCrash \/ UNCHANGED botVars PROVE BotInv'
<1> USE BotBounds
<1>0. <<>> \in Seq(1..MaxUpdates) /\ Len(<<>>) = 0 BY EmptySeq
<1>1. CASE Arrive
  <2>1. arrived \in Nat /\ arrived' = arrived + 1 /\ arrived' \in 0..MaxUpdates
        /\ \A i \in 1..Len(updates) : updates[i] \in Nat
    BY SMTT(30), <1>1, ElementOfSeq DEF Arrive, BotInv, BotTypeOK
  <2>2. BotTypeOK' BY <1>1, <2>1 DEF Arrive, BotInv, BotTypeOK
  <2> QED BY SMTT(30), <1>1, <2>1, <2>2 DEF Arrive, BotInv, InHand, BotTypeOK
<1>2. CASE Begin BY <1>2 DEF Begin, BotInv, BotTypeOK, BotStates, InHand
<1>3. CASE Ask BY <1>3, AskInv
<1>4. CASE Answer BY <1>4 DEF Answer, BotInv, BotTypeOK, BotStates, InHand
<1>5. CASE AskFails BY <1>0, <1>5 DEF AskFails, BotInv, BotTypeOK, BotStates, InHand
<1>6. CASE Take BY <1>6, TakeInv
<1>7. CASE Command BY <1>7, CommandInv
<1>8. CASE Reply BY <1>8, ReplyInv
<1>9. CASE AskAgain BY <1>9 DEF AskAgain, BotInv, BotTypeOK, BotStates, InHand
<1>10. CASE BotCrash
  <2>1. BotTypeOK' BY <1>0, <1>10 DEF BotCrash, BotInv, BotTypeOK, BotStates
  <2>2. \A u \in Commands : u < forgotten => handled[u] > 0 \/ InHand(u) BY DEF BotInv
  <2>3. \A u \in Commands : u < forgotten => ~InHand(u)
    BY DEF BotInv, InHand, BotTypeOK
  <2>4. \A u \in 1..MaxUpdates : handled[u] <= restarts'
    BY <1>10 DEF BotCrash, BotInv, BotTypeOK
  <2>5. \A u \in 1..MaxUpdates : handled[u] \in Nat /\ restarts \in Nat /\ restarts' = restarts + 1
    BY <1>10 DEF BotCrash, BotInv, BotTypeOK
  <2> QED BY <1>0, <1>10, <2>1, <2>2, <2>3, <2>4, <2>5 DEF BotCrash, BotInv, InHand, BotTypeOK
<1>11. CASE UNCHANGED botVars BY <1>11 DEF botVars, BotInv, BotTypeOK, InHand
<1> QED BY <1>1, <1>2, <1>3, <1>4, <1>5, <1>6, <1>7, <1>8, <1>9, <1>10, <1>11 DEF BotNext

LEMMA BotInvImplies == BotInv => BotTypeOK /\ CommandsOnce
<1> SUFFICES ASSUME BotInv PROVE CommandsOnce BY DEF BotInv
<1> SUFFICES ASSUME NEW u \in Commands
             PROVE  /\ u < forgotten => handled[u] > 0
                    /\ handled[u] <= 1 + restarts
  BY DEF CommandsOnce
<1>1. u \in 1..MaxUpdates BY BotBounds
<1>2. u < forgotten => ~InHand(u) BY <1>1 DEF BotInv, BotTypeOK
<1> QED BY <1>1, <1>2 DEF BotInv

-----------------------------------------------------------------------------
(* The notices *)

Named(n) == Entries(n.names)
Batched(c) == Entries(batch[c])

HandlersCount ==
  \A m \in Messages : /\ handler[m] = "new" => added[m] = 0
                      /\ handler[m] = "running" => added[m] < Count[m]
(* Where a name may be, and that it is nowhere else. *)
Places ==
  /\ \A c \in Chats : \A x \in Batched(c) : x \in Added /\ ChatOf[x[1]] = c /\ x \notin over
  /\ \A n \in notices : \A x \in Named(n) : x \in Added /\ x \notin over
  /\ \A n \in notices : \A c \in Chats : \A x \in Named(n) : x \notin Batched(c)
  /\ \A n \in notices : \A o \in notices : n # o => \A x \in Named(n) : x \notin Named(o)
  /\ over \subseteq Added
Somewhere ==
  crashes = 0 => \A x \in Added : Waits(x) \/ Travels(x) \/ x \in over
FirstOfBatch == \A c \in Chats : batch[c] # <<>> => first[c] = Head(batch[c])[1]
(* What the chat has been told of a name, by where the name is. *)
Told ==
  /\ \A x \in AllItems : delivered[x] <= 1 + losses
  /\ \A x \in AllItems \ Added : delivered[x] = 0
  /\ \A c \in Chats : \A x \in Batched(c) : delivered[x] = 0
  /\ \A n \in notices : \A x \in Named(n) : delivered[x] <= losses

NoticesInv ==
  /\ NoticesTypeOK /\ HandlersCount
  /\ Places /\ Somewhere
  /\ FirstOfBatch /\ TimersTick /\ RepliesToItsFirst
  /\ Told

LEMMA CountType ==
  /\ \A m \in Messages : Count[m] \in Nat /\ Count[m] > 0
  /\ \A m \in Messages : ChatOf[m] \in Chats
  /\ MaxLosses \in Nat /\ MaxCrashes \in Nat
BY CountAssumption, ChatAssumption, NoticeLimits

LEMMA ItemFacts ==
  /\ \A m \in Messages : \A i \in 1..Count[m] : <<m, i>> \in AllItems
  /\ \A x \in AllItems : /\ x[1] \in Messages /\ x[2] \in 1..Count[x[1]]
                         /\ x = <<x[1], x[2]>>
BY DEF AllItems

LEMMA EntriesFacts ==
  ASSUME NEW S, NEW s \in Seq(S), NEW x \in S
  PROVE  /\ Entries(s) \subseteq S
         /\ s # <<>> => Head(s) \in Entries(s)
         /\ Entries(Append(s, x)) = Entries(s) \cup {x}
         /\ Append(s, x) \in Seq(S) /\ Append(s, x) # <<>>
         /\ Head(Append(s, x)) = IF s = <<>> THEN x ELSE Head(s)
<1> DEFINE a == Append(s, x)
<1>1. /\ Len(s) \in Nat /\ Len(a) = Len(s) + 1 /\ a \in Seq(S)
      /\ \A i \in 1..Len(s) : a[i] = s[i]
      /\ a[Len(s) + 1] = x
  OBVIOUS
<1>2. Entries(s) \subseteq S BY ElementOfSeq DEF Entries
<1>3. s # <<>> => Len(s) > 0 /\ Head(s) = s[1] /\ 1 \in 1..Len(s)
  BY EmptySeq
<1>4. s # <<>> => Head(s) \in Entries(s) BY <1>3 DEF Entries
<1>5. Entries(a) = Entries(s) \cup {x}
  <2>1. Entries(s) \subseteq Entries(a) BY <1>1 DEF Entries
  <2>2. x \in Entries(a) BY <1>1 DEF Entries
  <2>3. ASSUME NEW y \in Entries(a) PROVE y \in Entries(s) \cup {x}
    <3>1. PICK i \in 1..Len(a) : y = a[i] BY DEF Entries
    <3>2. CASE i = Len(s) + 1 BY <1>1, <3>1, <3>2
    <3>3. CASE i # Len(s) + 1
      <4>1. i \in 1..Len(s) BY <1>1, <3>3
      <4> QED BY <1>1, <3>1, <4>1 DEF Entries
    <3> QED BY <3>2, <3>3
  <2> QED BY <2>1, <2>2, <2>3
<1>6. a # <<>> BY <1>1, EmptySeq
<1>7. Head(a) = a[1] BY <1>1
<1>8. s = <<>> => Len(s) = 0 BY EmptySeq
<1>9. Head(a) = IF s = <<>> THEN x ELSE Head(s) BY <1>1, <1>3, <1>7, <1>8
<1> QED BY <1>1, <1>2, <1>4, <1>5, <1>6, <1>9

LEMMA NothingEntered == Entries(<<>>) = {}
BY EmptySeq DEF Entries

LEMMA NoticesInitInv == NoticesInit => NoticesInv
<1> SUFFICES ASSUME NoticesInit PROVE NoticesInv OBVIOUS
<1> USE CountType, NothingEntered DEF NoticesInit
<1>1. <<>> \in Seq(AllItems) BY EmptySeq
<1>2. Added = {} BY ItemFacts DEF Added
<1>3. NoticesTypeOK BY <1>1 DEF NoticesTypeOK, TimerStates
<1>4. HandlersCount /\ Places /\ Somewhere
  BY <1>2 DEF HandlersCount, Places, Somewhere, Batched, Named
<1>5. FirstOfBatch /\ TimersTick /\ RepliesToItsFirst /\ Told
  BY <1>2 DEF FirstOfBatch, TimersTick, RepliesToItsFirst, Told, Batched
<1> QED BY <1>3, <1>4, <1>5 DEF NoticesInv

(* A step that leaves names where they are. *)
LEMMA StillInv ==
  ASSUME NoticesInv, NoticesTypeOK', HandlersCount', TimersTick',
         UNCHANGED <<added, batch, first, notices, over, delivered, losses, crashes>>
  PROVE  NoticesInv'
BY DEF NoticesInv, Places, Somewhere, FirstOfBatch, RepliesToItsFirst, Told, Added, Batched,
       Named, Waits, Travels

LEMMA QuietInv ==
  ASSUME NoticesInv,
         \/ \E m \in Messages : Receive(m) \/ CreateFails(m)
         \/ \E c \in Chats : Elapse(c)
         \/ UNCHANGED noticeVars
  PROVE  NoticesInv'
<1> USE CountType DEF NoticesInv, NoticesTypeOK, HandlersCount, TimersTick, batchVars
<1>1. ASSUME NEW m \in Messages, Receive(m) PROVE NoticesInv'
  BY <1>1, StillInv DEF Receive
<1>2. ASSUME NEW m \in Messages, CreateFails(m) PROVE NoticesInv'
  BY <1>2, StillInv DEF CreateFails
<1>3. ASSUME NEW c \in Chats, Elapse(c) PROVE NoticesInv'
  BY <1>3, StillInv DEF Elapse, TimerStates
<1>4. CASE UNCHANGED noticeVars BY <1>4, StillInv DEF noticeVars
<1> QED BY <1>1, <1>2, <1>3, <1>4

(* A new name goes to the end of the batch of its chat, and nowhere else. *)
LEMMA CreateInv == ASSUME NoticesInv, NEW m \in Messages, Create(m) PROVE NoticesInv'
<1> DEFINE c == ChatOf[m]
<1> USE CountType
<1>0. PICK k : k = added[m] + 1 OBVIOUS
<1>1. /\ c \in Chats /\ k \in 1..Count[m] /\ added[m] \in Nat /\ handler[m] = "running"
      /\ batch \in [Chats -> Seq(AllItems)] /\ first \in [Chats -> Messages \cup {NoMessage}]
      /\ timer \in [Chats -> TimerStates]
      /\ delivered \in [AllItems -> Nat]
  BY <1>0 DEF Create, NoticesInv, NoticesTypeOK, HandlersCount
<1>2. PICK x \in AllItems : x = <<m, k>> /\ x[1] = m /\ x[2] = k BY <1>1, ItemFacts
<1>3. /\ added' = [added EXCEPT ![m] = k] /\ added'[m] = k
      /\ handler' = [handler EXCEPT ![m] = IF k = Count[m] THEN "ended" ELSE @]
      /\ batch' = [batch EXCEPT ![c] = Append(batch[c], x)]
      /\ first' = [first EXCEPT ![c] = IF batch[c] = <<>> THEN m ELSE first[c]]
      /\ timer' = [timer EXCEPT ![c] = "sleeping"]
      /\ UNCHANGED <<notices, over, delivered, losses, crashes>>
  BY <1>0, <1>1, <1>2 DEF Create, NotifyEnqueued, RepliesTo, Restarted, NoticesInv, NoticesTypeOK
<1>4. x \notin Added /\ Added' = Added \cup {x}
  <2>1. \A y \in AllItems : y[1] \in Messages /\ y = <<y[1], y[2]>> /\ y[2] \in Nat
    BY ItemFacts
  <2>2. \A y \in AllItems : y[2] <= added'[y[1]] <=> y[2] <= added[y[1]] \/ y = x
    <3> SUFFICES ASSUME NEW y \in AllItems
                 PROVE  y[2] <= added'[y[1]] <=> y[2] <= added[y[1]] \/ y = x
      OBVIOUS
    <3>1. CASE y[1] = m
      <4>1. added'[y[1]] = k /\ added[y[1]] = added[m] BY <1>3, <3>1
      <4>2. y = x <=> y[2] = k BY <1>2, <2>1, <3>1
      <4> QED BY <1>0, <1>1, <2>1, <4>1, <4>2
    <3>2. CASE y[1] # m
      <4>1. added'[y[1]] = added[y[1]] BY <1>1, <1>3, <2>1, <3>2 DEF NoticesInv, NoticesTypeOK
      <4>2. y # x BY <1>2, <3>2
      <4> QED BY <4>1, <4>2
    <3> QED BY <3>1, <3>2
  <2>3. x \notin Added BY <1>0, <1>1, <1>2 DEF Added
  <2> QED BY <1>2, <2>2, <2>3 DEF Added
<1>5. /\ batch[c] \in Seq(AllItems)
      /\ Entries(batch'[c]) = Entries(batch[c]) \cup {x}
      /\ batch'[c] \in Seq(AllItems) /\ batch'[c] # <<>>
      /\ Head(batch'[c]) = IF batch[c] = <<>> THEN x ELSE Head(batch[c])
  <2>1. batch[c] \in Seq(AllItems) /\ batch'[c] = Append(batch[c], x) BY <1>1, <1>3
  <2> QED BY <1>2, <2>1, EntriesFacts
<1>6. \A d \in Chats : d # c => batch'[d] = batch[d] /\ first'[d] = first[d] /\ timer'[d] = timer[d]
  BY <1>1, <1>3
<1> HIDE DEF c
<1>7. NoticesTypeOK'
  BY <1>1, <1>3, <1>5 DEF NoticesInv, NoticesTypeOK, TimerStates
<1>8. HandlersCount'
  BY <1>1, <1>3, <1>7 DEF NoticesInv, NoticesTypeOK, HandlersCount
<1>9. Places'
  <2>1. \A n \in notices : x \notin Named(n) BY <1>4 DEF NoticesInv, Places
  <2>2. x \notin over BY <1>4 DEF NoticesInv, Places
  <2>3. \A d \in Chats : \A y \in Batched(d)' : y \in Batched(d) \/ (d = c /\ y = x)
    BY <1>5, <1>6 DEF Batched
  <2>4. \A n \in notices : Named(n)' = Named(n) BY <1>3 DEF Named
  <2>5. ChatOf[x[1]] = c BY <1>2 DEF c
  <2>6. x \notin Added BY <1>4
  <2> QED BY <1>3, <1>4, <2>1, <2>2, <2>3, <2>4, <2>5, <2>6 DEF NoticesInv, Places
<1>10. Somewhere'
  <2>1. \A y : Waits(y) => Waits(y)'
    BY <1>1, <1>5, <1>6 DEF Waits
  <2>2. Waits(x)' BY <1>1, <1>5 DEF Waits
  <2>3. \A y : Travels(y) => Travels(y)' BY <1>3 DEF Travels
  <2> QED BY <1>3, <1>4, <2>1, <2>2, <2>3 DEF NoticesInv, Somewhere
<1>11. FirstOfBatch'
  BY <1>1, <1>2, <1>3, <1>5, <1>6 DEF NoticesInv, FirstOfBatch
<1>12. TimersTick' BY <1>1, <1>3, <1>5, <1>6 DEF NoticesInv, TimersTick
<1>13. RepliesToItsFirst' BY <1>3 DEF NoticesInv, RepliesToItsFirst
<1>14. Told'
  <2>1. delivered[x] = 0 BY <1>2, <1>4 DEF NoticesInv, Told
  <2>2. \A d \in Chats : \A y \in Batched(d)' : y \in Batched(d) \/ y = x
    BY <1>5, <1>6 DEF Batched
  <2> QED BY <1>3, <1>4, <2>1, <2>2 DEF NoticesInv, Told, Named, Batched
<1> QED BY <1>7, <1>8, <1>9, <1>10, <1>11, <1>12, <1>13, <1>14 DEF NoticesInv

(* The batch becomes a notice. *)
LEMMA FlushInv == ASSUME NoticesInv, NEW c \in Chats, Flush(c) PROVE NoticesInv'
<1> DEFINE new == [names |-> batch[c], to |-> first[c], at |-> "mode"]
<1>1. /\ batch[c] \in Seq(AllItems) /\ batch[c] # <<>>
      /\ batch \in [Chats -> Seq(AllItems)] /\ first \in [Chats -> Messages \cup {NoMessage}]
      /\ timer \in [Chats -> TimerStates]
      /\ first[c] = Head(batch[c])[1]
  BY DEF Flush, NoticesInv, NoticesTypeOK, TimersTick, FirstOfBatch
<1>2. Head(batch[c]) \in Entries(batch[c]) /\ Entries(batch[c]) \subseteq AllItems
  <2>1. Head(batch[c]) \in AllItems BY <1>1, HeadTailProperties
  <2> QED BY <1>1, <2>1, EntriesFacts
<1>3. first[c] \in Messages BY <1>1, <1>2, ItemFacts
<1>4. /\ batch' = [batch EXCEPT ![c] = <<>>] /\ first' = [first EXCEPT ![c] = NoMessage]
      /\ timer' = [timer EXCEPT ![c] = "none"] /\ notices' = notices \cup {new}
      /\ UNCHANGED <<handler, added, over, delivered, losses, crashes>>
  BY DEF Flush, Popped
<1>5. /\ Entries(batch'[c]) = {} /\ batch'[c] = <<>>
      /\ \A d \in Chats : d # c => batch'[d] = batch[d] /\ first'[d] = first[d] /\ timer'[d] = timer[d]
  BY <1>1, <1>4, NothingEntered
<1>6. /\ Named(new) = Batched(c) /\ new.names = batch[c] /\ new.to = first[c] /\ new.at = "mode"
  BY DEF Named, Batched
<1> HIDE DEF new
<1>7. NoticesTypeOK'
  <2>1. <<>> \in Seq(AllItems) BY EmptySeq
  <2> QED BY <1>1, <1>3, <1>4, <1>6, <2>1 DEF NoticesInv, NoticesTypeOK, TimerStates, Routes
<1>8. HandlersCount' BY <1>4 DEF NoticesInv, HandlersCount
<1>9. \A d \in Chats : \A y \in Batched(d)' : d # c /\ y \in Batched(d)
  BY <1>5 DEF Batched
<1>10. \A y \in Batched(c) : \A d \in Chats : d # c => y \notin Batched(d)
  BY DEF NoticesInv, Places
<1>11. \A n : Named(n)' = Named(n) BY DEF Named
<1>12. Added' = Added BY <1>4 DEF Added
<1>13. Places'
  BY <1>4, <1>6, <1>9, <1>10, <1>12 DEF NoticesInv, Places, Named
<1>14. Somewhere'
  <2>1. \A y : Waits(y) => Waits(y)' \/ Travels(y)'
    BY <1>4, <1>5, <1>6 DEF Waits, Travels
  <2>2. \A y : Travels(y) => Travels(y)' BY <1>4 DEF Travels
  <2> QED BY <1>4, <1>12, <2>1, <2>2 DEF NoticesInv, Somewhere
<1>15. FirstOfBatch' BY <1>5 DEF NoticesInv, FirstOfBatch
<1>16. TimersTick' BY <1>1, <1>4, <1>5 DEF NoticesInv, TimersTick
<1>17. RepliesToItsFirst' BY <1>1, <1>4, <1>6 DEF NoticesInv, RepliesToItsFirst
<1>18. Told'
  <2>1. \A y \in Batched(c) : delivered[y] <= losses
    BY DEF NoticesInv, Told, NoticesTypeOK
  <2> QED BY <1>4, <1>6, <1>9, <1>12, <2>1 DEF NoticesInv, Told, Named
<1> QED BY <1>7, <1>8, <1>13, <1>14, <1>15, <1>16, <1>17, <1>18 DEF NoticesInv

(* A notice that goes on to another route, or ends: its names keep together, and
   an answer that is lost is what may be told of them once more. *)
LEMMA SentInv ==
  ASSUME NoticesInv, NEW n \in notices, NEW route \in Routes,
         UNCHANGED <<handler, added, batchVars, crashes>>,
         losses' \in Nat, losses <= losses',
         delivered' \in [AllItems -> Nat],
         \A x \in AllItems : x \notin Named(n) => delivered'[x] = delivered[x],
         \/ MovesOn(n, route) /\ \A x \in Named(n) : delivered'[x] <= losses'
         \/ Ends(n) /\ \A x \in Named(n) : delivered'[x] <= 1 + losses'
  PROVE  NoticesInv'
<1> PICK o : o = [n EXCEPT !.at = route] OBVIOUS
<1>1. /\ n.names \in Seq(AllItems) \ {<<>>} /\ n.to \in Messages /\ n.at \in Routes
      /\ losses \in Nat /\ n.to = Head(n.names)[1]
  BY DEF NoticesInv, NoticesTypeOK, RepliesToItsFirst
<1>2. Named(n) \subseteq Added /\ Added \subseteq AllItems BY DEF NoticesInv, Places, Added
<1>3. /\ Added' = Added /\ \A c : Batched(c)' = Batched(c)
      /\ batch' = batch /\ first' = first /\ timer' = timer
  BY DEF Added, Batched, batchVars
<1>4. \A x : Waits(x)' <=> Waits(x) BY <1>3 DEF Waits
<1>5. HandlersCount' /\ FirstOfBatch' /\ TimersTick'
  BY <1>3 DEF NoticesInv, HandlersCount, FirstOfBatch, TimersTick
<1>6. /\ \A x \in AllItems \ Added : delivered'[x] = 0
      /\ \A c \in Chats : \A x \in Batched(c) : delivered'[x] = 0
      /\ \A p \in notices : p # n => \A x \in Named(p) : delivered'[x] <= losses'
      /\ \A x \in AllItems : delivered'[x] <= 1 + losses'
  <2>1. \A c \in Chats : \A x \in Batched(c) : x \in AllItems /\ x \notin Named(n)
    BY <1>2 DEF NoticesInv, Places
  <2>2. \A p \in notices : p # n => \A x \in Named(p) : x \in AllItems /\ x \notin Named(n)
    BY <1>2 DEF NoticesInv, Places
  <2>3. \A x \in AllItems : delivered[x] \in Nat BY DEF NoticesInv, NoticesTypeOK
  <2>4. \A x \in AllItems \ Added : delivered'[x] = 0
    BY <1>2 DEF NoticesInv, Told
  <2>5. \A c \in Chats : \A x \in Batched(c) : delivered'[x] = 0
    BY <2>1 DEF NoticesInv, Told
  <2>6. ASSUME NEW p \in notices, p # n, NEW x \in Named(p) PROVE delivered'[x] <= losses'
    <3>1. delivered'[x] = delivered[x] /\ delivered[x] <= losses /\ delivered[x] \in Nat
      BY <2>2, <2>3, <2>6 DEF NoticesInv, Told
    <3> QED BY <1>1, <3>1
  <2>7. ASSUME NEW x \in AllItems PROVE delivered'[x] <= 1 + losses'
    <3>1. CASE x \in Named(n)
      <4>1. delivered'[x] \in Nat OBVIOUS
      <4>2. delivered'[x] <= losses' \/ delivered'[x] <= 1 + losses' BY <3>1
      <4> QED BY <4>1, <4>2
    <3>2. CASE x \notin Named(n)
      <4>1. delivered'[x] = delivered[x] /\ delivered[x] <= 1 + losses /\ delivered[x] \in Nat
        BY <2>3, <3>2 DEF NoticesInv, Told
      <4> QED BY <1>1, <4>1
    <3> QED BY <3>1, <3>2
  <2> QED BY <2>4, <2>5, <2>6, <2>7
<1>7. CASE MovesOn(n, route) /\ \A x \in Named(n) : delivered'[x] <= losses'
  <2>1. notices' = (notices \ {n}) \cup {o} /\ over' = over BY <1>7 DEF MovesOn
  <2>2. o.names = n.names /\ o.to = n.to /\ o.at = route /\ Named(o) = Named(n)
    BY <1>1 DEF NoticesInv, NoticesTypeOK, Named
  <2>3. NoticesTypeOK'
    <3>1. \A p \in notices' : /\ p.names \in Seq(AllItems) \ {<<>>}
                              /\ p.to \in Messages /\ p.at \in Routes
      BY <1>1, <2>1, <2>2 DEF NoticesInv, NoticesTypeOK
    <3> QED BY <1>3, <2>1, <3>1 DEF NoticesInv, NoticesTypeOK
  <2>4. Places'
    <3>1. \A p : Named(p)' = Named(p) BY DEF Named
    <3>2. \A p \in notices' : (p \in notices /\ p # n) \/ p = o BY <2>1
    <3>3. \A p \in notices : p # n => \A x \in Named(p) : x \notin Named(n)
      BY DEF NoticesInv, Places
    <3>4. \A p \in notices' : \A x \in Named(p) :
            x \in Added /\ x \notin over /\ \A c \in Chats : x \notin Batched(c)
      BY <2>2, <3>2 DEF NoticesInv, Places
    <3>5. \A p \in notices' : \A q \in notices' :
            p # q => \A x \in Named(p) : x \notin Named(q)
      BY <2>2, <3>2, <3>3 DEF NoticesInv, Places
    <3> QED BY <1>3, <2>1, <3>1, <3>4, <3>5 DEF NoticesInv, Places
  <2>5. \A x : Travels(x) => Travels(x)' BY <2>1, <2>2 DEF Travels, Named
  <2>6. Somewhere' BY <1>3, <1>4, <2>1, <2>5 DEF NoticesInv, Somewhere
  <2>7. RepliesToItsFirst' BY <1>1, <2>1, <2>2 DEF NoticesInv, RepliesToItsFirst
  <2>8. Told' BY <1>3, <1>6, <1>7, <2>1, <2>2 DEF Told, Named, Batched
  <2> QED BY <1>5, <2>3, <2>4, <2>6, <2>7, <2>8 DEF NoticesInv
<1>8. CASE Ends(n)
  <2>1. notices' = notices \ {n} /\ over' = over \cup Named(n) BY <1>8 DEF Ends, Named
  <2>2. NoticesTypeOK'
    <3>1. over' \subseteq AllItems BY <1>2, <2>1 DEF NoticesInv, NoticesTypeOK
    <3> QED BY <1>3, <2>1, <3>1 DEF NoticesInv, NoticesTypeOK
  <2>3. Places'
    BY <1>2, <1>3, <2>1 DEF NoticesInv, Places, Named, Batched
  <2>4. \A x : Travels(x) => Travels(x)' \/ x \in over' BY <2>1 DEF Travels, Named
  <2>5. Somewhere' BY <1>3, <1>4, <2>1, <2>4 DEF NoticesInv, Somewhere
  <2>6. RepliesToItsFirst' BY <2>1 DEF NoticesInv, RepliesToItsFirst
  <2>7. Told' BY <1>3, <1>6, <2>1 DEF Told, Named, Batched
  <2> QED BY <1>5, <2>2, <2>3, <2>5, <2>6, <2>7 DEF NoticesInv
<1> QED BY <1>7, <1>8

LEMMA FallsBackFacts ==
  ASSUME NEW n, FallsBack(n), Sending(n)
  PROVE  Ends(n) \/ \E route \in Routes : MovesOn(n, route)
BY DEF FallsBack, Sending, Routes

LEMMA SendInv ==
  ASSUME NoticesInv, SendStep \/ \E n \in notices : GetClient(n) PROVE NoticesInv'
<1> PICK n \in notices :
       ReadMode(n) \/ GetClient(n) \/ Send(n) \/ SendRefused(n) \/ AnswerLost(n)
  BY DEF SendStep
<1>1. /\ delivered \in [AllItems -> Nat] /\ losses \in Nat
      /\ \A x \in Named(n) : x \in AllItems /\ delivered[x] <= losses /\ delivered[x] \in Nat
  BY DEF NoticesInv, NoticesTypeOK, Told, Places, Added
<1>2. UNCHANGED <<handler, added, batchVars, crashes>>
  BY DEF ReadMode, GetClient, Send, SendRefused, AnswerLost
<1>3. Ends(n) \/ \E route \in Routes : MovesOn(n, route)
  BY FallsBackFacts
  DEF ReadMode, GetClient, Send, SendRefused, AnswerLost, Succeeds, Routes
<1>4. CASE UNCHANGED <<delivered, losses>>
  <2>1. \A x \in Named(n) : delivered'[x] <= losses' /\ delivered'[x] <= 1 + losses'
    BY <1>1, <1>4
  <2>2. "mode" \in Routes BY DEF Routes
  <2>3. CASE Ends(n) BY <1>1, <1>2, <1>4, <2>1, <2>2, <2>3, SentInv
  <2>4. ASSUME NEW route \in Routes, MovesOn(n, route) PROVE NoticesInv'
    BY <1>1, <1>2, <1>4, <2>1, <2>4, SentInv
  <2> QED BY <1>3, <2>3, <2>4
<1>5. CASE Reaches(n)
  <2>1. /\ delivered' \in [AllItems -> Nat]
        /\ \A x \in AllItems : x \notin Named(n) => delivered'[x] = delivered[x]
        /\ \A x \in Named(n) : delivered'[x] = delivered[x] + 1
    BY <1>1, <1>5 DEF Reaches, Named
  <2>2. "mode" \in Routes BY DEF Routes
  <2>3. CASE Send(n)
    <3>1. Ends(n) /\ losses' = losses BY <2>3 DEF Send, Succeeds
    <3>2. \A x \in Named(n) : delivered'[x] <= 1 + losses' BY <1>1, <2>1, <3>1
    <3> QED BY <1>1, <1>2, <2>1, <2>2, <3>1, <3>2, SentInv
  <2>4. CASE AnswerLost(n)
    <3>1. losses' = losses + 1 BY <2>4 DEF AnswerLost
    <3>2. \A x \in Named(n) : delivered'[x] <= losses' /\ delivered'[x] <= 1 + losses'
      BY <1>1, <2>1, <3>1
    <3>3. losses' \in Nat /\ losses <= losses' BY <1>1, <3>1
    <3>4. CASE Ends(n) BY <1>2, <2>1, <2>2, <3>2, <3>3, <3>4, SentInv
    <3>5. ASSUME NEW route \in Routes, MovesOn(n, route) PROVE NoticesInv'
      BY <1>2, <2>1, <3>2, <3>3, <3>5, SentInv
    <3> QED BY <1>3, <3>4, <3>5
  <2>5. CASE ~Send(n) /\ ~AnswerLost(n)
    BY <1>4, <2>5 DEF ReadMode, GetClient, SendRefused
  <2> QED BY <2>3, <2>4, <2>5
<1> QED BY <1>4, <1>5 DEF ReadMode, GetClient, Send, SendRefused, AnswerLost

(* A crash forgets what is on its way. *)
LEMMA CrashInv == ASSUME NoticesInv, NoticesCrash PROVE NoticesInv'
<1> USE NothingEntered, CountType DEF NoticesCrash
<1>1. <<>> \in Seq(AllItems) BY EmptySeq
<1>2. Added' = Added BY DEF Added
<1>3. crashes \in Nat BY DEF NoticesInv, NoticesTypeOK
<1>4. NoticesTypeOK'
  <2>1. handler' \in [Messages -> {"new", "running", "ended"}] BY DEF NoticesInv, NoticesTypeOK
  <2>2. /\ batch' \in [Chats -> Seq(AllItems)] /\ first' \in [Chats -> Messages \cup {NoMessage}]
        /\ timer' \in [Chats -> TimerStates]
    BY <1>1 DEF TimerStates
  <2> QED BY <1>3, <2>1, <2>2 DEF NoticesInv, NoticesTypeOK
<1>5. HandlersCount' BY DEF NoticesInv, HandlersCount, NoticesTypeOK
<1>6. Places' BY <1>2 DEF NoticesInv, Places, Batched
<1>7. Somewhere' BY <1>3 DEF Somewhere
<1>8. FirstOfBatch' /\ TimersTick' /\ RepliesToItsFirst'
  BY DEF FirstOfBatch, TimersTick, RepliesToItsFirst
<1>9. Told' BY <1>2 DEF NoticesInv, Told, Batched
<1> QED BY <1>4, <1>5, <1>6, <1>7, <1>8, <1>9 DEF NoticesInv

LEMMA NoticesStep ==
  ASSUME NoticesInv, NoticesNext \/ NoticesCrash \/ UNCHANGED noticeVars PROVE NoticesInv'
<1>1. ASSUME NEW m \in Messages, Receive(m) \/ HandlerStep(m) PROVE NoticesInv'
  BY <1>1, QuietInv, CreateInv DEF HandlerStep
<1>2. ASSUME NEW c \in Chats, FlushStep(c) PROVE NoticesInv'
  BY <1>2, QuietInv, FlushInv DEF FlushStep
<1>3. CASE SendStep \/ \E n \in notices : GetClient(n) BY <1>3, SendInv
<1>4. CASE NoticesCrash BY <1>4, CrashInv
<1>5. CASE UNCHANGED noticeVars BY <1>5, QuietInv
<1> QED BY <1>1, <1>2, <1>3, <1>4, <1>5 DEF NoticesNext

LEMMA NoticesInvImplies == NoticesInv => NoticesTypeOK /\ NothingDropped /\ ToldOnce
<1> SUFFICES ASSUME NoticesInv PROVE InOnePlace /\ ToldOnce
  BY DEF NoticesInv, NothingDropped
<1>1. \A x \in AllItems : ~(Waits(x) /\ Travels(x)) /\ ~(Travels(x) /\ x \in over)
  BY DEF NoticesInv, Places, Waits, Travels, Named, Batched
<1>2. \A n, o \in notices : n # o => Entries(n.names) \cap Entries(o.names) = {}
  BY DEF NoticesInv, Places, Named
<1> QED BY <1>1, <1>2 DEF InOnePlace, NoticesInv, Somewhere, Told, ToldOnce

-----------------------------------------------------------------------------
(* Both services together *)

ChatInv == NoticesInv /\ BotInv

LEMMA ChatInductive ==
  /\ ChatInit => ChatInv
  /\ ChatInv /\ [ChatNext]_chatVars => ChatInv'
<1>1. ChatInit => ChatInv BY NoticesInitInv, BotInitInv DEF ChatInit, ChatInv
<1>2. ASSUME ChatInv, [ChatNext]_chatVars PROVE ChatInv'
  <2>1. NoticesNext \/ NoticesCrash \/ UNCHANGED noticeVars BY <1>2 DEF ChatNext, chatVars
  <2>2. BotNext \/ BotCrash \/ UNCHANGED botVars BY <1>2 DEF ChatNext, chatVars
  <2> QED BY <1>2, <2>1, <2>2, NoticesStep, BotStep DEF ChatInv
<1> QED BY <1>1, <1>2

(* Type correctness of both services. *)
THEOREM ChatTypeCorrect == ChatSafety => []ChatTypeOK
<1>1. ChatInv => ChatTypeOK BY NoticesInvImplies, BotInvImplies DEF ChatInv, ChatTypeOK
<1> QED BY <1>1, ChatInductive, PTL DEF ChatSafety

(* No name is dropped between handlers, timers, flushes and routes, and none is
   in two places. *)
THEOREM NamesAreKept == ChatSafety => []NothingDropped
<1>1. ChatInv => NothingDropped BY NoticesInvImplies DEF ChatInv
<1> QED BY <1>1, ChatInductive, PTL DEF ChatSafety

(* Only a lost answer lets the chat be told twice. *)
THEOREM ChatIsToldOnce == ChatSafety => []ToldOnce
<1>1. ChatInv => ToldOnce BY NoticesInvImplies DEF ChatInv
<1> QED BY <1>1, ChatInductive, PTL DEF ChatSafety

(* Telegram forgets no command that was not carried out, and only a crash repeats
   one. *)
THEOREM CommandsAreKept == ChatSafety => []CommandsOnce
<1>1. ChatInv => CommandsOnce BY BotInvImplies DEF ChatInv
<1> QED BY <1>1, ChatInductive, PTL DEF ChatSafety
=============================================================================
