--------------------------- MODULE LoginFlowProofs ---------------------------
(***************************************************************************)
(* The results about logging in, for any number of requests, attempts,     *)
(* client objects, retries and events.  None of them is inductive:         *)
(*                                                                         *)
(*   - that a sign-in promotes its own file rests on whose file stays in   *)
(*     place while requests wait for Telegram (OwnFile);                   *)
(*   - that the listener has one client and one loop rests on what a start *)
(*     and a stop still under way hold (OneClient);                        *)
(*   - that a logout is final rests on nothing under way being able to     *)
(*     bring a login back (Forgotten), and on who may have left a client   *)
(*     connected (Halves).                                                 *)
(*                                                                         *)
(* That the steps of a request run out needs no invariant but the types.   *)
(***************************************************************************)
EXTENDS LoginFlow, FiniteSetTheorems, TLAPS

-----------------------------------------------------------------------------
(* Requests and what they may hold where they are. *)
Asking == {"asked", "greeting", "leaving"}
Clearing == {q \in Requests : req[q].pc = "clearing"}

Shape(q, x) ==
  /\ x.pc \in StartSteps \cup {"stopping", "asking"} => x.at \in Clients
  /\ x.pc \in {"fallback", "probing"} => x.at \in Sessions
  /\ x.pc \in Asking => x.at \in Attempts
  /\ x.pc \in Asking \cup {"fallback"} => x.op \in SignsIn
  /\ x.pc \in {"clearing", "sending"} => x.op = "send"
  /\ x.pc = "parting" => x.op = "logout"
  /\ x.pc \in {"asking", "probing"} => x.op = "status"
  /\ x.pc = "idle" <=> x.op = "none"
  /\ x.pc # "idle" /\ q \notin Requests => x.op = "boot"
  /\ x.pc \in StartSteps => x.op \in SignsIn \cup {"config", "boot"}
  /\ x.pc = "stopping" => x.op \in SignsIn \cup {"logout", "status"}
  /\ x.alone => x.op = "logout"
Shapes ==
  \A q \in Procs :
    /\ Shape(q, req[q])
    /\ HoldsClient(q) => listener.cur \in Clients
    /\ req[q].pc = "sending" => req[q].at \in 1..codes
    /\ req[q].alone => \A p \in Procs \ {q} : req[p].pc = "idle"
Ops == SignsIn \cup {"none", "send", "logout", "status", "config", "boot"}
Record == [op : Ops, pc : Pcs, at : Sessions \cup Clients, saw : Sessions,
           tries : 0..MaxRetries, alone : BOOLEAN]

(* TypeOK, and what else its steps rest on. *)
Values ==
  /\ main \in Sessions /\ auth \in 0..codes
  /\ passed \subseteq Attempts /\ revoked \subseteq signed /\ signed \subseteq 1..codes
  /\ codes \in 0..MaxCodes
  /\ state \in [client : 0..codes, needs_2fa : BOOLEAN, logged_in : BOOLEAN]
  /\ live \subseteq 1..codes
  /\ listener \in [cur : Clients \cup {None}, loops : Nat, ref : BOOLEAN]
  /\ listener.ref => listener.loops > 0
  /\ link \in [Clients -> {"off", "half", "on"}]
  /\ uses \in [Clients -> Sessions]
  /\ string \in signed \cup {None}
  /\ crossed \in BOOLEAN /\ raced \in BOOLEAN /\ left \in BOOLEAN /\ gone \in BOOLEAN
LoginTypes ==
  /\ Values /\ Shapes /\ req \in [Procs -> Record]
  /\ codes + Cardinality(Clearing) <= MaxCodes

-----------------------------------------------------------------------------
(* Whose file is where, unless a send-code overlapped another request. *)
Sends(q) == req[q].op = "send"
Signs(q) == req[q].op \in SignsIn
OwnFile ==
  ~crossed =>
    /\ \A p \in Procs : \A q \in Procs :
         Sends(q) /\ (Signs(p) \/ Sends(p)) => p = q
    /\ state.client \in live => auth \in {None, state.client}
    /\ \A q \in Procs :
         /\ Sends(q) => state.client \notin live
         /\ req[q].pc = "sending" => auth \in {None, req[q].at}
         /\ req[q].pc = "asked" =>
              /\ state.client \in {None, req[q].at}
              /\ req[q].at \in live => auth \in {None, req[q].at}
         /\ req[q].pc \in {"greeting", "leaving"} => auth \in {None, req[q].saw}

(* One start at a time holds the one client; a stop finds the one loop. *)
Silent == listener.loops = 0 /\ ~listener.ref
OneClient ==
  ~raced =>
    /\ \A k \in Clients : link[k] # "off" => k = listener.cur
    /\ listener.loops = IF listener.ref THEN 1 ELSE 0
    /\ listener.cur = None \/ link[listener.cur] = "off" => Silent
    /\ \A q \in Procs :
         Starting(q) =>
           /\ req[q].at = listener.cur /\ Silent
           /\ \A p \in Procs : Starting(p) => p = q
           /\ \A p \in Procs : req[p].pc = "stopping" => req[p].at # req[q].at
    /\ \A q \in Procs : req[q].pc = "stopping" /\ link[req[q].at] = "on" => Silent

(* A client is half connected because a start is at it, or was left with it. *)
Halves ==
  left \/ \A k \in Clients :
            link[k] = "half" => \E q \in Procs : req[q].pc = "half" /\ req[q].at = k

(* After a logout nothing under way is about a login; a logout that has been alone
   so far finds the client it stops, or nothing to stop. *)
Forgets(s) == s \notin signed
Bare(q) ==
  /\ req[q].pc \notin {"greeting", "leaving", "fallback", "naming"} \/ left
  /\ Signs(q) => req[q].pc = "asked"
  /\ Starting(q) => Forgets(uses[req[q].at]) \/ left
  /\ req[q].pc = "asking" => left \/ link[req[q].at] = "off" \/ Forgets(uses[req[q].at])
  /\ req[q].pc = "probing" => Forgets(req[q].at)
NothingKnown ==
  /\ main \in {None, Blank} /\ auth \notin signed
  /\ \A q \in Procs : Bare(q)
  /\ left \/ /\ string = None /\ ~state.logged_in
             /\ listener.cur = None \/ link[listener.cur] = "off"
                  \/ Forgets(uses[listener.cur])
Lonely(q) ==
  req[q].alone =>
    /\ req[q].pc \in {"stopping", "parting"}
    /\ req[q].pc = "stopping" => req[q].at = listener.cur
    /\ req[q].pc = "parting" =>
         listener.cur = None \/ link[listener.cur] = "off" \/ left
Forgotten == (gone => NothingKnown) /\ \A q \in Procs : Lonely(q)

-----------------------------------------------------------------------------
(* What the steps of requests do to req. *)
LEMMA Constants ==
  /\ MaxCodes \in Nat \ {0} /\ MaxRetries \in Nat /\ 1 \in Clients
  /\ IsFiniteSet(Requests) /\ Boot \notin Requests
  /\ Attempts = 1..MaxCodes /\ None \in Sessions /\ Blank \in Sessions
  /\ Attempts \subseteq Sessions /\ None \notin Attempts /\ Blank \notin Attempts
  /\ None # Blank /\ None \notin Clients /\ Requests \subseteq Procs
BY BoundsAssumption, RequestsAssumption DEF Attempts, Sessions, None, Blank, Procs, Clients

LEMMA IdleIsRecord == Idle \in Record
BY Constants DEF Idle, Record, Ops, Pcs

LEMMA OpenedType ==
  ASSUME NEW s \in Sessions PROVE Opened(s) \in Sessions \ {None}
BY Constants DEF Opened

(* A request that goes on, and nobody else. *)
LEMMA GoesOn ==
  ASSUME req \in [Procs -> Record], NEW r \in Procs, NEW q \in Record, Becomes(r, q)
  PROVE  /\ req' \in [Procs -> Record] /\ req'[r] = q
         /\ \A p \in Procs : p # r => req'[p] = req[p]
BY DEF Becomes

LEMMA Steps ==
  ASSUME req \in [Procs -> Record], NEW r \in Procs, NEW step \in Pcs,
         NEW on \in Sessions \cup Clients
  PROVE  /\ [req[r] EXCEPT !.pc = step] \in Record
         /\ [req[r] EXCEPT !.pc = step, !.at = on] \in Record
BY DEF Record

(* A request that begins. *)
LEMMA BeginsFacts ==
  ASSUME req \in [Procs -> Record], main \in Sessions, NEW r \in Procs, NEW op \in Ops,
         NEW step \in Pcs, NEW on \in Sessions \cup Clients, Begins(r, op, step, on)
  PROVE  /\ req' \in [Procs -> Record]
         /\ req'[r].op = op /\ req'[r].pc = step /\ req'[r].at = on
         /\ req'[r].alone => op = "logout" /\ \A p \in Procs \ {r} : req[p].pc = "idle"
         /\ \A p \in Procs : p # r =>
              /\ req'[p].op = req[p].op /\ req'[p].pc = req[p].pc /\ req'[p].at = req[p].at
              /\ req'[p].saw = req[p].saw /\ req'[p].alone = FALSE
<1> DEFINE alone == op = "logout" /\ \A q \in Procs \ {r} : req[q].pc = "idle"
           saw == IF op = "status" THEN main ELSE None
           new == [op |-> op, pc |-> step, at |-> on, saw |-> saw, tries |-> 0, alone |-> alone]
<1>1. alone \in BOOLEAN /\ saw \in Sessions BY Constants
<1>2. /\ new \in Record /\ new.op = op /\ new.pc = step /\ new.at = on /\ new.alone = alone
  <2>1. 0 \in 0..MaxRetries BY Constants
  <2> HIDE DEF alone, saw
  <2> QED BY <1>1, <2>1 DEF Record
<1>3. \A q \in Procs :
        /\ [req[q] EXCEPT !.alone = FALSE] \in Record
        /\ [req[q] EXCEPT !.alone = FALSE].op = req[q].op
        /\ [req[q] EXCEPT !.alone = FALSE].pc = req[q].pc
        /\ [req[q] EXCEPT !.alone = FALSE].at = req[q].at
        /\ [req[q] EXCEPT !.alone = FALSE].saw = req[q].saw
        /\ [req[q] EXCEPT !.alone = FALSE].alone = FALSE
  BY DEF Record
<1>4. req' = [q \in Procs |-> IF q = r THEN new ELSE [req[q] EXCEPT !.alone = FALSE]]
  BY DEF Begins
<1> HIDE DEF new
<1>5. req'[r] = new /\ \A p \in Procs : p # r => req'[p] = [req[p] EXCEPT !.alone = FALSE]
  BY <1>4
<1>6. req' \in [Procs -> Record] BY <1>2, <1>3, <1>4
<1> QED BY <1>2, <1>3, <1>5, <1>6

(* The same for a request that goes on, whatever it becomes. *)
LEMMA ShapesGoOn ==
  ASSUME Shapes, req \in [Procs -> Record], NEW r \in Procs, NEW x \in Record, Becomes(r, x),
         req[r].pc # "idle", Shape(r, x), x.alone => req[r].alone,
         codes \in Nat, codes' \in Nat, codes <= codes',
         x.pc = "sending" => x.at \in 1..codes',
         listener.cur \in Clients => listener'.cur \in Clients,
         x.pc \in StartSteps \cup {"stopping", "asking"} => listener'.cur \in Clients
  PROVE  Shapes'
<1>1. /\ req' \in [Procs -> Record] /\ req'[r] = x
      /\ \A p \in Procs : p # r => req'[p] = req[p]
  BY GoesOn
<1>2. ASSUME NEW q \in Procs
      PROVE  /\ Shape(q, req'[q])
             /\ req'[q].pc \in StartSteps \cup {"stopping", "asking"} => listener'.cur \in Clients
             /\ req'[q].pc = "sending" => req'[q].at \in 1..codes'
  <2>1. CASE q = r BY <1>1, <2>1
  <2>2. CASE q # r
    <3>1. req'[q] = req[q] BY <1>1, <2>2
    <3>2. Shape(q, req[q]) /\ (req[q].pc = "sending" => req[q].at \in 1..codes)
      BY DEF Shapes
    <3>3. req[q].pc \in StartSteps \cup {"stopping", "asking"} => listener.cur \in Clients
      BY DEF Shapes, HoldsClient, Starting
    <3> QED BY <3>1, <3>2, <3>3
  <2> QED BY <2>1, <2>2
<1>3. ASSUME NEW q \in Procs, req'[q].alone, NEW p \in Procs \ {q} PROVE req'[p].pc = "idle"
  <2>1. req[q].alone BY <1>1, <1>3
  <2>2. \A o \in Procs \ {q} : req[o].pc = "idle" BY <2>1 DEF Shapes
  <2>3. q = r BY <2>2
  <2> QED BY <1>1, <2>2, <2>3
<1> QED BY <1>2, <1>3 DEF Shapes, Shape, HoldsClient, Starting

(* ... and for one that begins. *)
LEMMA ShapesBegin ==
  ASSUME Shapes, req \in [Procs -> Record], main \in Sessions, NEW r \in Requests, NEW op \in Ops,
         NEW step \in Pcs, NEW on \in Sessions \cup Clients, Begins(r, op, step, on),
         Shape(r, [op |-> op, pc |-> step, at |-> on, alone |-> FALSE]), step # "sending",
         codes' = codes,
         listener.cur \in Clients => listener'.cur \in Clients,
         step \in StartSteps \cup {"stopping", "asking"} => listener'.cur \in Clients
  PROVE  Shapes'
<1>0. r \in Procs BY DEF Procs
<1>1. /\ req' \in [Procs -> Record]
      /\ req'[r].op = op /\ req'[r].pc = step /\ req'[r].at = on
      /\ req'[r].alone => op = "logout" /\ \A p \in Procs \ {r} : req[p].pc = "idle"
      /\ \A p \in Procs : p # r =>
           /\ req'[p].op = req[p].op /\ req'[p].pc = req[p].pc /\ req'[p].at = req[p].at
           /\ req'[p].saw = req[p].saw /\ req'[p].alone = FALSE
  BY <1>0, BeginsFacts
<1>2. ASSUME NEW q \in Procs
      PROVE  /\ Shape(q, req'[q])
             /\ req'[q].pc \in StartSteps \cup {"stopping", "asking"} => listener'.cur \in Clients
             /\ req'[q].pc = "sending" => req'[q].at \in 1..codes'
  <2>1. CASE q = r BY <1>1, <2>1 DEF Shape
  <2>2. CASE q # r
    <3>1. /\ req'[q].op = req[q].op /\ req'[q].pc = req[q].pc /\ req'[q].at = req[q].at
          /\ req'[q].alone = FALSE
      BY <1>1, <2>2
    <3>2. Shape(q, req[q]) /\ (req[q].pc = "sending" => req[q].at \in 1..codes)
      BY DEF Shapes
    <3>3. req[q].pc \in StartSteps \cup {"stopping", "asking"} => listener.cur \in Clients
      BY DEF Shapes, HoldsClient, Starting
    <3> QED BY <3>1, <3>2, <3>3 DEF Shape
  <2> QED BY <2>1, <2>2
<1>3. ASSUME NEW q \in Procs, req'[q].alone, NEW p \in Procs \ {q} PROVE req'[p].pc = "idle"
  <2>1. q = r BY <1>1, <1>3
  <2> QED BY <1>1, <1>3, <2>1
<1> QED BY <1>2, <1>3 DEF Shapes, Shape, HoldsClient, Starting

(* How many attempts are being prepared. *)
LEMMA ClearingFinite == IsFiniteSet(Clearing) /\ Cardinality(Clearing) \in Nat
<1>1. Clearing \in SUBSET Requests BY DEF Clearing
<1>2. IsFiniteSet(Clearing) BY <1>1, Constants, FS_Subset
<1> QED BY <1>2, FS_CardinalityType

LEMMA ClearingGoesOn ==
  ASSUME req \in [Procs -> Record], NEW r \in Procs, NEW x \in Record, Becomes(r, x),
         req[r].pc # "clearing", x.pc # "clearing"
  PROVE  Clearing' = Clearing
BY GoesOn, Constants DEF Clearing

LEMMA ClearingBegins ==
  ASSUME req \in [Procs -> Record], main \in Sessions, NEW r \in Procs, NEW op \in Ops,
         NEW step \in Pcs, NEW on \in Sessions \cup Clients, Begins(r, op, step, on),
         req[r].pc # "clearing", step # "clearing"
  PROVE  Clearing' = Clearing
<1>1. /\ req' \in [Procs -> Record]
      /\ req'[r].op = op /\ req'[r].pc = step /\ req'[r].at = on
      /\ req'[r].alone => op = "logout" /\ \A p \in Procs \ {r} : req[p].pc = "idle"
      /\ \A p \in Procs : p # r =>
           /\ req'[p].op = req[p].op /\ req'[p].pc = req[p].pc /\ req'[p].at = req[p].at
           /\ req'[p].saw = req[p].saw /\ req'[p].alone = FALSE
  BY BeginsFacts
<1>2. \A q \in Requests : req'[q].pc = "clearing" <=> req[q].pc = "clearing"
  BY <1>1, Constants
<1> QED BY <1>2 DEF Clearing

LEMMA LoginTypesAre == LoginTypes => TypeOK
<1>1. codes \in 0..MaxCodes => 1..codes \subseteq Attempts /\ 0..codes \subseteq Attempts \cup {None}
  BY Constants DEF None
<1> QED BY <1>1 DEF LoginTypes, TypeOK, Values, Record, Ops

LEMMA TypesGoOn ==
  ASSUME LoginTypes, NEW r \in Procs, NEW x \in Record, Becomes(r, x),
         req[r].pc \notin {"idle", "clearing"}, Shape(r, x), x.alone => req[r].alone,
         x.pc \notin {"clearing", "sending"},
         codes' = codes, Values',
         listener.cur \in Clients => listener'.cur \in Clients,
         x.pc \in StartSteps \cup {"stopping", "asking"} => listener'.cur \in Clients
  PROVE  LoginTypes'
<1>1. req \in [Procs -> Record] /\ Shapes /\ codes \in Nat BY DEF LoginTypes, Values
<1>2. Shapes' BY <1>1, ShapesGoOn
<1>3. Clearing' = Clearing BY <1>1, ClearingGoesOn
<1>4. req' \in [Procs -> Record] BY <1>1, GoesOn
<1>5. codes' + Cardinality(Clearing') <= MaxCodes BY <1>3 DEF LoginTypes
<1> QED BY <1>2, <1>4, <1>5 DEF LoginTypes

LEMMA TypesBegin ==
  ASSUME LoginTypes, NEW r \in Requests, req[r].pc = "idle", NEW op \in Ops, NEW step \in Pcs,
         NEW on \in Sessions \cup Clients, Begins(r, op, step, on),
         Shape(r, [op |-> op, pc |-> step, at |-> on, alone |-> FALSE]),
         step \notin {"clearing", "sending"},
         codes' = codes, Values',
         listener.cur \in Clients => listener'.cur \in Clients,
         step \in StartSteps \cup {"stopping", "asking"} => listener'.cur \in Clients
  PROVE  LoginTypes'
<1>0. r \in Procs BY DEF Procs
<1>1. req \in [Procs -> Record] /\ Shapes /\ main \in Sessions BY DEF LoginTypes, Values
<1>2. Shapes' BY <1>1, ShapesBegin
<1>3. Clearing' = Clearing BY <1>0, <1>1, ClearingBegins
<1>4. req' \in [Procs -> Record] BY <1>0, <1>1, BeginsFacts
<1>5. codes' + Cardinality(Clearing') <= MaxCodes BY <1>3 DEF LoginTypes
<1> QED BY <1>2, <1>4, <1>5 DEF LoginTypes

(* A request that goes on to another step is x afterwards. *)
Moves(r, step, on, x) ==
  /\ x \in Record /\ Becomes(r, x)
  /\ x.op = req[r].op /\ x.pc = step /\ x.at = on
  /\ x.saw = req[r].saw /\ x.alone = req[r].alone

LEMMA GoesMoves ==
  ASSUME req \in [Procs -> Record], NEW r \in Procs, NEW step \in Pcs, Goes(r, step)
  PROVE  \E x : Moves(r, step, req[r].at, x)
<1> DEFINE x == [req[r] EXCEPT !.pc = step]
<1>1. Moves(r, step, req[r].at, x) BY DEF Goes, Moves, Record
<1> QED BY <1>1

LEMMA WaitsMoves ==
  ASSUME req \in [Procs -> Record], NEW r \in Procs, NEW step \in Pcs,
         NEW on \in Sessions \cup Clients, Waits(r, step, on)
  PROVE  \E x : Moves(r, step, on, x)
<1> DEFINE x == [req[r] EXCEPT !.pc = step, !.at = on]
<1>1. Moves(r, step, on, x) BY DEF Waits, Moves, Record
<1> QED BY <1>1

(* A start that fails with an exception. *)
LEMMA StartFailsFacts ==
  ASSUME req \in [Procs -> Record], NEW r \in Procs, NEW file \in Sessions, StartFails(r, file)
  PROVE  /\ main' \in Sessions /\ main' \in {file, Opened(file)}
         /\ \/ Becomes(r, Idle) /\ req[r].op \notin SignsIn
            \/ req[r].op \in SignsIn /\ \E x : Moves(r, "fallback", Opened(file), x)
<1>1. Opened(file) \in Sessions BY OpenedType
<1>2. CASE req[r].op \in SignsIn
  <2>1. Waits(r, "fallback", Opened(file)) /\ main' = Opened(file) BY <1>2 DEF StartFails
  <2>2. "fallback" \in Pcs BY DEF Pcs
  <2>3. \E x : Moves(r, "fallback", Opened(file), x) BY <1>1, <2>1, <2>2, WaitsMoves
  <2> QED BY <1>1, <1>2, <2>1, <2>3
<1>3. CASE req[r].op \notin SignsIn BY <1>3 DEF StartFails, Ends
<1> QED BY <1>2, <1>3

-----------------------------------------------------------------------------
(* Types, step by step *)

LEMMA ShapeIdle == \A q : Shape(q, Idle) /\ Idle \in Record /\ Idle.alone = FALSE /\ Idle.pc = "idle"
BY IdleIsRecord DEF Shape, Idle, StartSteps, Asking

LEMMA TypesEnds ==
  ASSUME LoginTypes, NEW r \in Procs, Ends(r) \/ Becomes(r, Idle),
         req[r].pc \notin {"idle", "clearing"},
         codes' = codes, Values', listener.cur \in Clients => listener'.cur \in Clients
  PROVE  LoginTypes'
BY ShapeIdle, TypesGoOn DEF Ends, StartSteps

LEMMA TypesMoves ==
  ASSUME LoginTypes, NEW r \in Procs, NEW step, NEW on, NEW x, Moves(r, step, on, x),
         req[r].pc \notin {"idle", "clearing"}, step \notin {"idle", "clearing", "sending"},
         Shape(r, [op |-> req[r].op, pc |-> step, at |-> on, alone |-> req[r].alone]),
         codes' = codes, Values', listener.cur \in Clients => listener'.cur \in Clients,
         step \in StartSteps \cup {"stopping", "asking"} => listener'.cur \in Clients
  PROVE  LoginTypes'
<1>1. Shape(r, x) BY DEF Shape, Moves
<1> QED BY <1>1, TypesGoOn DEF Moves

LEMMA TypesStartFails ==
  ASSUME LoginTypes, NEW r \in Procs, NEW file \in Sessions, StartFails(r, file),
         req[r].pc \in StartSteps \cup {"stopping"},
         codes' = codes, main' \in Sessions => Values', listener.cur \in Clients => listener'.cur \in Clients
  PROVE  LoginTypes'
<1>1. req \in [Procs -> Record] BY DEF LoginTypes
<1>2. /\ main' \in Sessions /\ main' \in {file, Opened(file)}
      /\ \/ Becomes(r, Idle) /\ req[r].op \notin SignsIn
         \/ req[r].op \in SignsIn /\ \E x : Moves(r, "fallback", Opened(file), x)
  BY <1>1, StartFailsFacts
<1>3. CASE Becomes(r, Idle) BY <1>2, <1>3, TypesEnds DEF StartSteps
<1>4. ASSUME req[r].op \in SignsIn, NEW x, Moves(r, "fallback", Opened(file), x)
      PROVE  LoginTypes'
  <2>1. Opened(file) \in Sessions BY OpenedType
  <2>2. Shape(r, req[r]) BY DEF LoginTypes, Shapes
  <2>3. Shape(r, [op |-> req[r].op, pc |-> "fallback", at |-> Opened(file), alone |-> req[r].alone])
    BY <1>4, <2>1, <2>2 DEF Shape, StartSteps, Asking, SignsIn
  <2> QED BY <1>2, <1>4, <2>3, TypesMoves DEF StartSteps
<1> QED BY <1>2, <1>3, <1>4

(* Where a request may be tells where its client is. *)
LEMMA ShapeFacts ==
  ASSUME LoginTypes, NEW r \in Procs
  PROVE  /\ Shape(r, req[r]) /\ req[r] \in Record
         /\ req \in [Procs -> Record]
         /\ req[r].pc \in StartSteps \cup {"stopping", "asking"} =>
              req[r].at \in Clients /\ listener.cur \in Clients
         /\ req[r].pc = "sending" => req[r].at \in 1..codes
         /\ req[r].alone => \A p \in Procs \ {r} : req[p].pc = "idle"
         /\ codes \in Nat
BY DEF LoginTypes, Shapes, Shape, HoldsClient, Starting, Values

LEMMA TypesStart ==
  ASSUME LoginTypes, NEW r \in Procs, StartStep(r) PROVE LoginTypes'
<1> DEFINE k == req[r].at
<1> USE ShapeFacts
<1>0. StartSteps = {"connecting", "half", "backoff", "naming"} BY DEF StartSteps
<1>a. Values BY DEF LoginTypes
<1>1. CASE Connects(r)
  <2>1. req[r].pc = "connecting" /\ Goes(r, "half") /\ codes' = codes /\ listener' = listener
    BY <1>1 DEF Connects, telegram
  <2>2. Values'
    BY <1>a, <1>1 DEF Connects, Values, files, telegram, login, history
  <2>3. PICK x : Moves(r, "half", k, x) BY <2>1, GoesMoves DEF Pcs, StartSteps
  <2>4. Shape(r, [op |-> req[r].op, pc |-> "half", at |-> k, alone |-> req[r].alone])
    BY <2>1, <1>0 DEF Shape, Asking
  <2> QED BY <2>1, <2>2, <2>3, <2>4, <1>0, TypesMoves
<1>2. CASE Authorises(r)
  <2>1. req[r].pc = "half" /\ codes' = codes /\ listener' = listener
    BY <1>2 DEF Authorises, telegram
  <2>2. link' = [link EXCEPT ![k] = "on"]
    BY <1>2 DEF Authorises
  <2>3. CASE link'[listener.cur] # "off"
    <3>1. Waits(r, "naming", listener.cur) /\ main' = main /\ left' = left
      BY <1>2, <2>2, <2>3 DEF Authorises
    <3>2. Values' BY <1>a, <1>2, <2>2, <3>1 DEF Authorises, Values, telegram, login
    <3>3. PICK x : Moves(r, "naming", listener.cur, x)
      BY <2>1, <1>0, <3>1, WaitsMoves DEF Pcs, StartSteps
    <3>4. Shape(r, [op |-> req[r].op, pc |-> "naming", at |-> listener.cur, alone |-> req[r].alone])
      BY <2>1, <1>0 DEF Shape, Asking
    <3> QED BY <2>1, <3>2, <3>3, <3>4, <1>0, TypesMoves
  <2>4. CASE link'[listener.cur] = "off"
    <3>1. StartFails(r, main) /\ Leaves(k)
      BY <1>2, <2>2, <2>4 DEF Authorises
    <3>2. main' \in Sessions => Values'
      BY <1>a, <1>2, <2>2, <3>1 DEF Authorises, Values, telegram, login, Leaves
    <3>3. main \in Sessions BY <1>a DEF Values
    <3> QED BY <2>1, <3>1, <3>2, <3>3, <1>0, TypesStartFails
  <2> QED BY <2>3, <2>4
<1>3. CASE Duplicate(r)
  <2>1. PICK x : Moves(r, "backoff", k, x)
    <3> DEFINE x == [req[r] EXCEPT !.pc = "backoff",
                                   !.tries = IF @ < MaxRetries THEN @ + 1 ELSE @]
    <3>1. "backoff" \in Pcs BY <1>0 DEF Pcs
    <3>2. req[r].tries \in 0..MaxRetries BY DEF Record
    <3>3. (IF req[r].tries < MaxRetries THEN req[r].tries + 1 ELSE req[r].tries) \in 0..MaxRetries
      BY <3>2, Constants
    <3>4. Becomes(r, x) BY <1>3 DEF Duplicate
    <3>5. Moves(r, "backoff", k, x) BY <3>1, <3>3, <3>4 DEF Moves, Record
    <3> QED BY <3>5
  <2>2. req[r].pc \in {"connecting", "half"} /\ codes' = codes /\ listener' = listener
    BY <1>3 DEF Duplicate, telegram
  <2>3. Values' BY <1>a, <1>3 DEF Duplicate, Values, files, telegram, login, history
  <2>4. Shape(r, [op |-> req[r].op, pc |-> "backoff", at |-> k, alone |-> req[r].alone])
    BY <2>2, <1>0 DEF Shape, Asking
  <2> QED BY <2>1, <2>2, <2>3, <2>4, <1>0, TypesMoves
<1>4. CASE Retries(r)
  <2>1. req[r].pc = "backoff" /\ codes' = codes /\ listener' = listener
    BY <1>4 DEF Retries, telegram
  <2>2. main \in Sessions /\ Opened(main) \in Sessions BY <1>a, OpenedType DEF Values
  <2>3. CASE link[listener.cur] = "off"
    <3>1. /\ main' = Opened(main) /\ uses' = [uses EXCEPT ![listener.cur] = Opened(main)]
          /\ Waits(r, "connecting", listener.cur)
      BY <1>4, <2>3 DEF Retries
    <3>2. Values' BY <1>a, <1>4, <2>2, <3>1 DEF Retries, Values, telegram, login, history
    <3>3. PICK x : Moves(r, "connecting", listener.cur, x)
      BY <2>1, <1>0, <3>1, WaitsMoves DEF Pcs, StartSteps
    <3>4. Shape(r, [op |-> req[r].op, pc |-> "connecting", at |-> listener.cur, alone |-> req[r].alone])
      BY <2>1, <1>0 DEF Shape, Asking
    <3> QED BY <2>1, <3>2, <3>3, <3>4, <1>0, TypesMoves
  <2>4. CASE link[listener.cur] # "off"
    <3>1. StartFails(r, main) /\ uses' = uses BY <1>4, <2>4 DEF Retries
    <3>2. main' \in Sessions => Values'
      BY <1>a, <1>4, <3>1 DEF Retries, Values, telegram, login, history
    <3> QED BY <2>1, <2>2, <3>1, <3>2, <1>0, TypesStartFails
  <2> QED BY <2>3, <2>4
<1>5. CASE AuthFails(r)
  <2>1. /\ req[r].pc \in {"connecting", "half"} /\ codes' = codes /\ listener' = listener
        /\ StartFails(r, None)
    BY <1>5 DEF AuthFails, telegram
  <2>2. main' \in Sessions => Values'
    BY <1>a, <1>5 DEF AuthFails, Values, telegram, login, history
  <2> QED BY <2>1, <2>2, <1>0, TypesStartFails, Constants
<1>6. CASE OtherError(r)
  <2>1. /\ req[r].pc \in StartSteps /\ codes' = codes /\ listener' = listener
        /\ StartFails(r, main)
    BY <1>6, <1>0 DEF OtherError, telegram, Starting
  <2>2. main' \in Sessions => Values'
    BY <1>a, <1>6 DEF OtherError, Values, telegram, login, Leaves
  <2>3. main \in Sessions BY <1>a DEF Values
  <2> QED BY <2>1, <2>2, <2>3, <1>0, TypesStartFails
<1>7. CASE TimesOut(r)
  <2>1. /\ req[r].pc \in StartSteps /\ codes' = codes /\ listener' = listener
        /\ StartFails(r, main)
    BY <1>7 DEF TimesOut, telegram, Starting, clients
  <2>2. main' \in Sessions => Values'
    BY <1>a, <1>7 DEF TimesOut, Values, telegram, login, clients
  <2>3. main \in Sessions BY <1>a DEF Values
  <2> QED BY <2>1, <2>2, <2>3, <1>0, TypesStartFails
<1>8. CASE Started(r)
  <2>1. /\ req[r].pc = "naming" /\ codes' = codes /\ Ends(r)
        /\ listener' = [listener EXCEPT !.loops = @ + 1, !.ref = TRUE]
        /\ state' = state \/ state' = [client |-> None, logged_in |-> TRUE,
                                       needs_2fa |-> state.needs_2fa /\ req[r].op = "code"]
    BY <1>8 DEF Started, telegram, FinishLogin, StartsLoop
  <2>2. Values'
    <3>1. /\ listener' \in [cur : Clients \cup {None}, loops : Nat, ref : BOOLEAN]
          /\ listener'.cur = listener.cur /\ listener'.loops > 0
      <4>1. listener \in [cur : Clients \cup {None}, loops : Nat, ref : BOOLEAN]
        BY <1>a DEF Values
      <4>2. listener.loops + 1 \in Nat /\ listener.loops + 1 > 0 BY <4>1
      <4>3. listener' = [cur |-> listener.cur, loops |-> listener.loops + 1, ref |-> TRUE]
        BY <2>1, <4>1
      <4> QED BY <4>1, <4>2, <4>3
    <3>2. state' \in [client : 0..codes, needs_2fa : BOOLEAN, logged_in : BOOLEAN]
      <4>1. (state.needs_2fa /\ req[r].op = "code") \in BOOLEAN OBVIOUS
      <4>2. None \in 0..codes BY <1>a, Constants DEF None, Values
      <4>3. state \in [client : 0..codes, needs_2fa : BOOLEAN, logged_in : BOOLEAN]
        BY <1>a DEF Values
      <4>4. \A b \in BOOLEAN : [client |-> None, logged_in |-> TRUE, needs_2fa |-> b]
                \in [client : 0..codes, needs_2fa : BOOLEAN, logged_in : BOOLEAN]
        BY <4>2
      <4> QED BY <2>1, <4>1, <4>3, <4>4
    <3>3. string' \in signed \cup {None} BY <1>8, <1>a DEF Started, Values, Exported
    <3> QED BY <1>a, <1>8, <3>1, <3>2, <3>3 DEF Started, Values, files, telegram, history
  <2>3. listener.cur \in Clients => listener'.cur \in Clients BY <1>a, <2>1 DEF Values
  <2> QED BY <2>1, <2>2, <2>3, <1>0, TypesEnds
<1> QED BY <1>1, <1>2, <1>3, <1>4, <1>5, <1>6, <1>7, <1>8 DEF StartStep

(* A start, and a stop, of the listener. *)
LEMMA LaunchFacts ==
  ASSUME Values, NEW r \in Procs, NEW k \in Clients, NEW file \in Sessions,
         Unused(k), Launch(r, k, file)
  PROVE  /\ listener' \in [cur : Clients \cup {None}, loops : Nat, ref : BOOLEAN]
         /\ listener'.cur = k /\ listener'.loops = listener.loops
         /\ listener'.ref = listener.ref
         /\ uses' \in [Clients -> Sessions] /\ uses'[k] = Opened(file)
         /\ \A j \in Clients : uses'[j] \in {uses[j], None, Opened(file)}
         /\ main' = Opened(file) /\ main' \in Sessions /\ raced' \in BOOLEAN
         /\ raced' = (raced \/ \E q \in Procs \ {r} : Starting(q))
<1>1. Opened(file) \in Sessions BY OpenedType
<1>2. Collected \in [Clients -> Sessions] BY Constants DEF Collected, Values
<1>3. \A j \in Clients : Collected[j] \in {uses[j], None} BY DEF Collected
<1>4. uses' = [Collected EXCEPT ![k] = Opened(file)] BY DEF Launch
<1> HIDE DEF Collected
<1>5. /\ uses' \in [Clients -> Sessions] /\ uses'[k] = Opened(file)
      /\ \A j \in Clients : uses'[j] \in {uses[j], None, Opened(file)}
  BY <1>1, <1>2, <1>3, <1>4
<1>6. listener' = [listener EXCEPT !.cur = k] BY DEF Launch
<1> QED BY <1>1, <1>5, <1>6 DEF Launch, Values

LEMMA StopFacts ==
  ASSUME Values, NEW r \in Procs, BeginsStop(r)
  PROVE  /\ listener' \in [cur : Clients \cup {None}, loops : Nat, ref : BOOLEAN]
         /\ listener'.cur = listener.cur /\ listener'.ref = FALSE
         /\ listener'.loops = IF listener.ref THEN listener.loops - 1 ELSE listener.loops
         /\ link' = link /\ uses' = uses /\ raced' \in BOOLEAN
         /\ raced' = (raced \/ \E q \in Procs \ {r} : Starting(q))
<1>1. listener' = [listener EXCEPT !.ref = FALSE,
                     !.loops = IF listener.ref THEN listener.loops - 1 ELSE listener.loops]
  BY DEF BeginsStop, CancelsLoop
<1>2. (IF listener.ref THEN listener.loops - 1 ELSE listener.loops) \in Nat BY DEF Values
<1>3. listener \in [cur : Clients \cup {None}, loops : Nat, ref : BOOLEAN] BY DEF Values
<1> QED BY <1>1, <1>2, <1>3 DEF BeginsStop

(* The state a sign-in, a verdict, or a new code leaves. *)
States == [client : 0..codes, needs_2fa : BOOLEAN, logged_in : BOOLEAN]

LEMMA StateFacts ==
  ASSUME Values, NEW r \in Procs
  PROVE  /\ Fresh \in States
         /\ FinishLogin(r) => state' \in States /\ state'.logged_in /\ state'.client = None
         /\ \A b \in BOOLEAN : Says(b) =>
              state' \in States /\ state'.client = state.client /\ state'.logged_in = b
<1>1. None \in 0..codes BY Constants DEF None, Values
<1>2. state \in States BY DEF Values, States
<1>3. \A b \in BOOLEAN : [client |-> None, logged_in |-> TRUE, needs_2fa |-> b] \in States
  BY <1>1 DEF States
<1>4. (state.needs_2fa /\ req[r].op = "code") \in BOOLEAN OBVIOUS
<1>5. ASSUME FinishLogin(r)
      PROVE  state' \in States /\ state'.logged_in /\ state'.client = None
  <2>1. PICK b \in BOOLEAN : state' = [client |-> None, logged_in |-> TRUE, needs_2fa |-> b]
    BY <1>4, <1>5 DEF FinishLogin
  <2>2. state'.logged_in = TRUE /\ state'.client = None BY <2>1
  <2> QED BY <1>3, <2>1, <2>2
<1>6. ASSUME NEW b \in BOOLEAN, Says(b)
      PROVE  state' \in States /\ state'.client = state.client /\ state'.logged_in = b
  <2>1. state' = [client |-> state.client, needs_2fa |-> state.needs_2fa, logged_in |-> b]
    BY <1>2, <1>6 DEF Says, States
  <2> QED BY <1>2, <2>1 DEF States
<1>7. Fresh \in States BY <1>1 DEF Fresh, States
<1> QED BY <1>5, <1>6, <1>7

LEMMA TypesSignIn ==
  ASSUME LoginTypes, NEW r \in Procs,
         \/ Fallback(r) \/ OpensAuth(r) \/ CodeSent(r) \/ CodeNotSent(r)
         \/ SignedIn(r) \/ NeedsPassword(r) \/ SignInFails(r) \/ Greeted(r)
  PROVE  LoginTypes'
<1> USE ShapeFacts
<1>0. StartSteps = {"connecting", "half", "backoff", "naming"} BY DEF StartSteps
<1>a. Values BY DEF LoginTypes
<1>b. /\ codes \in 0..MaxCodes /\ 1..codes \subseteq Attempts /\ 1..codes \subseteq 0..codes
      /\ 0 \in 0..codes
  BY <1>a, Constants DEF Values
<1>1. CASE Fallback(r)
  <2>1. state' \in States BY <1>a, <1>1, StateFacts DEF Fallback
  <2>2. string' \in signed \cup {None} BY <1>a, <1>1 DEF Fallback, Valid, Values
  <2>3. Values'
    BY <1>a, <1>1, <2>1, <2>2 DEF Fallback, Values, States, files, telegram, clients, history
  <2>4. codes' = codes /\ listener' = listener /\ Ends(r) /\ req[r].pc = "fallback"
    BY <1>1 DEF Fallback, FinishLogin, telegram, clients
  <2> QED BY <2>3, <2>4, TypesEnds
<1>2. CASE OpensAuth(r)
  <2>1. /\ req[r].pc = "clearing" /\ codes' = codes + 1 /\ auth' = codes + 1
        /\ listener' = listener /\ Waits(r, "sending", codes + 1)
    BY <1>2 DEF OpensAuth, clients
  <2>2. r \in Clearing BY <2>1 DEF Clearing, Shape, Procs
  <2>3. Cardinality(Clearing \ {r}) = Cardinality(Clearing) - 1 BY <2>2, ClearingFinite, FS_RemoveElement
  <2>4. codes + 1 \in 1..MaxCodes /\ codes + 1 + Cardinality(Clearing \ {r}) <= MaxCodes
    <3>1. Cardinality(Clearing \ {r}) \in Nat
      BY ClearingFinite, FS_RemoveElement, FS_CardinalityType
    <3>2. codes + Cardinality(Clearing) <= MaxCodes BY DEF LoginTypes
    <3> QED BY <1>b, <2>3, <3>1, <3>2, ClearingFinite, Constants
  <2>5. codes + 1 \in Sessions \cup Clients BY <2>4, Constants DEF Attempts
  <2>6. PICK x : Moves(r, "sending", codes + 1, x)
    <3>1. "sending" \in Pcs BY DEF Pcs
    <3> QED BY <2>1, <2>5, <3>1, WaitsMoves
  <2>7. Values'
    <3>1. 1..codes \subseteq 1..(codes + 1) /\ 0..codes \subseteq 0..(codes + 1) /\ codes + 1 \in 0..(codes + 1)
      BY <1>b
    <3>2. codes + 1 \in 0..MaxCodes BY <2>4
    <3>3. /\ main' = main /\ passed' = passed /\ revoked' = revoked /\ signed' = signed
          /\ state' = state /\ live' = live /\ link' = link /\ uses' = uses /\ string' = string
          /\ crossed' = crossed /\ raced' = raced /\ left' = left /\ gone' = gone
      BY <1>2 DEF OpensAuth, login, clients, history
    <3>4. state \in [client : 0..(codes + 1), needs_2fa : BOOLEAN, logged_in : BOOLEAN]
      BY <1>a, <3>1 DEF Values
    <3> QED BY <1>a, <2>1, <3>1, <3>2, <3>3, <3>4 DEF Values
  <2>8. Clearing' = Clearing \ {r}
    <3>1. /\ req' \in [Procs -> Record] /\ req'[r].pc = "sending"
          /\ \A p \in Procs : p # r => req'[p] = req[p]
      BY <2>6, GoesOn DEF Moves
    <3> QED BY <3>1, Constants DEF Clearing
  <2>9. Shapes'
    <3>1. Shape(r, x) BY <2>1, <2>6, <1>0 DEF Shape, Moves, Asking
    <3>2. codes' \in Nat /\ codes <= codes' /\ codes + 1 \in 1..codes' BY <1>b, <2>1
    <3>3. Shapes BY DEF LoginTypes
    <3> QED BY <1>0, <2>1, <2>6, <3>1, <3>2, <3>3, ShapesGoOn DEF Moves
  <2>10. req' \in [Procs -> Record] BY <2>6, GoesOn DEF Moves
  <2>11. codes' + Cardinality(Clearing') <= MaxCodes BY <2>1, <2>4, <2>8
  <2> QED BY <2>7, <2>9, <2>10, <2>11 DEF LoginTypes
<1>3. CASE CodeSent(r)
  <2>1. req[r].pc = "sending" /\ req[r].at \in 1..codes BY <1>3 DEF CodeSent
  <2>2. state' = [client |-> req[r].at, needs_2fa |-> FALSE, logged_in |-> FALSE]
    BY <1>3 DEF CodeSent, Fresh
  <2>3. state' \in States BY <1>b, <2>1, <2>2 DEF States
  <2>4. Values'
    BY <1>a, <1>3, <2>1, <2>3 DEF CodeSent, Values, States, files, telegram, clients, history
  <2>5. codes' = codes /\ listener' = listener /\ Ends(r)
    BY <1>3 DEF CodeSent, telegram, clients
  <2> QED BY <2>1, <2>4, <2>5, TypesEnds
<1>4. CASE CodeNotSent(r)
  <2>1. Values' BY <1>a, <1>4 DEF CodeNotSent, Values, files, telegram, login, clients, history
  <2> QED BY <1>4, <2>1, TypesEnds DEF CodeNotSent, telegram, clients
<1>5. CASE SignedIn(r)
  <2> DEFINE a == req[r].at
             y == [req[r] EXCEPT !.pc = "greeting", !.at = state.client, !.saw = a]
  <2>1. /\ req[r].pc = "asked" /\ a \in live /\ signed' = signed \cup {a} /\ gone' = FALSE
        /\ codes' = codes /\ listener' = listener
    BY <1>5 DEF SignedIn, Accepted, clients
  <2>2. a \in 1..codes /\ a \in Attempts BY <1>a, <1>b, <2>1 DEF Values
  <2>3. Values'
    BY <1>a, <1>5, <2>1, <2>2 DEF SignedIn, Values, files, login, clients
  <2>4. CASE state.client = None BY <1>5, <2>1, <2>3, <2>4, TypesEnds DEF SignedIn
  <2>5. CASE state.client # None
    <3>1. Becomes(r, y) BY <1>5, <2>5 DEF SignedIn
    <3>2. state.client \in Attempts BY <1>a, <1>b, <2>5 DEF Values, None
    <3>3. /\ y \in Record /\ y.op = req[r].op /\ y.pc = "greeting" /\ y.at = state.client
          /\ y.alone = req[r].alone
      <4>1. "greeting" \in Pcs BY DEF Pcs
      <4>2. state.client \in Sessions \cup Clients /\ a \in Sessions BY <2>2, <3>2, Constants
      <4> QED BY <4>1, <4>2 DEF Record
    <3> HIDE DEF y
    <3>4. Shape(r, y) BY <1>0, <2>1, <3>2, <3>3 DEF Shape, Asking
    <3> QED BY <1>0, <2>1, <2>3, <3>1, <3>3, <3>4, TypesGoOn
  <2> QED BY <2>4, <2>5
<1>6. CASE NeedsPassword(r)
  <2> DEFINE a == req[r].at
  <2>1. /\ req[r].pc = "asked" /\ a \in live /\ passed' = passed \cup {a}
        /\ codes' = codes /\ listener' = listener /\ Ends(r)
        /\ state' = [state EXCEPT !.needs_2fa = TRUE]
    BY <1>6 DEF NeedsPassword, Accepted, clients, At
  <2>2. a \in Attempts BY <1>a, <1>b, <2>1 DEF Values
  <2>3. state' \in States BY <1>a, <2>1 DEF States, Values
  <2>4. Values'
    BY <1>a, <1>6, <2>1, <2>2, <2>3 DEF NeedsPassword, Values, States, files, clients, history
  <2> QED BY <2>1, <2>4, TypesEnds
<1>7. CASE SignInFails(r)
  <2>1. Values' BY <1>a, <1>7 DEF SignInFails, Values, files, telegram, login, clients, history
  <2> QED BY <1>7, <2>1, TypesEnds DEF SignInFails, telegram, clients
<1>8. CASE Greeted(r)
  <2>1. /\ req[r].pc = "greeting" /\ state.client \in live /\ Waits(r, "leaving", state.client)
        /\ codes' = codes /\ listener' = listener
    BY <1>8 DEF Greeted, telegram, clients
  <2>2. state.client \in Attempts BY <1>a, <1>b, <2>1 DEF Values
  <2>3. Values'
    BY <1>a, <1>8 DEF Greeted, Values, Disconnected, files, telegram, clients, history
  <2>4. PICK x : Moves(r, "leaving", state.client, x)
    <3>1. "leaving" \in Pcs BY DEF Pcs
    <3> QED BY <2>1, <2>2, <3>1, Constants, WaitsMoves
  <2>5. Shape(r, [op |-> req[r].op, pc |-> "leaving", at |-> state.client, alone |-> req[r].alone])
    BY <1>0, <2>1, <2>2 DEF Shape, Asking
  <2> QED BY <1>0, <2>1, <2>3, <2>4, <2>5, TypesMoves
<1> QED BY <1>1, <1>2, <1>3, <1>4, <1>5, <1>6, <1>7, <1>8

LEMMA RelaunchFacts ==
  ASSUME LoginTypes, NEW r \in Procs, NEW file \in Sessions, Relaunch(r, file)
  PROVE  \E k \in Clients : \E x :
           Unused(k) /\ Launch(r, k, file) /\ Moves(r, "connecting", k, x)
<1>1. PICK k \in Clients : Unused(k) /\ Launch(r, k, file) /\ Waits(r, "connecting", k)
  BY DEF Relaunch
<1>2. "connecting" \in Pcs BY DEF Pcs, StartSteps
<1>3. \E x : Moves(r, "connecting", k, x) BY <1>1, <1>2, WaitsMoves, ShapeFacts
<1> QED BY <1>1, <1>3

LEMMA TypesRelaunch ==
  ASSUME LoginTypes, NEW r \in Procs, NEW file \in Sessions, Relaunch(r, file),
         req[r].pc \in {"leaving", "stopping"}, req[r].op \in SignsIn,
         auth' \in 0..codes, codes' = codes, telegram' = telegram, login' = login,
         link' \in [Clients -> {"off", "half", "on"}], string' = string,
         crossed' = crossed, left' = left, gone' = gone
  PROVE  LoginTypes'
<1> USE ShapeFacts
<1>0. StartSteps = {"connecting", "half", "backoff", "naming"} BY DEF StartSteps
<1>1. PICK k \in Clients : \E x :
        Unused(k) /\ Launch(r, k, file) /\ Moves(r, "connecting", k, x)
  BY RelaunchFacts
<1>2. PICK x : Moves(r, "connecting", k, x) BY <1>1
<1>3. /\ listener' \in [cur : Clients \cup {None}, loops : Nat, ref : BOOLEAN]
      /\ listener'.cur = k /\ listener'.loops = listener.loops
      /\ listener'.ref = listener.ref
      /\ uses' \in [Clients -> Sessions] /\ main' \in Sessions /\ raced' \in BOOLEAN
  BY <1>1, LaunchFacts DEF LoginTypes
<1>4. Values' BY <1>3 DEF LoginTypes, Values, telegram, login
<1>5. Shape(r, [op |-> req[r].op, pc |-> "connecting", at |-> k, alone |-> req[r].alone])
  BY <1>0 DEF Shape, Asking
<1> QED BY <1>0, <1>2, <1>3, <1>4, <1>5, TypesMoves

LEMMA TypesListener ==
  ASSUME LoginTypes, NEW r \in Procs,
         \/ Promote(r) \/ Restarts(r) \/ ListenerStopped(r) \/ Parted(r)
         \/ ListenerAnswers(r) \/ ListenerInvalid(r) \/ ListenerSilent(r)
         \/ ListenerDropped(r) \/ Probed(r)
  PROVE  LoginTypes'
<1> USE ShapeFacts
<1>0. StartSteps = {"connecting", "half", "backoff", "naming"} BY DEF StartSteps
<1>a. Values BY DEF LoginTypes
<1>b. codes \in 0..MaxCodes /\ 1..codes \subseteq Attempts /\ 0..codes \subseteq Sessions
  BY <1>a, Constants DEF Values, None
<1>p. "connecting" \in Pcs /\ "stopping" \in Pcs /\ "parting" \in Pcs /\ "probing" \in Pcs
  BY DEF Pcs, StartSteps
<1>1. CASE Promote(r)
  <2>1. /\ req[r].pc = "leaving" /\ auth' = None /\ codes' = codes
        /\ telegram' = telegram /\ login' = login /\ string' = string
        /\ crossed' = crossed /\ left' = left /\ gone' = gone
    BY <1>1 DEF Promote, telegram
  <2>2. auth \in Sessions /\ None \in 0..codes BY <1>a, <1>b, Constants DEF Values, None
  <2>3. CASE Running
    <3>1. main' = auth /\ BeginsStop(r) /\ Waits(r, "stopping", listener.cur)
      BY <1>1, <2>3 DEF Promote
    <3>2. listener.cur \in Clients BY <1>a, <2>3 DEF Values, Running
    <3>3. /\ listener' \in [cur : Clients \cup {None}, loops : Nat, ref : BOOLEAN]
          /\ listener'.cur = listener.cur /\ listener'.ref = FALSE
          /\ link' = link /\ uses' = uses /\ raced' \in BOOLEAN
      BY <1>a, <3>1, StopFacts
    <3>4. Values' BY <1>a, <2>1, <2>2, <3>1, <3>3 DEF Values, telegram, login
    <3>5. PICK x : Moves(r, "stopping", listener.cur, x) BY <1>p, <3>1, <3>2, WaitsMoves
    <3>6. Shape(r, [op |-> req[r].op, pc |-> "stopping", at |-> listener.cur, alone |-> req[r].alone])
      BY <1>0, <2>1, <3>2 DEF Shape, Asking
    <3> QED BY <1>0, <2>1, <3>2, <3>3, <3>4, <3>5, <3>6, TypesMoves
  <2>4. CASE ~Running
    <3>1. Relaunch(r, auth) /\ link' = link BY <1>1, <2>4 DEF Promote
    <3>2. req[r].op \in SignsIn BY <2>1 DEF Shape, Asking
    <3> QED BY <1>a, <2>1, <2>2, <3>1, <3>2, TypesRelaunch DEF Values
  <2> QED BY <2>3, <2>4
<1>2. CASE Restarts(r)
  <2> DEFINE k == req[r].at
  <2>1. /\ req[r].pc = "stopping" /\ req[r].op \in SignsIn
        /\ auth' = auth /\ codes' = codes /\ telegram' = telegram /\ login' = login
        /\ string' = string /\ crossed' = crossed /\ left' = left /\ gone' = gone
    BY <1>2 DEF Restarts, telegram, At
  <2>2. CASE Stops(k) /\ Relaunch(r, main)
    <3>1. link' \in [Clients -> {"off", "half", "on"}] BY <1>a, <2>2 DEF Stops, Values
    <3> QED BY <1>a, <2>1, <2>2, <3>1, TypesRelaunch DEF Values
  <2>3. CASE RefusesStop(k) /\ StartFails(r, main) /\ UNCHANGED <<listener, uses, raced>>
    <3>1. main' \in Sessions => Values'
      BY <1>a, <2>1, <2>3 DEF Values, RefusesStop, telegram, login
    <3> QED BY <1>a, <2>1, <2>3, <3>1, TypesStartFails DEF Values
  <2> QED BY <1>2, <2>2, <2>3 DEF Restarts
<1>3. CASE ListenerStopped(r)
  <2>1. /\ req[r].pc = "stopping" /\ req[r].op = "logout" /\ codes' = codes
        /\ listener' = listener /\ Waits(r, "parting", None)
    BY <1>3 DEF ListenerStopped, telegram, At
  <2>2. Values'
    BY <1>a, <1>3 DEF ListenerStopped, Values, Stops, RefusesStop, Disconnected, files, telegram,
                      history
  <2>3. PICK x : Moves(r, "parting", None, x) BY <1>p, <2>1, Constants, WaitsMoves
  <2>4. Shape(r, [op |-> req[r].op, pc |-> "parting", at |-> None, alone |-> req[r].alone])
    BY <1>0, <2>1 DEF Shape, Asking
  <2> QED BY <1>0, <2>1, <2>2, <2>3, <2>4, TypesMoves
<1>4. CASE Parted(r)
  <2>1. state' \in States BY <1>a, <1>4, StateFacts DEF Parted
  <2>2. req[r].alone \in BOOLEAN /\ None \in 0..codes BY <1>a, Constants DEF Record, None, Values
  <2>3. Values'
    BY <1>a, <1>4, <2>1, <2>2, Constants DEF Parted, ClearsFiles, Values, States, telegram, clients
  <2> QED BY <1>4, <2>3, TypesEnds DEF Parted, telegram, clients
<1>5. CASE ListenerAnswers(r)
  <2>1. state' \in States BY <1>a, <1>5, StateFacts DEF ListenerAnswers
  <2>2. Values'
    BY <1>a, <1>5, <2>1 DEF ListenerAnswers, Values, States, files, telegram, clients, history
  <2> QED BY <1>5, <2>2, TypesEnds DEF ListenerAnswers, telegram, clients
<1>6. CASE ListenerInvalid(r)
  <2>1. /\ req[r].pc = "asking" /\ BeginsStop(r) /\ Waits(r, "stopping", listener.cur)
        /\ codes' = codes
    BY <1>6 DEF ListenerInvalid, telegram
  <2>2. listener.cur \in Clients /\ req[r].op = "status" BY <2>1 DEF Shape
  <2>3. /\ listener' \in [cur : Clients \cup {None}, loops : Nat, ref : BOOLEAN]
        /\ listener'.cur = listener.cur /\ listener'.ref = FALSE
        /\ link' = link /\ uses' = uses /\ raced' \in BOOLEAN
    BY <1>a, <2>1, StopFacts
  <2>4. Values' BY <1>a, <1>6, <2>3 DEF ListenerInvalid, Values, files, telegram, login
  <2>5. PICK x : Moves(r, "stopping", listener.cur, x) BY <1>p, <2>1, <2>2, WaitsMoves
  <2>6. Shape(r, [op |-> req[r].op, pc |-> "stopping", at |-> listener.cur, alone |-> req[r].alone])
    BY <1>0, <2>1, <2>2 DEF Shape, Asking
  <2> QED BY <1>0, <2>1, <2>2, <2>3, <2>4, <2>5, <2>6, TypesMoves
<1>7. CASE ListenerSilent(r)
  <2>1. req[r].pc = "asking" /\ req[r].op = "status" /\ codes' = codes /\ listener' = listener
    BY <1>7 DEF ListenerSilent, telegram, clients, Shape
  <2>2. main \in Sessions /\ Opened(main) \in Sessions BY <1>a, OpenedType DEF Values
  <2>3. Values'
    BY <1>a, <1>7, <2>2 DEF ListenerSilent, Values, telegram, login, clients, history
  <2>4. CASE Ends(r) BY <2>1, <2>3, <2>4, TypesEnds
  <2>5. CASE Waits(r, "probing", Opened(main))
    <3>1. PICK x : Moves(r, "probing", Opened(main), x) BY <1>p, <2>2, <2>5, WaitsMoves
    <3>2. Shape(r, [op |-> req[r].op, pc |-> "probing", at |-> Opened(main), alone |-> req[r].alone])
      BY <1>0, <2>1, <2>2 DEF Shape, Asking
    <3> QED BY <1>0, <2>1, <2>3, <3>1, <3>2, TypesMoves
  <2> QED BY <1>7, <2>4, <2>5 DEF ListenerSilent
<1>8. CASE ListenerDropped(r)
  <2>1. /\ req[r].pc = "stopping" /\ codes' = codes /\ listener' = listener /\ Ends(r)
        /\ Says(FALSE)
    BY <1>8 DEF ListenerDropped, telegram, At
  <2>2. state' \in States BY <1>a, <2>1, StateFacts
  <2>3. None \in 0..codes BY <1>a, Constants DEF None, Values
  <2>4. Values'
    BY <1>a, <1>8, <2>2, <2>3, Constants DEF ListenerDropped, ClearsFiles, Stops, RefusesStop,
                                             Values, States, telegram, history
  <2> QED BY <2>1, <2>4, TypesEnds
<1>9. CASE Probed(r)
  <2>1. /\ req[r].pc = "probing" /\ codes' = codes /\ listener' = listener /\ Ends(r)
        /\ Says(TRUE) \/ Says(FALSE)
        /\ main' \in {main, None} /\ string' \in {string, None}
        /\ auth' = auth /\ telegram' = telegram /\ live' = live /\ link' = link
        /\ uses' = uses /\ history' = history
    BY <1>9 DEF Probed, telegram, clients
  <2>2. state' \in States BY <1>a, <2>1, StateFacts
  <2>3. Values' BY <1>a, <2>1, <2>2, Constants DEF Values, States, telegram, history
  <2> QED BY <2>1, <2>3, TypesEnds
<1> QED BY <1>1, <1>2, <1>3, <1>4, <1>5, <1>6, <1>7, <1>8, <1>9

LEMMA TypesRequest ==
  ASSUME LoginTypes, NEW r \in Procs, Request(r) PROVE LoginTypes'
<1> USE ShapeFacts
<1>0. StartSteps = {"connecting", "half", "backoff", "naming"} BY DEF StartSteps
<1>a. Values BY DEF LoginTypes
<1>b. /\ codes \in 0..MaxCodes /\ 1..codes \subseteq Attempts /\ 0..codes \subseteq Sessions
      /\ main \in Sessions
  BY <1>a, Constants DEF Values, None
<1>p. /\ {"connecting", "stopping", "parting", "probing", "asking", "asked", "clearing"} \subseteq Pcs
      /\ {"send", "code", "password", "logout", "status", "config"} \subseteq Ops
      /\ None \in Sessions
  BY Constants DEF Pcs, StartSteps, Ops, SignsIn
<1>r. r \in Requests /\ req[r].pc = "idle"
  BY DEF Request, SendCode, SignIn, Logout, Status, SaveConfig, Accepts
<1>1. CASE SendCode(r)
  <2>1. /\ codes + Cardinality({q \in Requests : req[q].pc = "clearing"}) < MaxCodes
        /\ Begins(r, "send", "clearing", None) /\ codes' = codes /\ listener' = listener
    BY <1>1 DEF SendCode, telegram, clients
  <2>2. Values'
    BY <1>a, <1>1 DEF SendCode, Values, Disconnected, files, telegram, clients
  <2>3. /\ req' \in [Procs -> Record]
        /\ req'[r].op = "send" /\ req'[r].pc = "clearing" /\ req'[r].at = None
        /\ req'[r].alone => "send" = "logout" /\ \A p \in Procs \ {r} : req[p].pc = "idle"
        /\ \A p \in Procs : p # r =>
             /\ req'[p].op = req[p].op /\ req'[p].pc = req[p].pc /\ req'[p].at = req[p].at
             /\ req'[p].saw = req[p].saw /\ req'[p].alone = FALSE
    BY <1>b, <1>p, <2>1, BeginsFacts
  <2>4. Clearing' = Clearing \cup {r} /\ r \notin Clearing
    BY <1>r, <2>3, Constants DEF Clearing
  <2>5. Cardinality(Clearing \cup {r}) = Cardinality(Clearing) + 1
    BY <2>4, ClearingFinite, FS_AddElement
  <2>6. codes' + Cardinality(Clearing') <= MaxCodes
    <3>1. codes + Cardinality(Clearing) < MaxCodes BY <2>1 DEF Clearing
    <3>2. MaxCodes \in Nat /\ codes \in Nat BY <1>b, Constants
    <3>3. codes + (Cardinality(Clearing) + 1) <= MaxCodes BY <3>1, <3>2, ClearingFinite
    <3> QED BY <2>1, <2>4, <2>5, <3>3
  <2>7. Shape(r, [op |-> "send", pc |-> "clearing", at |-> None, alone |-> FALSE])
    BY <1>0, <1>r DEF Shape, Asking
  <2>8. Shapes'
    <3>1. Shapes BY DEF LoginTypes
    <3> QED BY <1>0, <1>b, <1>p, <1>r, <2>1, <2>7, <3>1, ShapesBegin
  <2> QED BY <2>2, <2>3, <2>6, <2>8 DEF LoginTypes
<1>2. CASE SignIn(r)
  <2>1. PICK op \in {"code", "password"} : Begins(r, op, "asked", state.client) /\ state.client # None
    BY <1>2 DEF SignIn, MayCheckPassword
  <2>2. state.client \in Attempts BY <1>a, <1>b, <2>1 DEF Values, None
  <2>3. Values'
    BY <1>a, <1>2 DEF SignIn, Values, files, telegram, login, clients
  <2>4. Shape(r, [op |-> op, pc |-> "asked", at |-> state.client, alone |-> FALSE])
    BY <1>0, <1>r, <2>2 DEF Shape, Asking, SignsIn
  <2>5. codes' = codes /\ listener' = listener BY <1>2 DEF SignIn, telegram, clients
  <2>6. op \in Ops /\ "asked" \in Pcs /\ state.client \in Sessions \cup Clients
    BY <1>p, <2>2, Constants
  <2> QED BY <1>0, <1>r, <2>1, <2>3, <2>4, <2>5, <2>6, TypesBegin
<1>3. CASE Logout(r)
  <2>1. CASE Running
    <3>1. BeginsStop(r) /\ Begins(r, "logout", "stopping", listener.cur) /\ codes' = codes /\ live' = live
      BY <1>3, <2>1 DEF Logout, telegram
    <3>2. listener.cur \in Clients BY <1>a, <2>1 DEF Values, Running
    <3>3. /\ listener' \in [cur : Clients \cup {None}, loops : Nat, ref : BOOLEAN]
          /\ listener'.cur = listener.cur /\ listener'.ref = FALSE
          /\ link' = link /\ uses' = uses /\ raced' \in BOOLEAN
      BY <1>a, <3>1, StopFacts
    <3>4. Values' BY <1>a, <1>3, <3>1, <3>3 DEF Logout, Values, files, telegram
    <3>5. Shape(r, [op |-> "logout", pc |-> "stopping", at |-> listener.cur, alone |-> FALSE])
      BY <1>0, <1>r, <3>2 DEF Shape, Asking
    <3>6. "logout" \in Ops /\ "stopping" \in Pcs BY <1>p
    <3> QED BY <1>r, <3>1, <3>2, <3>3, <3>4, <3>5, <3>6, TypesBegin
  <2>2. CASE ~Running
    <3>1. Begins(r, "logout", "parting", None) /\ codes' = codes /\ listener' = listener
      BY <1>3, <2>2 DEF Logout, telegram, clients
    <3>2. Values'
      <4>1. live' = live \ {state.client} /\ clients' = clients /\ raced' = raced
        BY <1>3, <2>2 DEF Logout, Disconnected
      <4>2. live' \subseteq 1..codes BY <1>a, <4>1 DEF Values
      <4> QED BY <1>a, <1>3, <4>1, <4>2 DEF Logout, Values, files, telegram, clients
    <3>3. Shape(r, [op |-> "logout", pc |-> "parting", at |-> None, alone |-> FALSE])
      BY <1>0, <1>r DEF Shape, Asking
    <3>4. "logout" \in Ops /\ "parting" \in Pcs BY <1>p
    <3> QED BY <1>0, <1>p, <1>r, <3>1, <3>2, <3>3, <3>4, TypesBegin
  <2> QED BY <2>1, <2>2
<1>4. CASE Status(r)
  <2>1. Values' /\ codes' = codes /\ listener' = listener
    BY <1>a, <1>4 DEF Status, Values, files, telegram, login, clients, history
  <2>2. CASE Running
    <3>1. Begins(r, "status", "asking", listener.cur) BY <1>4, <2>2 DEF Status
    <3>2. listener.cur \in Clients BY <1>a, <2>2 DEF Values, Running
    <3>3. Shape(r, [op |-> "status", pc |-> "asking", at |-> listener.cur, alone |-> FALSE])
      BY <1>0, <1>r, <3>2 DEF Shape, Asking
    <3>4. "status" \in Ops /\ "asking" \in Pcs BY <1>p
    <3> QED BY <1>r, <2>1, <3>1, <3>2, <3>3, <3>4, TypesBegin
  <2>3. CASE ~Running
    <3>1. Begins(r, "status", "probing", main) BY <1>4, <2>3 DEF Status
    <3>2. Shape(r, [op |-> "status", pc |-> "probing", at |-> main, alone |-> FALSE])
      BY <1>0, <1>b, <1>r DEF Shape, Asking
    <3>3. "status" \in Ops /\ "probing" \in Pcs BY <1>p
    <3> QED BY <1>0, <1>b, <1>r, <2>1, <3>1, <3>2, <3>3, TypesBegin
  <2> QED BY <2>2, <2>3
<1>5. CASE SaveConfig(r)
  <2>1. PICK k \in Clients :
          Unused(k) /\ Launch(r, k, main) /\ Begins(r, "config", "connecting", k)
    BY <1>5 DEF SaveConfig
  <2>2. /\ listener' \in [cur : Clients \cup {None}, loops : Nat, ref : BOOLEAN]
        /\ listener'.cur = k /\ listener'.loops = listener.loops
        /\ listener'.ref = listener.ref
        /\ uses' \in [Clients -> Sessions] /\ main' \in Sessions /\ raced' \in BOOLEAN
    BY <1>a, <1>b, <2>1, LaunchFacts
  <2>3. Values' /\ codes' = codes BY <1>a, <1>5, <2>2 DEF SaveConfig, Values, telegram, login
  <2>4. Shape(r, [op |-> "config", pc |-> "connecting", at |-> k, alone |-> FALSE])
    BY <1>0, <1>r DEF Shape, Asking
  <2>5. "config" \in Ops /\ "connecting" \in Pcs BY <1>p
  <2> QED BY <1>r, <2>1, <2>2, <2>3, <2>4, <2>5, TypesBegin
<1> QED BY <1>1, <1>2, <1>3, <1>4, <1>5 DEF Request

LEMMA TypesInit == Init => LoginTypes
<1> SUFFICES ASSUME Init PROVE LoginTypes OBVIOUS
<1>1. /\ main = None /\ auth = None /\ string = None
      /\ signed = {} /\ passed = {} /\ revoked = {} /\ codes = 0
      /\ state = Fresh /\ live = {} /\ listener = Stopped
      /\ link = [k \in Clients |-> "off"] /\ uses = [k \in Clients |-> None]
      /\ req = [r \in Procs |-> Idle]
      /\ crossed = FALSE /\ raced = FALSE /\ left = FALSE /\ gone = FALSE
  BY DEF Init
<1>2. Values
  <2>1. Fresh \in [client : 0..0, needs_2fa : BOOLEAN, logged_in : BOOLEAN] BY DEF Fresh, None
  <2>2. /\ Stopped \in [cur : Clients \cup {None}, loops : Nat, ref : BOOLEAN]
        /\ Stopped.ref = FALSE
    BY DEF Stopped
  <2>3. 0 \in 0..MaxCodes /\ None \in 0..0 BY Constants DEF None
  <2> QED BY <1>1, <2>1, <2>2, <2>3, Constants DEF Values
<1>3. Shapes BY <1>1, ShapeIdle DEF Shapes, HoldsClient, Starting, StartSteps, Idle
<1>4. req \in [Procs -> Record] BY <1>1, ShapeIdle
<1>5. Clearing = {} BY <1>1, ShapeIdle, Constants DEF Clearing
<1>6. Cardinality(Clearing) = 0 BY <1>5, FS_EmptySet
<1>7. codes + Cardinality(Clearing) <= MaxCodes BY <1>1, <1>6, Constants
<1> QED BY <1>2, <1>3, <1>4, <1>7 DEF LoginTypes

(* What a restart of the application leaves in progress. *)
LEMMA RestartFacts ==
  ASSUME LoginTypes, Restart
  PROVE  /\ req' \in [Procs -> Record]
         /\ \A q \in Procs : req'[q] = Idle \/
              /\ q = Boot /\ main # None /\ listener'.cur = 1 /\ uses'[1] = main
              /\ req'[q].op = "boot" /\ req'[q].pc = "connecting" /\ req'[q].at = 1
              /\ req'[q].alone = FALSE
         /\ listener' \in [cur : Clients \cup {None}, loops : Nat, ref : BOOLEAN]
         /\ listener'.loops = 0 /\ listener'.ref = FALSE
         /\ \A k \in Clients : link'[k] = "off"
<1>a. /\ main \in Sessions /\ req \in [Procs -> Record] /\ 1 \in Clients
      /\ MaxRetries \in Nat
  BY Constants DEF LoginTypes, Values
<1> DEFINE new == [op |-> "boot", pc |-> "connecting", at |-> 1, saw |-> None, tries |-> 0,
                   alone |-> FALSE]
<1>1. /\ listener'.cur = (IF main # None THEN 1 ELSE None)
      /\ listener' \in [cur : Clients \cup {None}, loops : Nat, ref : BOOLEAN]
      /\ listener'.loops = 0 /\ listener'.ref = FALSE
  <2>1. listener' = [cur |-> IF main # None THEN 1 ELSE None, loops |-> 0, ref |-> FALSE]
    BY DEF Restart, Stopped
  <2> QED BY <1>a, <2>1
<1>2. /\ \A k \in Clients : link'[k] = "off"
      /\ main # None => uses'[1] = main
  BY <1>a DEF Restart
<1>3. new \in Record /\ Idle \in Record
  <2>1. "connecting" \in Pcs /\ "boot" \in Ops BY DEF Pcs, StartSteps, Ops
  <2>2. 0 \in 0..MaxRetries BY <1>a
  <2> QED BY <1>a, <2>1, <2>2, Constants, IdleIsRecord DEF Record
<1>4. req' = [q \in Procs |-> IF q = Boot /\ main # None THEN new ELSE Idle]
  BY DEF Restart
<1>5. req' \in [Procs -> Record] BY <1>3, <1>4
<1>6. ASSUME NEW q \in Procs
      PROVE  req'[q] = Idle \/
              /\ q = Boot /\ main # None /\ listener'.cur = 1 /\ uses'[1] = main
              /\ req'[q].op = "boot" /\ req'[q].pc = "connecting" /\ req'[q].at = 1
              /\ req'[q].alone = FALSE
  <2>1. CASE q = Boot /\ main # None BY <1>1, <1>2, <1>4, <2>1
  <2>2. CASE ~(q = Boot /\ main # None) BY <1>4, <2>2
  <2> QED BY <2>1, <2>2
<1> QED BY <1>1, <1>2, <1>5, <1>6

LEMMA TypesRestart == ASSUME LoginTypes, Restart PROVE LoginTypes'
<1>1. /\ req' \in [Procs -> Record]
      /\ \A q \in Procs : req'[q] = Idle \/
           /\ q = Boot /\ main # None /\ listener'.cur = 1 /\ uses'[1] = main
           /\ req'[q].op = "boot" /\ req'[q].pc = "connecting" /\ req'[q].at = 1
           /\ req'[q].alone = FALSE
      /\ listener' \in [cur : Clients \cup {None}, loops : Nat, ref : BOOLEAN]
      /\ listener'.loops = 0 /\ listener'.ref = FALSE
      /\ \A k \in Clients : link'[k] = "off"
  BY RestartFacts
<1>a. Values BY DEF LoginTypes
<1>2. Values'
  <2>1. link' \in [Clients -> {"off", "half", "on"}] /\ uses' \in [Clients -> Sessions]
    BY <1>a, Constants DEF Restart, Values
  <2>2. state' \in States BY <1>a, StateFacts, Constants DEF Restart, Procs
  <2> QED BY <1>a, <1>1, <2>1, <2>2 DEF Restart, Values, States, files, telegram
<1>3. Shapes'
  <2>1. ASSUME NEW q \in Procs
        PROVE  /\ Shape(q, req'[q]) /\ req'[q].alone = FALSE /\ req'[q].pc # "sending"
               /\ req'[q].pc \in StartSteps \cup {"stopping", "asking"} => listener'.cur \in Clients
    <3>1. CASE req'[q] = Idle BY <3>1, ShapeIdle DEF StartSteps
    <3>2. CASE req'[q] # Idle
      <4>1. /\ q = Boot /\ listener'.cur = 1 /\ req'[q].alone = FALSE
            /\ req'[q].op = "boot" /\ req'[q].pc = "connecting" /\ req'[q].at = 1
        BY <1>1, <3>2
      <4> QED BY <4>1, Constants DEF Shape, StartSteps, Asking
    <3> QED BY <3>1, <3>2
  <2> QED BY <2>1 DEF Shapes, HoldsClient, Starting
<1>4. Clearing' = {} BY <1>1, ShapeIdle, Constants DEF Clearing
<1>5. Cardinality(Clearing') = 0 BY <1>4, FS_EmptySet
<1>6. codes' + Cardinality(Clearing') <= MaxCodes BY <1>a, <1>5, Constants DEF Restart, telegram, Values
<1> QED BY <1>1, <1>2, <1>3, <1>6 DEF LoginTypes

LEMMA TypesRest ==
  ASSUME LoginTypes,
         Refresh \/ WorkerClears \/ (\E a \in Attempts : Revoke(a)) \/ UNCHANGED vars
  PROVE  LoginTypes'
<1>a. Values BY DEF LoginTypes
<1>1. /\ req' = req /\ codes' = codes /\ listener' = listener /\ Values'
  <2>1. CASE Refresh
    BY <1>a, <2>1 DEF Refresh, Exported, Values, files, telegram, login, clients, history
  <2>2. CASE WorkerClears
    BY <1>a, <2>2 DEF WorkerClears, Values, files, telegram, login, clients, history
  <2>3. CASE \E a \in Attempts : Revoke(a)
    BY <1>a, <2>3 DEF Revoke, Values, files, login, clients, history
  <2>4. CASE UNCHANGED vars
    BY <1>a, <2>4 DEF vars, Values, files, telegram, login, clients, history
  <2> QED BY <2>1, <2>2, <2>3, <2>4
<1>2. Shapes' BY <1>1 DEF LoginTypes, Shapes, Shape, HoldsClient, Starting
<1>3. Clearing' = Clearing BY <1>1 DEF Clearing
<1>4. codes' + Cardinality(Clearing') <= MaxCodes BY <1>1, <1>3 DEF LoginTypes
<1> QED BY <1>1, <1>2, <1>4 DEF LoginTypes

LEMMA TypesNext == LoginTypes /\ [Next]_vars => LoginTypes'
BY TypesStart, TypesSignIn, TypesListener, TypesRequest, TypesRestart, TypesRest
   DEF Next, Step

(* Type correctness of the login flow. *)
THEOREM LoginTypeCorrect == Spec => []TypeOK
BY TypesInit, TypesNext, LoginTypesAre, PTL DEF Spec

-----------------------------------------------------------------------------
(* Who a step of request r concerns. *)
Rest(r) ==
  \A p \in Procs : p # r =>
    /\ req'[p].op = req[p].op /\ req'[p].pc = req[p].pc /\ req'[p].at = req[p].at
    /\ req'[p].saw = req[p].saw
    /\ req'[p].alone => req[p].alone
Keeps(r) ==
  /\ req'[r].op = req[r].op /\ req'[r].saw = req[r].saw /\ req'[r].alone = req[r].alone
Over(r) == req'[r].op = "none" /\ req'[r].pc = "idle" /\ req'[r].alone = FALSE

LEMMA WaitsFacts ==
  ASSUME LoginTypes, NEW r \in Procs, NEW step, NEW on, Waits(r, step, on)
  PROVE  Rest(r) /\ Keeps(r) /\ req'[r].pc = step /\ req'[r].at = on
<1>1. req \in [Procs -> Record] BY DEF LoginTypes
<1>2. /\ req'[r] = [req[r] EXCEPT !.pc = step, !.at = on]
      /\ \A p \in Procs : p # r => req'[p] = req[p]
  BY <1>1 DEF Waits, Becomes
<1>3. req[r] \in Record BY <1>1
<1> QED BY <1>2, <1>3 DEF Rest, Keeps, Record

LEMMA GoesFacts ==
  ASSUME LoginTypes, NEW r \in Procs, NEW step, Goes(r, step)
  PROVE  Rest(r) /\ Keeps(r) /\ req'[r].pc = step /\ req'[r].at = req[r].at
<1>1. req \in [Procs -> Record] BY DEF LoginTypes
<1>2. /\ req'[r] = [req[r] EXCEPT !.pc = step]
      /\ \A p \in Procs : p # r => req'[p] = req[p]
  BY <1>1 DEF Goes, Becomes
<1>3. req[r] \in Record BY <1>1
<1> QED BY <1>2, <1>3 DEF Rest, Keeps, Record

LEMMA EndsFacts ==
  ASSUME LoginTypes, NEW r \in Procs, Ends(r) PROVE Rest(r) /\ Over(r)
<1>1. req \in [Procs -> Record] BY DEF LoginTypes
<1>2. req'[r] = Idle /\ \A p \in Procs : p # r => req'[p] = req[p]
  BY <1>1 DEF Ends, Becomes
<1> QED BY <1>2 DEF Rest, Over, Idle

LEMMA FailsFacts ==
  ASSUME LoginTypes, NEW r \in Procs, NEW file, StartFails(r, file)
  PROVE  /\ Rest(r)
         /\ \/ req[r].op \notin SignsIn /\ Over(r) /\ main' = file
            \/ /\ req[r].op \in SignsIn /\ Keeps(r)
               /\ req'[r].pc = "fallback" /\ req'[r].at = Opened(file) /\ main' = Opened(file)
BY WaitsFacts, EndsFacts DEF StartFails

LEMMA BeginsRest ==
  ASSUME LoginTypes, NEW r \in Procs, NEW op \in Ops, NEW step \in Pcs,
         NEW on \in Sessions \cup Clients, Begins(r, op, step, on)
  PROVE  /\ Rest(r) /\ req'[r].op = op /\ req'[r].pc = step /\ req'[r].at = on
         /\ req'[r].alone => op = "logout" /\ \A p \in Procs \ {r} : req[p].pc = "idle"
         /\ \A p \in Procs : p # r => req'[p].alone = FALSE
<1>1. req \in [Procs -> Record] /\ main \in Sessions BY DEF LoginTypes, Values
<1>2. /\ req' \in [Procs -> Record]
      /\ req'[r].op = op /\ req'[r].pc = step /\ req'[r].at = on
      /\ req'[r].alone => op = "logout" /\ \A p \in Procs \ {r} : req[p].pc = "idle"
      /\ \A p \in Procs : p # r =>
           /\ req'[p].op = req[p].op /\ req'[p].pc = req[p].pc /\ req'[p].at = req[p].at
           /\ req'[p].saw = req[p].saw /\ req'[p].alone = FALSE
  BY <1>1, BeginsFacts
<1> QED BY <1>2 DEF Rest

LEMMA DuplicateFacts ==
  ASSUME LoginTypes, NEW r \in Procs, Duplicate(r)
  PROVE  Rest(r) /\ Keeps(r) /\ req'[r].pc = "backoff" /\ req'[r].at = req[r].at
<1>1. /\ req'[r] = [req[r] EXCEPT !.pc = "backoff",
                       !.tries = IF @ < MaxRetries THEN @ + 1 ELSE @]
      /\ \A p \in Procs : p # r => req'[p] = req[p]
  BY DEF Duplicate, Becomes, LoginTypes
<1>2. req[r] \in Record BY ShapeFacts
<1> QED BY <1>1, <1>2 DEF Rest, Keeps, Record

LEMMA SignedInFacts ==
  ASSUME LoginTypes, NEW r \in Procs, SignedIn(r)
  PROVE  /\ Rest(r)
         /\ \/ Over(r) /\ state.client = None
            \/ /\ req'[r].pc = "greeting" /\ req'[r].at = state.client /\ state.client # None
               /\ req'[r].saw = req[r].at /\ req'[r].op = req[r].op
               /\ req'[r].alone = req[r].alone
<1>1. CASE state.client = None BY <1>1, EndsFacts DEF SignedIn
<1>2. CASE state.client # None
  <2>1. /\ req'[r] = [req[r] EXCEPT !.pc = "greeting", !.at = state.client, !.saw = req[r].at]
        /\ \A p \in Procs : p # r => req'[p] = req[p]
    BY <1>2 DEF SignedIn, Becomes, LoginTypes
  <2>2. req[r] \in Record BY ShapeFacts
  <2> QED BY <1>2, <2>1, <2>2 DEF Rest, Record
<1> QED BY <1>1, <1>2

(* How a start goes on. *)
LEMMA StartStepFacts ==
  ASSUME LoginTypes, NEW r \in Procs, StartStep(r)
  PROVE  /\ Rest(r) /\ req[r].pc \in StartSteps
         /\ \/ Over(r)
            \/ Keeps(r) /\ req'[r].pc \in StartSteps
            \/ Keeps(r) /\ req'[r].pc = "fallback"
<1>0. StartSteps = {"connecting", "half", "backoff", "naming"} BY DEF StartSteps
<1>1. req[r].pc \in StartSteps
  BY <1>0 DEF StartStep, Connects, Authorises, Duplicate, Retries, AuthFails, OtherError, TimesOut,
              Started, Starting
<1>2. \/ Goes(r, "half") \/ Duplicate(r) \/ Ends(r)
      \/ (\E k : Waits(r, "naming", k) \/ Waits(r, "connecting", k))
      \/ (\E f : StartFails(r, f))
  BY DEF StartStep, Connects, Authorises, Retries, AuthFails, OtherError, TimesOut, Started,
         FinishLogin
<1> QED BY <1>0, <1>1, <1>2, GoesFacts, DuplicateFacts, EndsFacts, WaitsFacts, FailsFacts

LEMMA StepRest ==
  ASSUME LoginTypes, NEW r \in Procs, Step(r) PROVE Rest(r)
<1>1. CASE StartStep(r) BY <1>1, StartStepFacts
<1>2. CASE SignedIn(r) BY <1>2, SignedInFacts
<1>3. CASE ~StartStep(r) /\ ~SignedIn(r)
  <2>1. Ends(r) \/ (\E step, on : Waits(r, step, on)) \/ (\E f : StartFails(r, f))
    BY <1>3 DEF Step, Fallback, FinishLogin, OpensAuth, CodeSent, CodeNotSent, NeedsPassword,
       SignInFails, Greeted, Promote, Restarts, Relaunch, ListenerStopped, Parted,
       ListenerAnswers, ListenerInvalid, ListenerSilent, ListenerDropped, Probed
  <2> QED BY <2>1, EndsFacts, WaitsFacts, FailsFacts
<1> QED BY <1>1, <1>2, <1>3

-----------------------------------------------------------------------------
(* One client and one loop *)

(* A step that leaves the listener alone, but for the client a start is at. *)
LEMMA OneClientKept ==
  ASSUME LoginTypes, OneClient, NEW r \in Procs, Rest(r), listener' = listener, raced' = raced,
         \A k \in Clients : link'[k] = link[k] \/ (Starting(r) /\ k = req[r].at),
         req'[r].pc \in StartSteps =>
           Starting(r) /\ (req'[r].at = req[r].at \/ req'[r].at = listener.cur),
         req'[r].pc # "stopping"
  PROVE  OneClient'
<1> SUFFICES ASSUME ~raced
             PROVE  /\ \A k \in Clients : link'[k] # "off" => k = listener.cur
                    /\ listener.cur = None \/ link'[listener.cur] = "off" => Silent
                    /\ \A q \in Procs :
                         req'[q].pc \in StartSteps =>
                           /\ req'[q].at = listener.cur /\ Silent
                           /\ \A p \in Procs : req'[p].pc \in StartSteps => p = q
                           /\ \A p \in Procs : req'[p].pc = "stopping" => req'[p].at # req'[q].at
                    /\ \A q \in Procs : req'[q].pc = "stopping" /\ link'[req'[q].at] = "on" => Silent
  BY DEF OneClient, Silent, Starting
<1>1. Starting(r) => req[r].at = listener.cur /\ Silent BY DEF OneClient
<1>2. \A k \in Clients : link'[k] # "off" => k = listener.cur BY <1>1 DEF OneClient
<1>3. listener.cur = None \/ link'[listener.cur] = "off" => Silent
  BY <1>1 DEF OneClient, LoginTypes, Values
<1>4. \A q \in Procs : req'[q].pc \in StartSteps =>
        Starting(q) /\ req'[q].at = listener.cur
  BY <1>1 DEF OneClient, Starting, Rest
<1>5. \A q \in Procs : req'[q].pc = "stopping" =>
        q # r /\ req[q].pc = "stopping" /\ req'[q].at = req[q].at
  BY DEF Rest
<1>6. ASSUME NEW q \in Procs, req'[q].pc \in StartSteps
      PROVE  /\ req'[q].at = listener.cur /\ Silent
             /\ \A p \in Procs : req'[p].pc \in StartSteps => p = q
             /\ \A p \in Procs : req'[p].pc = "stopping" => req'[p].at # req'[q].at
  <2>1. Starting(q) /\ req'[q].at = listener.cur /\ req[q].at = listener.cur /\ Silent
    BY <1>4, <1>6 DEF OneClient
  <2>2. \A p \in Procs : req'[p].pc \in StartSteps => p = q
    BY <1>4, <2>1 DEF OneClient
  <2>3. \A p \in Procs : req'[p].pc = "stopping" => req'[p].at # req'[q].at
    BY <1>5, <2>1 DEF OneClient
  <2> QED BY <2>1, <2>2, <2>3
<1>7. ASSUME NEW q \in Procs, req'[q].pc = "stopping", link'[req'[q].at] = "on" PROVE Silent
  <2>1. req[q].pc = "stopping" /\ req'[q].at = req[q].at /\ req[q].at \in Clients
    BY <1>5, <1>7, ShapeFacts
  <2>2. link'[req[q].at] = link[req[q].at] \/ Starting(r) BY <2>1
  <2> QED BY <1>1, <1>7, <2>1, <2>2 DEF OneClient
<1> QED BY <1>2, <1>3, <1>6, <1>7

(* A stop begins: it finds the loop, for nobody is starting. *)
LEMMA OneClientStop ==
  ASSUME LoginTypes, OneClient, NEW r \in Procs, Rest(r), BeginsStop(r),
         req'[r].pc \notin StartSteps
  PROVE  OneClient'
<1>1. /\ listener' \in [cur : Clients \cup {None}, loops : Nat, ref : BOOLEAN]
      /\ listener'.cur = listener.cur /\ listener'.ref = FALSE
      /\ listener'.loops = IF listener.ref THEN listener.loops - 1 ELSE listener.loops
      /\ link' = link /\ uses' = uses /\ raced' \in BOOLEAN
      /\ raced' = (raced \/ \E q \in Procs \ {r} : Starting(q))
  BY StopFacts DEF LoginTypes
<1> SUFFICES ASSUME ~raced' PROVE OneClient' BY DEF OneClient
<1>2. ~raced /\ \A q \in Procs \ {r} : ~Starting(q) BY <1>1
<1>3. listener'.loops = 0 BY <1>1, <1>2 DEF OneClient, LoginTypes, Values
<1>4. \A q \in Procs : req'[q].pc \notin StartSteps BY <1>2 DEF Rest, Starting
<1>5. \A k \in Clients : link'[k] # "off" => k = listener'.cur BY <1>1, <1>2 DEF OneClient
<1> QED BY <1>1, <1>3, <1>4, <1>5 DEF OneClient, Silent, Starting

(* A start begins, once nothing else runs. *)
LEMMA OneClientLaunch ==
  ASSUME LoginTypes, OneClient, NEW r \in Procs, Rest(r), NEW k \in Clients, NEW file \in Sessions,
         Unused(k), Launch(r, k, file), req'[r].pc = "connecting", req'[r].at = k,
         ~raced => Silent /\ \A j \in Clients : link'[j] = "off"
  PROVE  OneClient'
<1>1. /\ listener'.cur = k /\ listener'.loops = listener.loops /\ listener'.ref = listener.ref
      /\ raced' = (raced \/ \E q \in Procs \ {r} : Starting(q))
  BY LaunchFacts DEF LoginTypes
<1> SUFFICES ASSUME ~raced' PROVE OneClient' BY DEF OneClient
<1>2. /\ ~raced /\ \A q \in Procs \ {r} : ~Starting(q)
      /\ listener'.loops = 0 /\ ~listener'.ref
      /\ \A j \in Clients : link'[j] = "off"
  BY <1>1 DEF Silent
<1>3. \A q \in Procs : req'[q].pc \in StartSteps => q = r BY <1>2 DEF Rest, Starting
<1>4. \A p \in Procs : req'[p].pc = "stopping" => req'[p].at \in Clients /\ req'[p].at # k
  <2>1. \A p \in Procs : req'[p].pc = "stopping" =>
          p # r /\ req[p].pc = "stopping" /\ req'[p].at = req[p].at
    BY DEF Rest
  <2> QED BY <2>1, ShapeFacts DEF Unused, HoldsClient
<1>5. listener'.loops = IF listener'.ref THEN 1 ELSE 0 BY <1>2
<1> QED BY <1>1, <1>2, <1>3, <1>4, <1>5 DEF OneClient, Silent, Starting

(* A stop ends: its client was the only one, if it stopped anything. *)
LEMMA OneClientGone ==
  ASSUME LoginTypes, OneClient, NEW r \in Procs, Rest(r), req[r].pc = "stopping",
         Stops(req[r].at) \/ RefusesStop(req[r].at),
         listener' = listener, raced' = raced, req'[r].pc \notin StartSteps \cup {"stopping"}
  PROVE  OneClient'
<1> DEFINE k == req[r].at
<1>1. k \in Clients BY ShapeFacts
<1>2. CASE link' = link BY <1>2, OneClientKept
<1>3. CASE link[k] = "on" /\ link' = [link EXCEPT ![k] = "off"]
  <2> SUFFICES ASSUME ~raced PROVE OneClient' BY DEF OneClient
  <2>1. Silent /\ k = listener.cur BY <1>1, <1>3 DEF OneClient
  <2>2. \A j \in Clients : link'[j] = "off"
    BY <1>1, <1>3, <2>1 DEF OneClient, LoginTypes, Values
  <2>3. \A q \in Procs : ~Starting(q) BY <2>1 DEF OneClient
  <2>4. \A q \in Procs : req'[q].pc \notin StartSteps BY <2>3 DEF Rest, Starting
  <2>5. \A q \in Procs : req'[q].pc = "stopping" => req'[q].at \in Clients
    <3>1. \A q \in Procs : req'[q].pc = "stopping" =>
            req[q].pc = "stopping" /\ req'[q].at = req[q].at
      BY DEF Rest
    <3> QED BY <3>1, ShapeFacts
  <2> QED BY <2>1, <2>2, <2>4, <2>5 DEF OneClient, Silent, Starting
<1> QED BY <1>2, <1>3 DEF Stops, RefusesStop

LEMMA OneClientStart ==
  ASSUME LoginTypes, OneClient, NEW r \in Procs, StartStep(r) PROVE OneClient'
<1> DEFINE k == req[r].at
<1>0. StartSteps = {"connecting", "half", "backoff", "naming"} BY DEF StartSteps
<1>k. req[r].pc \in StartSteps => k \in Clients /\ listener.cur \in Clients BY ShapeFacts
<1>a. /\ link \in [Clients -> {"off", "half", "on"}]
      /\ listener \in [cur : Clients \cup {None}, loops : Nat, ref : BOOLEAN]
  BY DEF LoginTypes, Values
<1>1. CASE Connects(r)
  <2>1. Rest(r) /\ req'[r].pc = "half" /\ req'[r].at = k BY <1>1, GoesFacts DEF Connects
  <2> QED BY <1>0, <1>1, <1>a, <2>1, OneClientKept DEF Connects, Starting, history
<1>2. CASE Authorises(r)
  <2>1. CASE link'[listener.cur] # "off"
    <3>1. Waits(r, "naming", listener.cur) BY <1>2, <1>a, <2>1 DEF Authorises
    <3>2. Rest(r) /\ req'[r].pc = "naming" /\ req'[r].at = listener.cur BY <3>1, WaitsFacts
    <3> QED BY <1>0, <1>2, <1>a, <3>2, OneClientKept DEF Authorises, Starting
  <2>2. CASE link'[listener.cur] = "off"
    <3>1. StartFails(r, main) BY <1>2, <2>2 DEF Authorises
    <3>2. Rest(r) /\ req'[r].pc \in {"idle", "fallback"} BY <3>1, FailsFacts DEF Over
    <3> QED BY <1>0, <1>2, <1>a, <3>2, OneClientKept DEF Authorises, Starting
  <2> QED BY <2>1, <2>2
<1>3. CASE Duplicate(r)
  <2>1. Rest(r) /\ req'[r].pc = "backoff" /\ req'[r].at = k BY <1>3, DuplicateFacts
  <2> QED BY <1>0, <1>3, <1>a, <2>1, OneClientKept DEF Duplicate, Starting, history
<1>4. CASE Retries(r)
  <2>1. Rest(r) /\ req'[r].pc \in {"connecting", "idle", "fallback"}
        /\ (req'[r].pc = "connecting" => req'[r].at = listener.cur)
    BY <1>4, WaitsFacts, FailsFacts DEF Retries, Over
  <2> QED BY <1>0, <1>4, <2>1, OneClientKept DEF Retries, Starting, history
<1>5. CASE AuthFails(r)
  <2>1. Rest(r) /\ req'[r].pc \in {"idle", "fallback"} BY <1>5, FailsFacts DEF AuthFails, Over
  <2> QED BY <1>0, <1>5, <1>a, <2>1, OneClientKept DEF AuthFails, Starting, history
<1>6. CASE OtherError(r)
  <2>1. Rest(r) /\ req'[r].pc \in {"idle", "fallback"} BY <1>6, FailsFacts DEF OtherError, Over
  <2>2. req[r].pc \in StartSteps BY <1>0, <1>6 DEF OtherError, Starting
  <2>3. \A j \in Clients : link'[j] = link[j] \/ j = k BY <1>6, <1>a DEF OtherError
  <2> QED BY <1>0, <1>6, <2>1, <2>2, <2>3, OneClientKept DEF OtherError, Starting
<1>7. CASE TimesOut(r)
  <2>1. Rest(r) /\ req'[r].pc \in {"idle", "fallback"} BY <1>7, FailsFacts DEF TimesOut, Over
  <2> QED BY <1>0, <1>7, <2>1, OneClientKept DEF TimesOut, Starting, clients
<1>8. CASE Started(r)
  <2> SUFFICES ASSUME ~raced PROVE OneClient' BY <1>8 DEF OneClient, Started, history
  <2>1. /\ req[r].pc = "naming" /\ link[k] # "off" /\ Ends(r) /\ link' = link
        /\ listener' = [listener EXCEPT !.loops = @ + 1, !.ref = TRUE]
    BY <1>8 DEF Started, FinishLogin, StartsLoop
  <2>2. Rest(r) /\ req'[r].pc = "idle" BY <2>1, EndsFacts DEF Over
  <2>3. k = listener.cur /\ listener.loops = 0 BY <1>0, <2>1 DEF OneClient, Silent, Starting
  <2>4. listener'.cur = k /\ listener'.loops = 1 /\ listener'.ref
    <3>1. listener' = [cur |-> listener.cur, loops |-> listener.loops + 1, ref |-> TRUE]
      BY <1>a, <2>1
    <3> QED BY <2>3, <3>1
  <2>5. \A q \in Procs : req'[q].pc \notin StartSteps
    BY <1>0, <2>1, <2>2 DEF OneClient, Starting, Rest
  <2>6. ASSUME NEW q \in Procs, req'[q].pc = "stopping" PROVE link'[req'[q].at] # "on"
    <3>1. q # r /\ req[q].pc = "stopping" /\ req'[q].at = req[q].at /\ req[q].at \in Clients
      BY <2>2, <2>6, ShapeFacts DEF Rest
    <3>2. req[q].at # k BY <1>0, <2>1, <3>1 DEF OneClient, Starting
    <3> QED BY <2>1, <2>3, <3>1, <3>2 DEF OneClient
  <2>7. listener'.cur # None BY <1>0, <1>k, <2>1, <2>4, Constants
  <2>8. \A j \in Clients : link'[j] # "off" => j = listener'.cur
    BY <2>1, <2>3, <2>4 DEF OneClient
  <2> QED BY <2>1, <2>4, <2>5, <2>6, <2>7, <2>8 DEF OneClient, Starting
<1> QED BY <1>1, <1>2, <1>3, <1>4, <1>5, <1>6, <1>7, <1>8 DEF StartStep

LEMMA QuietListener ==
  ASSUME LoginTypes, OneClient, ~Running, ~raced
  PROVE  Silent /\ \A j \in Clients : link[j] = "off"
<1>1. listener.cur = None \/ link[listener.cur] = "off" BY DEF Running
<1>2. Silent BY <1>1 DEF OneClient
<1>3. \A j \in Clients : link[j] # "off" => j = listener.cur BY DEF OneClient
<1> QED BY <1>1, <1>2, <1>3, Constants

LEMMA OneClientStep ==
  ASSUME LoginTypes, OneClient, NEW r \in Procs, Step(r) PROVE OneClient'
<1> DEFINE k == req[r].at
<1>0. StartSteps = {"connecting", "half", "backoff", "naming"} BY DEF StartSteps
<1>1. CASE StartStep(r) BY <1>1, OneClientStart
<1>2. CASE \/ Fallback(r) \/ CodeSent(r) \/ CodeNotSent(r) \/ NeedsPassword(r) \/ SignInFails(r)
           \/ Parted(r) \/ ListenerAnswers(r) \/ Probed(r)
  <2>1. /\ Ends(r) /\ listener' = listener /\ link' = link /\ raced' = raced
    BY <1>2 DEF Fallback, FinishLogin, CodeSent, CodeNotSent, NeedsPassword, SignInFails, Parted,
                ListenerAnswers, Probed, clients, history
  <2>2. Rest(r) /\ req'[r].pc = "idle" BY <2>1, EndsFacts DEF Over
  <2> QED BY <1>0, <2>1, <2>2, OneClientKept
<1>3. CASE OpensAuth(r) \/ Greeted(r) \/ ListenerSilent(r)
  <2>1. /\ Rest(r) /\ req'[r].pc \in {"sending", "leaving", "probing", "idle"}
        /\ listener' = listener /\ link' = link /\ raced' = raced
    BY <1>3, WaitsFacts, EndsFacts DEF OpensAuth, Greeted, ListenerSilent, Over, clients, history
  <2> QED BY <1>0, <2>1, OneClientKept
<1>4. CASE SignedIn(r)
  <2>1. Rest(r) /\ req'[r].pc \in {"idle", "greeting"} BY <1>4, SignedInFacts DEF Over
  <2> QED BY <1>0, <1>4, <2>1, OneClientKept DEF SignedIn, clients
<1>5. CASE Promote(r)
  <2>1. CASE Running
    <3>1. BeginsStop(r) /\ Rest(r) /\ req'[r].pc = "stopping"
      BY <1>5, <2>1, WaitsFacts DEF Promote
    <3> QED BY <1>0, <3>1, OneClientStop
  <2>2. CASE ~Running
    <3>1. Relaunch(r, auth) /\ link' = link BY <1>5, <2>2 DEF Promote
    <3>2. PICK j \in Clients : Unused(j) /\ Launch(r, j, auth) /\ Waits(r, "connecting", j)
      BY <3>1 DEF Relaunch
    <3>3. Rest(r) /\ req'[r].pc = "connecting" /\ req'[r].at = j BY <3>2, WaitsFacts
    <3>4. ~raced => Silent /\ \A i \in Clients : link'[i] = "off"
      BY <2>2, <3>1, QuietListener
    <3>5. auth \in Sessions
      <4>1. codes \in 0..MaxCodes /\ auth \in 0..codes BY DEF LoginTypes, Values
      <4> QED BY <4>1, Constants DEF None
    <3> QED BY <3>2, <3>3, <3>4, <3>5, OneClientLaunch
  <2> QED BY <2>1, <2>2
<1>6. CASE Restarts(r)
  <2>1. CASE Stops(k) /\ Relaunch(r, main)
    <3>1. PICK j \in Clients : Unused(j) /\ Launch(r, j, main) /\ Waits(r, "connecting", j)
      BY <2>1 DEF Relaunch
    <3>2. Rest(r) /\ req'[r].pc = "connecting" /\ req'[r].at = j BY <3>1, WaitsFacts
    <3>3. main \in Sessions /\ k \in Clients /\ req[r].pc = "stopping"
      BY <1>6, ShapeFacts DEF Restarts, At, LoginTypes, Values
    <3>4. ~raced => Silent /\ \A i \in Clients : link'[i] = "off"
      BY <2>1, <3>3 DEF OneClient, Stops, LoginTypes, Values
    <3> QED BY <3>1, <3>2, <3>3, <3>4, OneClientLaunch
  <2>2. CASE RefusesStop(k) /\ StartFails(r, main) /\ UNCHANGED <<listener, uses, raced>>
    <3>1. Rest(r) /\ req'[r].pc \in {"idle", "fallback"} BY <2>2, FailsFacts DEF Over
    <3> QED BY <1>0, <2>2, <3>1, OneClientKept DEF RefusesStop
  <2> QED BY <1>6, <2>1, <2>2 DEF Restarts
<1>7. CASE ListenerStopped(r) \/ ListenerDropped(r)
  <2>1. /\ Rest(r) /\ req'[r].pc \in {"parting", "idle"} /\ req[r].pc = "stopping"
        /\ Stops(k) \/ RefusesStop(k)
        /\ listener' = listener /\ raced' = raced
    BY <1>7, WaitsFacts, EndsFacts DEF ListenerStopped, ListenerDropped, At, Over, history
  <2> QED BY <1>0, <2>1, OneClientGone
<1>8. CASE ListenerInvalid(r)
  <2>1. BeginsStop(r) /\ Rest(r) /\ req'[r].pc = "stopping"
    BY <1>8, WaitsFacts DEF ListenerInvalid
  <2> QED BY <1>0, <2>1, OneClientStop
<1> QED BY <1>1, <1>2, <1>3, <1>4, <1>5, <1>6, <1>7, <1>8 DEF Step

LEMMA OneClientRequest ==
  ASSUME LoginTypes, OneClient, NEW r \in Procs, Request(r) PROVE OneClient'
<1>0. StartSteps = {"connecting", "half", "backoff", "naming"} BY DEF StartSteps
<1>p. /\ {"connecting", "stopping", "parting", "probing", "asking", "asked", "clearing"} \subseteq Pcs
      /\ {"send", "code", "password", "logout", "status", "config"} \subseteq Ops
      /\ None \in Sessions /\ main \in Sessions /\ state.client \in Sessions
      /\ listener.cur \in Clients \cup {None}
  <2>1. codes \in 0..MaxCodes /\ state.client \in 0..codes BY DEF LoginTypes, Values
  <2>2. state.client \in Sessions BY <2>1, Constants DEF None
  <2> QED BY <2>2, Constants DEF Pcs, StartSteps, Ops, SignsIn, LoginTypes, Values
<1>1. CASE SendCode(r)
  <2>1. Rest(r) /\ req'[r].pc = "clearing" BY <1>1, <1>p, BeginsRest DEF SendCode
  <2> QED BY <1>0, <1>1, <2>1, OneClientKept DEF SendCode, clients
<1>2. CASE SignIn(r)
  <2>1. Rest(r) /\ req'[r].pc = "asked" BY <1>2, <1>p, BeginsRest DEF SignIn
  <2> QED BY <1>0, <1>2, <2>1, OneClientKept DEF SignIn, clients
<1>3. CASE Logout(r)
  <2>1. CASE Running
    <3>1. BeginsStop(r) /\ Rest(r) /\ req'[r].pc = "stopping"
      <4>1. BeginsStop(r) /\ Begins(r, "logout", "stopping", listener.cur)
        BY <1>3, <2>1 DEF Logout
      <4>2. "logout" \in Ops /\ "stopping" \in Pcs /\ listener.cur \in Sessions \cup Clients
        BY <1>p
      <4> QED BY <4>1, <4>2, BeginsRest
    <3> QED BY <1>0, <3>1, OneClientStop
  <2>2. CASE ~Running
    <3>1. Rest(r) /\ req'[r].pc = "parting" BY <1>3, <1>p, <2>2, BeginsRest DEF Logout
    <3>2. clients' = clients /\ raced' = raced BY <1>3, <2>2 DEF Logout
    <3> QED BY <1>0, <3>1, <3>2, OneClientKept DEF clients
  <2> QED BY <2>1, <2>2
<1>4. CASE Status(r)
  <2>1. Rest(r) /\ req'[r].pc \in {"asking", "probing"}
    <3>1. Begins(r, "status", "asking", listener.cur) \/ Begins(r, "status", "probing", main)
      BY <1>4 DEF Status
    <3>2. /\ "status" \in Ops /\ "asking" \in Pcs /\ "probing" \in Pcs
          /\ listener.cur \in Sessions \cup Clients /\ main \in Sessions \cup Clients
      BY <1>p
    <3> QED BY <3>1, <3>2, BeginsRest
  <2> QED BY <1>0, <1>4, <2>1, OneClientKept DEF Status, clients, history
<1>5. CASE SaveConfig(r)
  <2>1. PICK k \in Clients :
          Unused(k) /\ Launch(r, k, main) /\ Begins(r, "config", "connecting", k)
    BY <1>5 DEF SaveConfig
  <2>2. Rest(r) /\ req'[r].pc = "connecting" /\ req'[r].at = k BY <1>p, <2>1, BeginsRest
  <2>3. ~raced => Silent /\ \A j \in Clients : link'[j] = "off"
    <3>1. ~Running /\ link' = link BY <1>5 DEF SaveConfig
    <3> QED BY <3>1, QuietListener
  <2> QED BY <1>p, <2>1, <2>2, <2>3, OneClientLaunch
<1> QED BY <1>1, <1>2, <1>3, <1>4, <1>5 DEF Request

LEMMA OneClientNext == LoginTypes /\ OneClient /\ [Next]_vars => OneClient'
<1> SUFFICES ASSUME LoginTypes, OneClient, [Next]_vars PROVE OneClient' OBVIOUS
<1>1. CASE Restart
  <2>1. /\ \A q \in Procs : req'[q] = Idle \/
             /\ q = Boot /\ main # None /\ listener'.cur = 1 /\ uses'[1] = main
             /\ req'[q].op = "boot" /\ req'[q].pc = "connecting" /\ req'[q].at = 1
             /\ req'[q].alone = FALSE
        /\ listener'.loops = 0 /\ listener'.ref = FALSE
        /\ \A k \in Clients : link'[k] = "off"
    BY <1>1, RestartFacts
  <2>2. \A q \in Procs :
          /\ req'[q].pc # "stopping"
          /\ req'[q].pc \in StartSteps => q = Boot /\ req'[q].at = 1 /\ listener'.cur = 1
    BY <2>1, ShapeIdle DEF StartSteps
  <2> QED BY <2>1, <2>2 DEF OneClient, Silent, Starting
<1>2. CASE Refresh \/ WorkerClears \/ (\E a \in Attempts : Revoke(a)) \/ UNCHANGED vars
  <2>1. req' = req /\ listener' = listener /\ link' = link /\ raced' = raced
    BY <1>2 DEF Refresh, WorkerClears, Revoke, vars, clients, history
  <2> QED BY <2>1 DEF OneClient, Silent, Starting
<1> QED BY <1>1, <1>2, OneClientStep, OneClientRequest DEF Next

(* Whatever fails or times out, the listener has one client and one refresh loop,
   which stop will find, unless it is started or stopped while it starts. *)
THEOREM ListenerIsOne == Spec => []OneListener
<1>1. Init => LoginTypes /\ OneClient
  <2> SUFFICES ASSUME Init PROVE OneClient BY TypesInit
  <2>1. \A q \in Procs : req[q] = Idle BY DEF Init
  <2> QED BY <2>1, ShapeIdle DEF Init, OneClient, Silent, Starting, StartSteps, Stopped
<1>2. LoginTypes /\ OneClient /\ [Next]_vars => LoginTypes' /\ OneClient'
  BY TypesNext, OneClientNext
<1>3. OneClient => OneListener BY DEF OneClient, OneListener
<1> QED BY <1>1, <1>2, <1>3, PTL DEF Spec

-----------------------------------------------------------------------------
(* A sign-in promotes its own file *)

(* A step that opens no auth file and connects no auth client. *)
LEMMA OwnFileKept ==
  ASSUME LoginTypes, OwnFile, NEW r \in Procs, Rest(r), crossed' = crossed,
         auth' \in {auth, None}, live' \subseteq live, state'.client \in {state.client, None},
         req'[r].op \in SignsIn => Signs(r), req'[r].op = "send" => Sends(r),
         req'[r].pc \notin {"sending", "asked"},
         req'[r].pc \in {"greeting", "leaving"} =>
           req[r].pc \in {"greeting", "leaving"} /\ req'[r].saw = req[r].saw
  PROVE  OwnFile'
<1>0. None \notin live
  <2>1. live \subseteq 1..codes /\ codes \in Nat BY Constants DEF LoginTypes, Values
  <2> QED BY <2>1 DEF None
<1> SUFFICES ASSUME ~crossed PROVE OwnFile' BY DEF OwnFile
<1>1. \A q \in Procs : (Sends(q)' => Sends(q)) /\ (Signs(q)' => Signs(q))
  BY DEF Rest, Sends, Signs
<1>2. \A p \in Procs : \A q \in Procs : Sends(q)' /\ (Signs(p)' \/ Sends(p)') => p = q
  BY <1>1 DEF OwnFile
<1>3. state'.client \in live' => auth' \in {None, state'.client} BY <1>0 DEF OwnFile
<1>4. ASSUME NEW q \in Procs
      PROVE  /\ Sends(q)' => state'.client \notin live'
             /\ req'[q].pc = "sending" => auth' \in {None, req'[q].at}
             /\ req'[q].pc = "asked" =>
                  /\ state'.client \in {None, req'[q].at}
                  /\ req'[q].at \in live' => auth' \in {None, req'[q].at}
             /\ req'[q].pc \in {"greeting", "leaving"} => auth' \in {None, req'[q].saw}
  <2>1. Sends(q)' => state'.client \notin live' BY <1>0, <1>1 DEF OwnFile
  <2>2. CASE q = r BY <2>1, <2>2 DEF OwnFile
  <2>3. CASE q # r BY <2>1, <2>3 DEF OwnFile, Rest
  <2> QED BY <2>2, <2>3
<1> QED BY <1>2, <1>3, <1>4 DEF OwnFile

LEMMA OwnFileStep ==
  ASSUME LoginTypes, OwnFile, NEW r \in Procs, Step(r) PROVE OwnFile'
<1>0. StartSteps = {"connecting", "half", "backoff", "naming"} BY DEF StartSteps
<1>s. Shape(r, req[r]) BY ShapeFacts
<1>1. CASE StartStep(r)
  <2>1. /\ Rest(r) /\ req[r].pc \in StartSteps
        /\ \/ Over(r)
           \/ Keeps(r) /\ req'[r].pc \in StartSteps
           \/ Keeps(r) /\ req'[r].pc = "fallback"
    BY <1>1, StartStepFacts
  <2>2. /\ auth' = auth /\ live' = live /\ crossed' = crossed
        /\ state'.client \in {state.client, None}
    <3>1. auth' = auth /\ live' = live /\ crossed' = crossed
      BY <1>1 DEF StartStep, Connects, Authorises, Duplicate, Retries, AuthFails, OtherError,
                  TimesOut, Started, files, login, history
    <3>2. state' = state \/ FinishLogin(r)
      BY <1>1 DEF StartStep, Connects, Authorises, Duplicate, Retries, AuthFails, OtherError,
                  TimesOut, Started, login
    <3>3. FinishLogin(r) => state'.client = None BY StateFacts DEF LoginTypes
    <3> QED BY <3>1, <3>2, <3>3
  <2> QED BY <1>0, <2>1, <2>2, OwnFileKept DEF Over, Keeps, Signs, Sends, SignsIn
<1>2. CASE \/ Fallback(r) \/ CodeNotSent(r) \/ NeedsPassword(r) \/ SignInFails(r)
           \/ Parted(r) \/ ListenerAnswers(r) \/ Probed(r) \/ ListenerDropped(r)
  <2>1. Ends(r) /\ auth' \in {auth, None} /\ live' = live /\ crossed' = crossed
    BY <1>2 DEF Fallback, FinishLogin, CodeNotSent, NeedsPassword, SignInFails, Parted,
                ListenerAnswers, Probed, ListenerDropped, ClearsFiles, files, login, history
  <2>2. state'.client \in {state.client, None}
    <3>1. \/ state' = state \/ FinishLogin(r) \/ state' = [state EXCEPT !.needs_2fa = TRUE]
          \/ state' = Fresh \/ Says(TRUE) \/ Says(FALSE)
      BY <1>2 DEF Fallback, CodeNotSent, NeedsPassword, SignInFails, Parted, ListenerAnswers, Probed,
                  ListenerDropped, login
    <3>2. [state EXCEPT !.needs_2fa = TRUE].client = state.client BY DEF LoginTypes, Values
    <3>3. FinishLogin(r) => state'.client = None BY StateFacts DEF LoginTypes
    <3>4. Says(TRUE) \/ Says(FALSE) => state'.client = state.client
      BY StateFacts DEF LoginTypes
    <3>5. Fresh.client = None BY DEF Fresh
    <3> QED BY <3>1, <3>2, <3>3, <3>4, <3>5
  <2>3. Rest(r) /\ Over(r) BY <2>1, EndsFacts
  <2> QED BY <2>1, <2>2, <2>3, OwnFileKept DEF Over, SignsIn
<1>3. CASE Greeted(r) \/ Promote(r) \/ Restarts(r) \/ ListenerStopped(r) \/ ListenerInvalid(r)
           \/ ListenerSilent(r)
  <2>1. /\ auth' \in {auth, None} /\ live' \subseteq live /\ crossed' = crossed /\ state' = state
    BY <1>3 DEF Greeted, Promote, Restarts, ListenerStopped, ListenerInvalid, ListenerSilent,
                Disconnected, files, login, history
  <2>2. /\ Rest(r)
        /\ \/ Over(r)
           \/ Keeps(r) /\ req'[r].pc \in {"stopping", "connecting", "fallback", "parting", "probing"}
           \/ Keeps(r) /\ req[r].pc = "greeting" /\ req'[r].pc = "leaving"
    BY <1>3, WaitsFacts, EndsFacts, FailsFacts
       DEF Greeted, Promote, Restarts, ListenerStopped, ListenerInvalid, ListenerSilent, Relaunch
  <2> QED BY <2>1, <2>2, OwnFileKept DEF Over, Keeps, Signs, Sends, SignsIn
<1>4. CASE OpensAuth(r)
  <2>1. /\ Rest(r) /\ Keeps(r) /\ req'[r].pc = "sending" /\ req'[r].at = codes + 1
        /\ auth' = codes + 1 /\ live' = live /\ state' = state /\ crossed' = crossed
        /\ req[r].op = "send"
    BY <1>4, <1>s, WaitsFacts DEF OpensAuth, Shape, login, history
  <2> SUFFICES ASSUME ~crossed PROVE OwnFile' BY <2>1 DEF OwnFile
  <2>2. /\ \A q \in Procs : (Sends(q)' => q = r) /\ ~Signs(q)'
        /\ state'.client \notin live'
    BY <2>1 DEF OwnFile, Sends, Signs, Rest, Keeps, SignsIn
  <2>3. \A q \in Procs : q # r =>
          req'[q].pc \notin {"sending", "asked", "greeting", "leaving"}
    BY <2>1, <2>2, ShapeFacts DEF Rest, Shape, Asking, Sends, Signs
  <2> QED BY <2>1, <2>2, <2>3 DEF OwnFile
<1>5. CASE CodeSent(r)
  <2>1. /\ Rest(r) /\ Over(r) /\ req[r].pc = "sending" /\ req[r].op = "send"
        /\ auth' = auth /\ live' = live \cup {req[r].at} /\ crossed' = crossed
        /\ state'.client = req[r].at
    BY <1>5, <1>s, EndsFacts DEF CodeSent, Fresh, Shape, files, history
  <2> SUFFICES ASSUME ~crossed PROVE OwnFile' BY <2>1 DEF OwnFile
  <2>2. \A q \in Procs : ~Sends(q)' /\ ~Signs(q)'
    BY <2>1 DEF OwnFile, Sends, Signs, Rest, Over, SignsIn
  <2>3. \A q \in Procs : req'[q].pc \notin {"sending", "asked", "greeting", "leaving"}
    BY <2>1, <2>2, ShapeFacts DEF Rest, Over, Shape, Asking, Sends, Signs
  <2> QED BY <2>1, <2>2, <2>3 DEF OwnFile
<1>6. CASE SignedIn(r)
  <2> DEFINE a == req[r].at
  <2>1. /\ req[r].pc = "asked" /\ a \in live /\ req[r].op \in SignsIn
        /\ auth' = auth /\ live' = live /\ state' = state /\ crossed' = crossed
    BY <1>6, <1>s DEF SignedIn, Accepted, Shape, Asking, files, login
  <2>2. Rest(r) BY <1>6, SignedInFacts
  <2>3. CASE Over(r) BY <2>1, <2>2, <2>3, OwnFileKept DEF Over, SignsIn
  <2>4. CASE req'[r].pc = "greeting" /\ req'[r].saw = a /\ req'[r].op = req[r].op
    <3> SUFFICES ASSUME ~crossed PROVE OwnFile' BY <2>1 DEF OwnFile
    <3>1. auth \in {None, a} BY <2>1 DEF OwnFile
    <3>2. \A q \in Procs : (Sends(q)' => Sends(q)) /\ (Signs(q)' => Signs(q))
      BY <2>2, <2>4 DEF Rest, Sends, Signs
    <3>3. \A q \in Procs : q # r => req'[q].pc = req[q].pc /\ req'[q].at = req[q].at
                                   /\ req'[q].saw = req[q].saw
      BY <2>2 DEF Rest
    <3> QED BY <2>1, <2>4, <3>1, <3>2, <3>3 DEF OwnFile
  <2> QED BY <1>6, <2>3, <2>4, SignedInFacts
<1> QED BY <1>1, <1>2, <1>3, <1>4, <1>5, <1>6 DEF Step

(* How a request begins. *)
LEMMA RequestFacts ==
  ASSUME LoginTypes, NEW r \in Procs, Request(r)
  PROVE  /\ Rest(r) /\ r \in Requests /\ req[r].pc = "idle" /\ req[r].op = "none"
         /\ \A p \in Procs : p # r => req'[p].alone = FALSE
         /\ req'[r].alone => req'[r].op = "logout" /\ \A p \in Procs \ {r} : req[p].pc = "idle"
         /\ SendCode(r) => req'[r].op = "send" /\ req'[r].pc = "clearing"
         /\ SignIn(r) => /\ req'[r].op \in SignsIn /\ req'[r].pc = "asked"
                         /\ req'[r].at = state.client /\ state.client # None
         /\ Logout(r) => /\ req'[r].op = "logout"
                         /\ IF Running THEN req'[r].pc = "stopping" /\ req'[r].at = listener.cur
                                       ELSE req'[r].pc = "parting"
         /\ Status(r) => /\ req'[r].op = "status"
                         /\ IF Running THEN req'[r].pc = "asking" /\ req'[r].at = listener.cur
                                       ELSE req'[r].pc = "probing" /\ req'[r].at = main
         /\ SaveConfig(r) => req'[r].op = "config" /\ req'[r].pc = "connecting"
<1>p. /\ {"connecting", "stopping", "parting", "probing", "asking", "asked", "clearing"} \subseteq Pcs
      /\ {"send", "code", "password", "logout", "status", "config"} \subseteq Ops
      /\ {None, main, state.client, listener.cur} \subseteq Sessions \cup Clients
  <2>1. codes \in 0..MaxCodes /\ state.client \in 0..codes BY DEF LoginTypes, Values
  <2>2. state.client \in Sessions BY <2>1, Constants DEF None
  <2> QED BY <2>2, Constants DEF Pcs, StartSteps, Ops, SignsIn, LoginTypes, Values
<1>1. req[r].pc = "idle" /\ req[r].op = "none" /\ r \in Requests
  BY ShapeFacts DEF Request, SendCode, SignIn, Logout, Status, SaveConfig, Accepts, Shape
<1> DEFINE B(op, step, on) ==
      /\ Rest(r) /\ req'[r].op = op /\ req'[r].pc = step /\ req'[r].at = on
      /\ req'[r].alone => op = "logout" /\ \A p \in Procs \ {r} : req[p].pc = "idle"
      /\ \A p \in Procs : p # r => req'[p].alone = FALSE
<1>2. ASSUME NEW op \in {"send", "code", "password", "logout", "status", "config"},
             NEW step \in {"connecting", "stopping", "parting", "probing", "asking", "asked", "clearing"},
             NEW on \in Sessions \cup Clients, Begins(r, op, step, on)
      PROVE  B(op, step, on)
  BY <1>p, <1>2, BeginsRest
<1> HIDE DEF B
<1>3. SendCode(r) => B("send", "clearing", None) BY <1>p, <1>2 DEF SendCode
<1>4. SignIn(r) => state.client # None /\ \E op \in SignsIn : B(op, "asked", state.client)
  BY <1>p, <1>2 DEF SignIn, MayCheckPassword, SignsIn
<1>5. Logout(r) => IF Running THEN B("logout", "stopping", listener.cur)
                             ELSE B("logout", "parting", None)
  BY <1>p, <1>2 DEF Logout
<1>6. Status(r) => IF Running THEN B("status", "asking", listener.cur)
                             ELSE B("status", "probing", main)
  BY <1>p, <1>2 DEF Status
<1>7. SaveConfig(r) => \E k \in Clients : B("config", "connecting", k)
  BY <1>p, <1>2 DEF SaveConfig
<1>8. ASSUME NEW op, NEW step, NEW on, B(op, step, on)
      PROVE  /\ Rest(r) /\ req'[r].op = op /\ req'[r].pc = step /\ req'[r].at = on
             /\ req'[r].alone => req'[r].op = "logout" /\ \A p \in Procs \ {r} : req[p].pc = "idle"
             /\ \A p \in Procs : p # r => req'[p].alone = FALSE
  BY <1>8 DEF B
<1>9. \E op, step, on : B(op, step, on)
  <2>1. CASE SendCode(r) BY <1>3, <2>1
  <2>2. CASE SignIn(r) BY <1>4, <2>2
  <2>3. CASE Logout(r) BY <1>5, <2>3
  <2>4. CASE Status(r) BY <1>6, <2>4
  <2>5. CASE SaveConfig(r) BY <1>7, <2>5
  <2> QED BY <2>1, <2>2, <2>3, <2>4, <2>5 DEF Request
<1>10. /\ SendCode(r) => req'[r].op = "send" /\ req'[r].pc = "clearing"
       /\ SignIn(r) => /\ req'[r].op \in SignsIn /\ req'[r].pc = "asked"
                       /\ req'[r].at = state.client /\ state.client # None
  BY <1>3, <1>4, <1>8
<1>11. Logout(r) => /\ req'[r].op = "logout"
                    /\ IF Running THEN req'[r].pc = "stopping" /\ req'[r].at = listener.cur
                                  ELSE req'[r].pc = "parting"
  BY <1>5, <1>8
<1>12. Status(r) => /\ req'[r].op = "status"
                    /\ IF Running THEN req'[r].pc = "asking" /\ req'[r].at = listener.cur
                                  ELSE req'[r].pc = "probing" /\ req'[r].at = main
  BY <1>6, <1>8
<1>13. SaveConfig(r) => req'[r].op = "config" /\ req'[r].pc = "connecting" BY <1>7, <1>8
<1>14. /\ Rest(r) /\ \A p \in Procs : p # r => req'[p].alone = FALSE
       /\ req'[r].alone => req'[r].op = "logout" /\ \A p \in Procs \ {r} : req[p].pc = "idle"
  BY <1>8, <1>9
<1> QED BY <1>1, <1>10, <1>11, <1>12, <1>13, <1>14

LEMMA OwnFileRequest ==
  ASSUME LoginTypes, OwnFile, NEW r \in Procs, Request(r) PROVE OwnFile'
<1>r. /\ Rest(r) /\ r \in Requests /\ req[r].pc = "idle" /\ req[r].op = "none"
      /\ SendCode(r) => req'[r].op = "send" /\ req'[r].pc = "clearing"
      /\ SignIn(r) => /\ req'[r].op \in SignsIn /\ req'[r].pc = "asked"
                      /\ req'[r].at = state.client /\ state.client # None
      /\ Logout(r) => /\ req'[r].op = "logout"
                      /\ IF Running THEN req'[r].pc = "stopping" /\ req'[r].at = listener.cur
                                    ELSE req'[r].pc = "parting"
      /\ Status(r) => /\ req'[r].op = "status"
                      /\ IF Running THEN req'[r].pc = "asking" /\ req'[r].at = listener.cur
                                    ELSE req'[r].pc = "probing" /\ req'[r].at = main
      /\ SaveConfig(r) => req'[r].op = "config" /\ req'[r].pc = "connecting"
  BY RequestFacts
<1>o. \A q \in Procs : Sends(q) \/ Signs(q) => q \in Requests
  <2>1. \A q \in Procs : Shape(q, req[q]) BY ShapeFacts
  <2> QED BY <2>1 DEF Sends, Signs, Shape, SignsIn
<1>1. CASE SendCode(r)
  <2>1. /\ req'[r].op = "send" /\ req'[r].pc = "clearing"
        /\ auth' = auth /\ state' = state /\ live' = live \ {state.client}
        /\ crossed' = (crossed \/ \E q \in Requests : req[q].op \in SignsIn \cup {"send"})
    BY <1>1, <1>r DEF SendCode, Disconnected, files
  <2> SUFFICES ASSUME ~crossed' PROVE OwnFile' BY DEF OwnFile
  <2>2. ~crossed /\ \A q \in Procs : ~Sends(q) /\ ~Signs(q)
    BY <1>o, <2>1 DEF Sends, Signs
  <2>3. \A q \in Procs : q # r => ~Sends(q)' /\ ~Signs(q)' BY <1>r, <2>2 DEF Rest, Sends, Signs
  <2>4. ~Signs(r)' BY <2>1 DEF Signs, SignsIn
  <2>5. \A q \in Procs : req'[q].pc \notin {"sending", "asked", "greeting", "leaving"}
    <3>1. \A q \in Procs : req[q].pc \notin {"sending", "asked", "greeting", "leaving"}
      BY <2>2, ShapeFacts DEF Shape, Asking, Sends, Signs
    <3> QED BY <1>r, <2>1, <3>1 DEF Rest
  <2> QED BY <2>1, <2>3, <2>4, <2>5 DEF OwnFile
<1>2. CASE SignIn(r)
  <2>1. /\ req'[r].op \in SignsIn /\ req'[r].pc = "asked" /\ req'[r].at = state.client
        /\ auth' = auth /\ state' = state /\ live' = live
        /\ crossed' = (crossed \/ \E q \in Requests : req[q].op = "send")
    BY <1>2, <1>r DEF SignIn, files, login
  <2> SUFFICES ASSUME ~crossed' PROVE OwnFile' BY DEF OwnFile
  <2>2. ~crossed /\ \A q \in Procs : ~Sends(q) BY <1>o, <2>1 DEF Sends
  <2>3. \A q \in Procs : ~Sends(q)' BY <1>r, <2>1, <2>2 DEF Rest, Sends, SignsIn
  <2>4. \A q \in Procs : q # r => /\ req'[q].pc = req[q].pc /\ req'[q].at = req[q].at
                                  /\ req'[q].saw = req[q].saw
    BY <1>r DEF Rest
  <2> QED BY <2>1, <2>2, <2>3, <2>4 DEF OwnFile
<1>3. CASE Logout(r) \/ Status(r) \/ SaveConfig(r)
  <2>1. req'[r].op \in {"logout", "status", "config"}
        /\ req'[r].pc \in {"stopping", "parting", "asking", "probing", "connecting"}
    BY <1>3, <1>r
  <2>2. auth' = auth /\ state' = state /\ live' \subseteq live /\ crossed' = crossed
    BY <1>3 DEF Logout, Status, SaveConfig, Disconnected, files, login, history
  <2> QED BY <1>r, <2>1, <2>2, OwnFileKept DEF SignsIn
<1> QED BY <1>1, <1>2, <1>3 DEF Request

LEMMA OwnFileNext == LoginTypes /\ OwnFile /\ [Next]_vars => OwnFile'
<1> SUFFICES ASSUME LoginTypes, OwnFile, [Next]_vars PROVE OwnFile' OBVIOUS
<1>1. CASE Restart
  <2>1. \A q \in Procs : req'[q] = Idle \/ (req'[q].op = "boot" /\ req'[q].pc = "connecting")
    BY <1>1, RestartFacts
  <2>2. \A q \in Procs : /\ req'[q].op \notin SignsIn \cup {"send"}
                         /\ req'[q].pc \notin {"sending", "asked", "greeting", "leaving"}
    BY <2>1 DEF Idle, SignsIn
  <2> QED BY <1>1, <2>2 DEF OwnFile, Sends, Signs, Restart
<1>2. CASE Refresh \/ WorkerClears \/ (\E a \in Attempts : Revoke(a)) \/ UNCHANGED vars
  <2>1. req' = req /\ auth' = auth /\ state' = state /\ live' = live /\ crossed' = crossed
    BY <1>2 DEF Refresh, WorkerClears, Revoke, vars, files, login, history
  <2> QED BY <2>1 DEF OwnFile, Sends, Signs
<1> QED BY <1>1, <1>2, OwnFileStep, OwnFileRequest DEF Next

(* Which step takes a sign-in from leaving its client to the listener. *)
LEMMA PromotingStep ==
  ASSUME LoginTypes, [Next]_vars, NEW r \in Requests, req[r].pc = "leaving",
         req'[r].pc \in {"stopping", "connecting"}
  PROVE  auth # None /\ main' = auth
<1>0. r \in Procs BY DEF Procs
<1>1. CASE Restart
  <2>1. req'[r] = Idle BY <1>0, <1>1, Constants, RestartFacts
  <2> QED BY <2>1 DEF Idle
<1>2. CASE Refresh \/ WorkerClears \/ (\E a \in Attempts : Revoke(a)) \/ UNCHANGED vars
  BY <1>2 DEF Refresh, WorkerClears, Revoke, vars
<1>3. ASSUME NEW q \in Procs, Request(q) PROVE FALSE
  BY <1>0, <1>3, RequestFacts DEF Rest
<1>4. ASSUME NEW q \in Procs, Step(q) PROVE Promote(r)
  <2>1. Rest(q) BY <1>4, StepRest
  <2>2. q = r BY <1>0, <2>1 DEF Rest
  <2>3. ~SignInFails(r) BY <1>0, EndsFacts DEF SignInFails, Over
  <2>4. ~StartStep(r) BY <1>0, StartStepFacts DEF StartSteps
  <2> QED BY <1>4, <2>2, <2>3, <2>4 DEF Step, Fallback, OpensAuth, CodeSent, CodeNotSent, SignedIn,
        NeedsPassword, Greeted, Restarts, ListenerStopped, Parted, ListenerAnswers,
        ListenerInvalid, ListenerSilent, ListenerDropped, Probed, At
<1>5. Promote(r) => auth # None /\ main' = auth
  <2>1. auth # None => Opened(auth) = auth BY DEF Opened
  <2> QED BY <2>1 DEF Promote, Relaunch, Launch
<1> QED BY <1>1, <1>2, <1>3, <1>4, <1>5 DEF Next

(* What a sign-in puts in place is the login it obtained, whatever else goes on,
   unless a send-code has overlapped a sign-in or another send-code. *)
THEOREM OwnLoginPromoted == Spec => PromotesOwn
<1>1. Init => LoginTypes /\ OwnFile
  <2> SUFFICES ASSUME Init PROVE OwnFile BY TypesInit
  <2>1. \A q \in Procs : req[q] = Idle BY DEF Init
  <2> QED BY <2>1, ShapeIdle DEF Init, OwnFile, Sends, Signs, SignsIn, Idle
<1>2. LoginTypes /\ OwnFile /\ [Next]_vars => LoginTypes' /\ OwnFile'
  BY TypesNext, OwnFileNext
<1>3. LoginTypes /\ OwnFile /\ [Next]_vars =>
        [\A r \in Requests :
           req[r].pc = "leaving" /\ req'[r].pc \in {"stopping", "connecting"}
             => main' = req[r].saw \/ crossed]_vars
  <2> SUFFICES ASSUME LoginTypes, OwnFile, [Next]_vars, NEW r \in Requests, req[r].pc = "leaving",
                      req'[r].pc \in {"stopping", "connecting"}, ~crossed
               PROVE  main' = req[r].saw
    OBVIOUS
  <2>1. auth # None /\ main' = auth BY PromotingStep
  <2>2. auth \in {None, req[r].saw} BY Constants DEF OwnFile
  <2> QED BY <2>1, <2>2
<1> QED BY <1>1, <1>2, <1>3, PTL DEF Spec, PromotesOwn

-----------------------------------------------------------------------------
(* A logout is final *)

(* A step that makes no client half connected. *)
LEMMA HalvesKept ==
  ASSUME LoginTypes, Halves, NEW r \in Procs, Rest(r), left => left',
         \A k \in Clients : link'[k] = "half" => link[k] = "half",
         left' \/ req[r].pc # "half" \/ link'[req[r].at] # "half"
  PROVE  Halves'
<1> SUFFICES ASSUME ~left', NEW k \in Clients, link'[k] = "half"
             PROVE  \E q \in Procs : req'[q].pc = "half" /\ req'[q].at = k
  BY DEF Halves
<1>1. PICK q \in Procs : req[q].pc = "half" /\ req[q].at = k BY DEF Halves
<1>2. q # r BY <1>1
<1> QED BY <1>1, <1>2 DEF Rest

LEMMA HalvesStart ==
  ASSUME LoginTypes, Halves, NEW r \in Procs, StartStep(r) PROVE Halves'
<1> DEFINE k == req[r].at
<1>0. StartSteps = {"connecting", "half", "backoff", "naming"} BY DEF StartSteps
<1>r. Rest(r) BY StartStepFacts
<1>a. /\ link \in [Clients -> {"off", "half", "on"}]
      /\ req[r].pc \in StartSteps => k \in Clients
  BY ShapeFacts DEF LoginTypes, Values
<1>1. CASE Connects(r)
  <2>1. /\ req[r].pc = "connecting" /\ req'[r].pc = "half" /\ req'[r].at = k /\ left' = left
        /\ \A j \in Clients : j # k => link'[j] = link[j]
    BY <1>1, <1>a, GoesFacts DEF Connects, history
  <2> SUFFICES ASSUME ~left, NEW j \in Clients, link'[j] = "half"
               PROVE  \E q \in Procs : req'[q].pc = "half" /\ req'[q].at = j
    BY <2>1 DEF Halves
  <2>2. CASE j = k BY <2>1, <2>2
  <2>3. CASE j # k
    <3>1. PICK q \in Procs : req[q].pc = "half" /\ req[q].at = j BY <2>1, <2>3 DEF Halves
    <3> QED BY <1>r, <2>1, <3>1 DEF Rest
  <2> QED BY <2>2, <2>3
<1>2. CASE Authorises(r)
  <2>1. left => left' BY <1>2 DEF Authorises, Leaves
  <2>2. req[r].pc = "half" /\ link' = [link EXCEPT ![k] = "on"] BY <1>2 DEF Authorises
  <2> QED BY <1>0, <1>a, <1>r, <2>1, <2>2, HalvesKept
<1>3. CASE Duplicate(r) BY <1>0, <1>3, <1>a, <1>r, HalvesKept DEF Duplicate, history
<1>4. CASE Retries(r) BY <1>4, <1>r, HalvesKept DEF Retries, history
<1>5. CASE AuthFails(r) BY <1>0, <1>5, <1>a, <1>r, HalvesKept DEF AuthFails, history
<1>6. CASE OtherError(r)
  <2>1. req[r].pc \in StartSteps /\ (left => left') BY <1>0, <1>6 DEF OtherError, Starting, Leaves
  <2>2. (req[r].pc = "naming" /\ link' = link) \/ link' = [link EXCEPT ![k] = "off"]
    BY <1>6 DEF OtherError
  <2> QED BY <1>a, <1>r, <2>1, <2>2, HalvesKept
<1>7. CASE TimesOut(r)
  <2>1. req[r].pc \in StartSteps /\ left' = (left \/ link[k] # "off") /\ link' = link
    BY <1>7 DEF TimesOut, Starting, clients
  <2> QED BY <1>r, <2>1, HalvesKept
<1>8. CASE Started(r) BY <1>8, <1>r, HalvesKept DEF Started, history
<1> QED BY <1>1, <1>2, <1>3, <1>4, <1>5, <1>6, <1>7, <1>8 DEF StartStep

LEMMA HalvesNext == LoginTypes /\ Halves /\ [Next]_vars => Halves'
<1> SUFFICES ASSUME LoginTypes, Halves, [Next]_vars PROVE Halves' OBVIOUS
<1>l. link \in [Clients -> {"off", "half", "on"}] BY DEF LoginTypes, Values
<1>1. CASE Restart BY <1>1, RestartFacts DEF Halves
<1>2. CASE Refresh \/ WorkerClears \/ (\E a \in Attempts : Revoke(a)) \/ UNCHANGED vars
  BY <1>2 DEF Refresh, WorkerClears, Revoke, vars, clients, history, Halves
<1>3. ASSUME NEW r \in Procs, Request(r) PROVE Halves'
  <2>1. Rest(r) /\ req[r].pc = "idle" BY <1>3, RequestFacts
  <2>2. left' = left /\ link' = link
    BY <1>3 DEF Request, SendCode, SignIn, Logout, Status, SaveConfig, BeginsStop, clients, history
  <2> QED BY <2>1, <2>2, HalvesKept
<1>4. ASSUME NEW r \in Procs, Step(r) PROVE Halves'
  <2>1. CASE StartStep(r) BY <2>1, HalvesStart
  <2>2. CASE ~StartStep(r)
    <3>1. req[r].pc # "half"
      BY <1>4, <2>2 DEF Step, Fallback, OpensAuth, CodeSent, CodeNotSent, SignedIn, NeedsPassword,
         SignInFails, Greeted, Promote, Restarts, ListenerStopped, Parted, ListenerAnswers,
         ListenerInvalid, ListenerSilent, ListenerDropped, Probed, At
    <3>2. /\ left' = left
          /\ link' = link \/ \E k : Stops(k)
      BY <1>4, <2>2 DEF Step, Fallback, OpensAuth, CodeSent, CodeNotSent, SignedIn, NeedsPassword,
         SignInFails, Greeted, Promote, Restarts, ListenerStopped, Parted, ListenerAnswers,
         ListenerInvalid, ListenerSilent, ListenerDropped, Probed, RefusesStop, BeginsStop,
         clients, history
    <3>3. \A k \in Clients : link'[k] = "half" => link[k] = "half" BY <1>l, <3>2 DEF Stops
    <3> QED BY <1>4, <3>1, <3>2, <3>3, StepRest, HalvesKept
  <2> QED BY <2>1, <2>2
<1> QED BY <1>1, <1>2, <1>3, <1>4 DEF Next

LEMMA NoLogin ==
  ASSUME Values
  PROVE  /\ Forgets(None) /\ Forgets(Blank) /\ Forgets(codes + 1) /\ signed \subseteq 1..codes
         /\ main \in {None, Blank} => Opened(main) = Blank
<1>1. signed \subseteq 1..codes /\ codes \in Nat BY Constants DEF Values
<1> QED BY <1>1 DEF Forgets, None, Blank, Opened

(* A step of r after a logout: nothing under way learns of a login. *)
LEMMA NothingKept ==
  ASSUME LoginTypes, NothingKnown, NEW r \in Procs, Rest(r), signed' = signed, left => left',
         main' \in {None, Blank}, Forgets(auth'),
         \A k \in Clients : uses'[k] = uses[k] \/ Forgets(uses'[k]),
         \A k \in Clients : link'[k] # "off" => link[k] # "off" \/ left' \/ Forgets(uses[k]),
         req'[r].op \in SignsIn => req'[r].pc = "asked",
         req'[r].pc \notin {"greeting", "leaving", "fallback", "naming"} \/ left',
         req'[r].pc \in StartSteps => Forgets(uses'[req'[r].at]) \/ left',
         req'[r].pc = "asking" =>
           left' \/ link'[req'[r].at] = "off" \/ Forgets(uses'[req'[r].at]),
         req'[r].pc = "probing" => Forgets(req'[r].at),
         left' \/ string' \in {string, None}, left' \/ (state'.logged_in => state.logged_in),
         \/ listener'.cur = listener.cur \/ left'
         \/ listener'.cur \in Clients /\ Forgets(uses'[listener'.cur])
  PROVE  NothingKnown'
<1>l. link \in [Clients -> {"off", "half", "on"}] /\ listener.cur \in Clients \cup {None}
  BY DEF LoginTypes, Values
<1>1. ASSUME NEW q \in Procs PROVE Bare(q)'
  <2> USE DEF Bare, Signs, Starting, Forgets
  <2>1. CASE q = r BY <2>1
  <2>2. CASE q # r
    <3>1. /\ req'[q].op = req[q].op /\ req'[q].pc = req[q].pc /\ req'[q].at = req[q].at
          /\ Bare(q)
      BY <2>2 DEF Rest, NothingKnown
    <3>2. req[q].pc \in StartSteps \cup {"asking"} => req[q].at \in Clients BY ShapeFacts
    <3>3. req'[q].pc \in StartSteps => Forgets(uses'[req'[q].at]) \/ left'
      BY <3>1, <3>2
    <3>4. req'[q].pc = "asking" =>
            left' \/ link'[req'[q].at] = "off" \/ Forgets(uses'[req'[q].at])
      BY <3>1, <3>2
    <3> QED BY <3>1, <3>3, <3>4
  <2> QED BY <2>1, <2>2
<1>2. left' \/ /\ string' = None /\ ~state'.logged_in
               /\ listener'.cur = None \/ link'[listener'.cur] = "off"
                    \/ Forgets(uses'[listener'.cur])
  <2> SUFFICES ASSUME ~left'
               PROVE  /\ string' = None /\ ~state'.logged_in
                      /\ listener'.cur = None \/ link'[listener'.cur] = "off"
                           \/ Forgets(uses'[listener'.cur])
    OBVIOUS
  <2>1. /\ string = None /\ ~state.logged_in
        /\ listener.cur = None \/ link[listener.cur] = "off" \/ Forgets(uses[listener.cur])
    BY DEF NothingKnown
  <2>2. CASE listener'.cur = listener.cur BY <1>l, <2>1, <2>2
  <2>3. CASE listener'.cur # listener.cur BY <2>1, <2>3
  <2> QED BY <2>2, <2>3
<1> QED BY <1>1, <1>2 DEF NothingKnown, Forgets

(* The same where the step ends r and touches no more than one client. *)
LEMMA NothingEnds ==
  ASSUME LoginTypes, NothingKnown, NEW r \in Procs, Rest(r), Over(r), signed' = signed,
         left => left', main' \in {main, None}, auth' \in {auth, None}, uses' = uses,
         \A k \in Clients : link'[k] # "off" => link[k] # "off" \/ left',
         string' \in {string, None} \/ left', left' \/ (state'.logged_in => state.logged_in),
         listener'.cur = listener.cur
  PROVE  NothingKnown'
<1>1. main' \in {None, Blank} BY DEF NothingKnown
<1>2. Forgets(auth') BY NoLogin DEF NothingKnown, Forgets, LoginTypes
<1>3. /\ req'[r].pc \notin StartSteps /\ req'[r].op \notin SignsIn
      /\ req'[r].pc = "idle"
  BY DEF Over, StartSteps, SignsIn
<1> QED BY <1>1, <1>2, <1>3, NothingKept

LEMMA NothingStart ==
  ASSUME LoginTypes, NothingKnown, NEW r \in Procs, StartStep(r) PROVE NothingKnown'
<1> DEFINE k == req[r].at
<1>0. StartSteps = {"connecting", "half", "backoff", "naming"} BY DEF StartSteps
<1>r. /\ Rest(r) /\ req[r].pc \in StartSteps
      /\ \/ Over(r)
         \/ Keeps(r) /\ req'[r].pc \in StartSteps
         \/ Keeps(r) /\ req'[r].pc = "fallback"
  BY StartStepFacts
<1>k. /\ k \in Clients /\ listener.cur \in Clients
      /\ link \in [Clients -> {"off", "half", "on"}] /\ uses \in [Clients -> Sessions]
      /\ main \in {None, Blank} /\ Forgets(auth)
      /\ Forgets(None) /\ Forgets(Blank) /\ Opened(main) = Blank
  BY <1>r, ShapeFacts, NoLogin DEF LoginTypes, Values, NothingKnown, Forgets
<1>b. req[r].op \notin SignsIn /\ (Forgets(uses[k]) \/ left)
  BY <1>0, <1>r DEF NothingKnown, Bare, Signs, Starting
<1>c. req'[r].op \notin SignsIn BY <1>b, <1>r DEF Keeps, Over, SignsIn
<1>1. CASE Connects(r)
  <2>1. /\ req'[r].pc = "half" /\ req'[r].at = k /\ files' = files /\ signed' = signed
        /\ uses' = uses /\ string' = string /\ state' = state /\ listener' = listener
        /\ left' = left /\ \A j \in Clients : j # k => link'[j] = link[j]
    BY <1>1, <1>k, GoesFacts DEF Connects, telegram, login, history
  <2> QED BY <1>0, <1>r, <1>k, <1>b, <1>c, <2>1, NothingKept DEF files
<1>2. CASE Authorises(r)
  <2>1. left
    <3>1. uses[k] \in signed BY <1>2 DEF Authorises, Valid
    <3> QED BY <1>b, <3>1 DEF Forgets
  <2>2. /\ auth' = auth /\ signed' = signed /\ uses' = uses /\ listener' = listener
        /\ left' BY <1>2, <2>1 DEF Authorises, telegram, Leaves
  <2>3. main' \in {None, Blank} /\ req'[r].pc \in {"naming", "idle"}
    <3>1. (Waits(r, "naming", listener.cur) /\ main' = main) \/ StartFails(r, main)
      BY <1>2 DEF Authorises
    <3> QED BY <1>b, <1>k, <3>1, WaitsFacts, FailsFacts DEF Over
  <2> QED BY <1>0, <1>r, <1>k, <1>c, <2>1, <2>2, <2>3, NothingKept
<1>3. CASE Duplicate(r)
  <2>1. /\ req'[r].pc = "backoff" /\ req'[r].at = k /\ files' = files /\ signed' = signed
        /\ uses' = uses /\ string' = string /\ state' = state /\ listener' = listener
        /\ left' = left /\ link' = [link EXCEPT ![k] = "off"]
    BY <1>3, DuplicateFacts DEF Duplicate, telegram, login, history
  <2>2. \A j \in Clients : link'[j] # "off" => link[j] # "off" BY <1>k, <2>1
  <2> QED BY <1>0, <1>r, <1>k, <1>b, <1>c, <2>1, <2>2, NothingKept DEF files
<1>4. CASE Retries(r)
  <2>1. /\ auth' = auth /\ signed' = signed /\ string' = string /\ state' = state
        /\ listener' = listener /\ left' = left /\ link' = link
    BY <1>4 DEF Retries, telegram, login, history
  <2>2. CASE link[listener.cur] = "off"
    <3>1. /\ main' = Opened(main) /\ uses' = [uses EXCEPT ![listener.cur] = Opened(main)]
          /\ req'[r].pc = "connecting" /\ req'[r].at = listener.cur
      BY <1>4, <2>2, WaitsFacts DEF Retries
    <3>2. /\ \A j \in Clients : uses'[j] = uses[j] \/ Forgets(uses'[j])
          /\ Forgets(uses'[listener.cur])
      BY <1>k, <3>1 DEF Forgets
    <3> QED BY <1>0, <1>r, <1>k, <1>c, <2>1, <3>1, <3>2, NothingKept
  <2>3. CASE link[listener.cur] # "off"
    <3>1. Over(r) /\ main' = main /\ uses' = uses BY <1>4, <1>b, <2>3, FailsFacts DEF Retries
    <3> QED BY <1>r, <2>1, <3>1, NothingEnds
  <2> QED BY <2>2, <2>3
<1>5. CASE AuthFails(r)
  <2>1. /\ Over(r) /\ main' = None /\ auth' = auth /\ signed' = signed /\ string' = None
        /\ state' = state /\ listener' = listener /\ left' = left /\ uses' = uses
        /\ link' = [link EXCEPT ![k] = "off"]
    BY <1>5, <1>b, FailsFacts DEF AuthFails, telegram, login, history
  <2>2. \A j \in Clients : link'[j] # "off" => link[j] # "off" BY <1>k, <2>1
  <2>3. string' \in {string, None} \/ left' BY <2>1 DEF NothingKnown
  <2> QED BY <1>r, <2>1, <2>2, <2>3, NothingEnds
<1>6. CASE OtherError(r)
  <2>1. /\ Over(r) /\ main' = main /\ auth' = auth /\ signed' = signed /\ string' = string
        /\ state' = state /\ listener' = listener /\ (left => left') /\ uses' = uses
        /\ link' = link \/ link' = [link EXCEPT ![k] = "off"]
    BY <1>6, <1>b, FailsFacts DEF OtherError, telegram, login, Leaves
  <2>2. \A j \in Clients : link'[j] # "off" => link[j] # "off" BY <1>k, <2>1
  <2> QED BY <1>r, <2>1, <2>2, NothingEnds
<1>7. CASE TimesOut(r)
  <2>1. /\ Over(r) /\ main' = main /\ auth' = auth /\ signed' = signed /\ string' = string
        /\ state' = state /\ listener' = listener /\ (left => left') /\ uses' = uses
        /\ link' = link
    BY <1>7, <1>b, FailsFacts DEF TimesOut, telegram, login, clients
  <2> QED BY <1>r, <2>1, NothingEnds
<1>8. CASE Started(r)
  <2>1. left BY <1>8 DEF Started, NothingKnown, Bare
  <2>2. /\ Ends(r) /\ files' = files /\ signed' = signed /\ left' = left /\ uses' = uses
        /\ link' = link
        /\ listener' = [listener EXCEPT !.loops = @ + 1, !.ref = TRUE]
    BY <1>8 DEF Started, FinishLogin, StartsLoop, telegram, history
  <2>3. listener'.cur = listener.cur BY <2>2 DEF LoginTypes, Values
  <2> QED BY <1>r, <2>1, <2>2, <2>3, EndsFacts, NothingEnds DEF files
<1> QED BY <1>1, <1>2, <1>3, <1>4, <1>5, <1>6, <1>7, <1>8 DEF StartStep

LEMMA NothingStep ==
  ASSUME LoginTypes, NothingKnown, NEW r \in Procs, Step(r), ~SignedIn(r)
  PROVE  NothingKnown'
<1> DEFINE k == req[r].at
<1>0. StartSteps = {"connecting", "half", "backoff", "naming"} BY DEF StartSteps
<1>r. Rest(r) BY StepRest
<1>s. Shape(r, req[r]) BY ShapeFacts
<1>k. /\ main \in {None, Blank} /\ Forgets(auth) /\ Bare(r)
      /\ Forgets(None) /\ Forgets(Blank) /\ Forgets(codes + 1) /\ Opened(main) = Blank
      /\ link \in [Clients -> {"off", "half", "on"}]
  BY NoLogin DEF LoginTypes, NothingKnown, Forgets, Values
<1>l. \A j \in Clients : (\E i : Stops(i)) /\ link'[j] # "off" => link[j] # "off"
  BY <1>k DEF Stops
<1>1. CASE StartStep(r) BY <1>1, NothingStart
<1>2. CASE Fallback(r) \/ Greeted(r) \/ Promote(r) \/ Restarts(r)
  <2>1. req[r].op \in SignsIn /\ req[r].pc # "asked"
    BY <1>2, <1>s DEF Fallback, Greeted, Promote, Restarts, At, Shape, Asking
  <2> QED BY <1>k, <2>1 DEF Bare, Signs
<1>3. CASE OpensAuth(r)
  <2>1. /\ req'[r].pc = "sending" /\ req'[r].op = "send" /\ auth' = codes + 1
        /\ main' = main /\ signed' = signed /\ uses' = uses /\ link' = link
        /\ string' = string /\ state' = state /\ listener' = listener /\ left' = left
    BY <1>3, <1>s, WaitsFacts DEF OpensAuth, Keeps, Shape, login, clients, history
  <2> QED BY <1>0, <1>r, <1>k, <2>1, NothingKept DEF SignsIn
<1>4. CASE CodeSent(r) \/ CodeNotSent(r) \/ NeedsPassword(r) \/ SignInFails(r)
  <2>1. /\ Ends(r) /\ files' = files /\ signed' = signed /\ clients' = clients /\ string' = string
        /\ left' = left
    BY <1>4 DEF CodeSent, CodeNotSent, NeedsPassword, SignInFails, telegram, history
  <2>2. state'.logged_in => state.logged_in
    <3>1. \/ state' = state \/ state' = [state EXCEPT !.needs_2fa = TRUE]
          \/ state' = [Fresh EXCEPT !.client = req[r].at]
      BY <1>4 DEF CodeSent, CodeNotSent, NeedsPassword, SignInFails, login
    <3>2. [state EXCEPT !.needs_2fa = TRUE].logged_in = state.logged_in
      BY DEF LoginTypes, Values
    <3>3. [Fresh EXCEPT !.client = req[r].at].logged_in = FALSE BY DEF Fresh
    <3> QED BY <3>1, <3>2, <3>3
  <2> QED BY <1>r, <2>1, <2>2, EndsFacts, NothingEnds DEF files, clients
<1>5. CASE ListenerStopped(r)
  <2>1. /\ req'[r].pc = "parting" /\ req'[r].op = "logout" /\ files' = files /\ signed' = signed
        /\ link' = link \/ (\E i : Stops(i))
        /\ uses' = uses /\ string' = string /\ state' = state /\ listener' = listener
        /\ left' = left
    BY <1>5, WaitsFacts DEF ListenerStopped, At, Keeps, RefusesStop, telegram, history
  <2>2. \A j \in Clients : link'[j] # "off" => link[j] # "off" BY <1>l, <2>1
  <2> QED BY <1>0, <1>r, <1>k, <2>1, <2>2, NothingKept DEF SignsIn, files
<1>6. CASE Parted(r)
  <2>1. /\ Ends(r) /\ main' = None /\ auth' = None /\ string' = None /\ state' = Fresh
        /\ signed' = signed /\ clients' = clients /\ left' = left
    BY <1>6 DEF Parted, ClearsFiles, telegram
  <2>2. Fresh.logged_in = FALSE BY DEF Fresh
  <2>3. string' \in {string, None} \/ left' BY <2>1
  <2> QED BY <1>r, <2>1, <2>2, <2>3, EndsFacts, NothingEnds DEF clients
<1>7. CASE ListenerAnswers(r)
  <2>1. left
    <3>1. req[r].pc = "asking" /\ link[k] # "off" /\ uses[k] \in signed
      BY <1>7 DEF ListenerAnswers, Valid
    <3> QED BY <1>k, <3>1 DEF Bare, Forgets
  <2>2. /\ Ends(r) /\ files' = files /\ signed' = signed /\ clients' = clients /\ string' = string
        /\ left' = left
    BY <1>7 DEF ListenerAnswers, telegram, history
  <2> QED BY <1>r, <2>1, <2>2, EndsFacts, NothingEnds DEF files, clients
<1>8. CASE ListenerInvalid(r)
  <2>1. /\ BeginsStop(r) /\ req'[r].pc = "stopping" /\ req'[r].op = "status" /\ files' = files
        /\ signed' = signed /\ string' = string /\ state' = state /\ left' = left
    BY <1>8, <1>s, WaitsFacts DEF ListenerInvalid, Keeps, Shape, telegram, login
  <2>2. listener'.cur = listener.cur /\ uses' = uses /\ link' = link
    BY <2>1, StopFacts DEF LoginTypes
  <2> QED BY <1>0, <1>r, <1>k, <2>1, <2>2, NothingKept DEF SignsIn, files
<1>9. CASE ListenerSilent(r)
  <2>1. /\ auth' = auth /\ signed' = signed /\ clients' = clients /\ string' = string
        /\ state' = state /\ left' = left /\ req[r].op = "status"
        /\ \/ Ends(r) /\ main' = main
           \/ Waits(r, "probing", Opened(main)) /\ main' = Opened(main)
    BY <1>9, <1>s DEF ListenerSilent, Shape, telegram, login, history
  <2>2. CASE Ends(r) /\ main' = main
    BY <1>r, <2>1, <2>2, EndsFacts, NothingEnds DEF clients
  <2>3. CASE Waits(r, "probing", Opened(main)) /\ main' = Opened(main)
    <3>1. req'[r].pc = "probing" /\ req'[r].at = Blank /\ req'[r].op = "status"
      BY <1>k, <2>1, <2>3, WaitsFacts DEF Keeps
    <3> QED BY <1>0, <1>r, <1>k, <2>1, <2>3, <3>1, NothingKept DEF SignsIn, clients
  <2> QED BY <2>1, <2>2, <2>3
<1>10. CASE ListenerDropped(r)
  <2>1. /\ Ends(r) /\ main' = None /\ auth' = None /\ string' = None /\ Says(FALSE)
        /\ signed' = signed /\ uses' = uses /\ listener' = listener /\ left' = left
        /\ link' = link \/ (\E i : Stops(i))
    BY <1>10 DEF ListenerDropped, ClearsFiles, RefusesStop, telegram, history
  <2>2. ~state'.logged_in BY <2>1, StateFacts DEF LoginTypes
  <2>3. \A j \in Clients : link'[j] # "off" => link[j] # "off" BY <1>l, <2>1
  <2> QED BY <1>r, <2>1, <2>2, <2>3, EndsFacts, NothingEnds
<1>11. CASE Probed(r)
  <2>1. ~Valid(k) BY <1>11, <1>k DEF Probed, Bare, Forgets, Valid
  <2>2. /\ Ends(r) /\ main' \in {main, None} /\ auth' = auth /\ string' \in {string, None}
        /\ Says(FALSE) /\ signed' = signed /\ clients' = clients /\ left' = left
    BY <1>11, <2>1 DEF Probed, telegram, history
  <2>3. ~state'.logged_in BY <2>2, StateFacts DEF LoginTypes
  <2> QED BY <1>r, <2>2, <2>3, EndsFacts, NothingEnds DEF clients
<1> QED BY <1>1, <1>2, <1>3, <1>4, <1>5, <1>6, <1>7, <1>8, <1>9, <1>10, <1>11 DEF Step

LEMMA NothingRequest ==
  ASSUME LoginTypes, NothingKnown, NEW r \in Procs, Request(r) PROVE NothingKnown'
<1>0. StartSteps = {"connecting", "half", "backoff", "naming"} BY DEF StartSteps
<1>r. /\ Rest(r)
      /\ SendCode(r) => req'[r].op = "send" /\ req'[r].pc = "clearing"
      /\ SignIn(r) => req'[r].op \in SignsIn /\ req'[r].pc = "asked"
      /\ Logout(r) => /\ req'[r].op = "logout"
                      /\ IF Running THEN req'[r].pc = "stopping" /\ req'[r].at = listener.cur
                                    ELSE req'[r].pc = "parting"
      /\ Status(r) => /\ req'[r].op = "status"
                      /\ IF Running THEN req'[r].pc = "asking" /\ req'[r].at = listener.cur
                                    ELSE req'[r].pc = "probing" /\ req'[r].at = main
      /\ SaveConfig(r) => req'[r].op = "config" /\ req'[r].pc = "connecting"
  BY RequestFacts
<1>k. /\ main \in {None, Blank} /\ main \in Sessions /\ Forgets(auth) /\ Forgets(main)
      /\ Forgets(None) /\ Forgets(Blank) /\ Opened(main) = Blank
  BY NoLogin DEF LoginTypes, NothingKnown, Forgets, Values
<1>s. signed' = signed /\ left' = left /\ string' = string /\ state' = state
  BY DEF Request, SendCode, SignIn, Logout, Status, SaveConfig, telegram, login, history
<1>1. CASE SendCode(r) \/ SignIn(r)
  <2>1. files' = files /\ clients' = clients BY <1>1 DEF SendCode, SignIn
  <2>2. \/ req'[r].op = "send" /\ req'[r].pc = "clearing"
        \/ req'[r].op \in SignsIn /\ req'[r].pc = "asked"
    BY <1>1, <1>r
  <2> QED BY <1>0, <1>r, <1>k, <1>s, <2>1, <2>2, NothingKept DEF SignsIn, files, clients
<1>2. CASE Logout(r)
  <2>1. files' = files /\ (BeginsStop(r) \/ clients' = clients) BY <1>2 DEF Logout
  <2>2. listener'.cur = listener.cur /\ uses' = uses /\ link' = link
    BY <2>1, StopFacts DEF LoginTypes, clients
  <2>3. req'[r].op = "logout" /\ req'[r].pc \in {"stopping", "parting"} BY <1>2, <1>r
  <2> QED BY <1>0, <1>r, <1>k, <1>s, <2>1, <2>2, <2>3, NothingKept DEF SignsIn, files
<1>3. CASE Status(r)
  <2>1. files' = files /\ clients' = clients BY <1>3 DEF Status
  <2>2. CASE Running
    <3>1. req'[r].op = "status" /\ req'[r].pc = "asking" /\ req'[r].at = listener.cur
      BY <1>3, <1>r, <2>2
    <3>2. left \/ Forgets(uses[listener.cur]) BY <2>2 DEF Running, NothingKnown
    <3> QED BY <1>0, <1>r, <1>k, <1>s, <2>1, <3>1, <3>2, NothingKept DEF SignsIn, files, clients
  <2>3. CASE ~Running
    <3>1. req'[r].op = "status" /\ req'[r].pc = "probing" /\ req'[r].at = main
      BY <1>3, <1>r, <2>3
    <3> QED BY <1>0, <1>r, <1>k, <1>s, <2>1, <3>1, NothingKept DEF SignsIn, files, clients
  <2> QED BY <2>2, <2>3
<1>4. CASE SaveConfig(r)
  <2>1. PICK k \in Clients : Unused(k) /\ Launch(r, k, main) /\ Begins(r, "config", "connecting", k)
    BY <1>4 DEF SaveConfig
  <2>2. /\ listener'.cur = k /\ uses'[k] = Opened(main) /\ main' = Opened(main)
        /\ \A j \in Clients : uses'[j] \in {uses[j], None, Opened(main)}
    BY <1>k, <2>1, LaunchFacts DEF LoginTypes
  <2>3. req'[r].op = "config" /\ req'[r].pc = "connecting" /\ req'[r].at = k
    <3>1. /\ "config" \in Ops /\ "connecting" \in Pcs /\ k \in Sessions \cup Clients
      BY DEF Ops, Pcs, StartSteps
    <3> QED BY <2>1, <3>1, BeginsRest
  <2>4. auth' = auth /\ link' = link BY <1>4 DEF SaveConfig
  <2>5. \A j \in Clients : uses'[j] = uses[j] \/ Forgets(uses'[j]) BY <1>k, <2>2
  <2> QED BY <1>0, <1>r, <1>k, <1>s, <2>2, <2>3, <2>4, <2>5, NothingKept DEF SignsIn
<1> QED BY <1>1, <1>2, <1>3, <1>4 DEF Request

(* What happens beside the requests. *)
LEMMA NothingElse ==
  ASSUME LoginTypes, NothingKnown,
         Refresh \/ WorkerClears \/ (\E a \in Attempts : Revoke(a)) \/ UNCHANGED vars
  PROVE  NothingKnown'
<1>1. /\ files' = files /\ signed' = signed /\ state' = state /\ clients' = clients
      /\ req' = req /\ left' = left
  BY DEF Refresh, WorkerClears, Revoke, vars, telegram, login, history
<1>2. left \/ string' = None
  <2>1. CASE Refresh
    <3>1. left \/ (string = None /\ uses[listener.cur] \notin signed)
      BY <2>1 DEF Refresh, Running, NothingKnown, Forgets
    <3> QED BY <2>1, <3>1 DEF Refresh, Exported
  <2>2. CASE ~Refresh BY <2>2 DEF WorkerClears, Revoke, vars, NothingKnown
  <2> QED BY <2>1, <2>2
<1>3. ASSUME NEW q \in Procs PROVE Bare(q)'
  BY <1>1 DEF NothingKnown, Bare, Signs, Starting, Forgets, clients
<1> QED BY <1>1, <1>2, <1>3 DEF NothingKnown, Forgets, files, clients

LEMMA NothingRestart ==
  ASSUME LoginTypes, NothingKnown, ~left, Restart PROVE NothingKnown'
<1>1. \A q \in Procs : req'[q] = Idle \/
        /\ q = Boot /\ main # None /\ listener'.cur = 1 /\ uses'[1] = main
        /\ req'[q].op = "boot" /\ req'[q].pc = "connecting" /\ req'[q].at = 1
        /\ req'[q].alone = FALSE
  BY RestartFacts
<1>2. /\ files' = files /\ signed' = signed /\ string' = string /\ state' = Fresh
  BY DEF Restart, telegram
<1>3. \A k \in Clients : link'[k] = "off" BY RestartFacts
<1>4. /\ main \in {None, Blank} /\ Forgets(main) /\ auth \notin signed
  BY NoLogin DEF LoginTypes, NothingKnown, Forgets
<1>5. listener'.cur \in Clients \cup {None} BY RestartFacts
<1>6. ASSUME NEW q \in Procs PROVE Bare(q)'
  <2>1. CASE req'[q] = Idle
    <3>1. req'[q].pc = "idle" /\ req'[q].op = "none" BY <2>1 DEF Idle
    <3> QED BY <3>1 DEF Bare, Signs, SignsIn, Starting, StartSteps
  <2>2. CASE req'[q] # Idle
    <3>1. /\ req'[q].op = "boot" /\ req'[q].pc = "connecting" /\ req'[q].at = 1
          /\ uses'[1] = main
      BY <1>1, <2>2
    <3> QED BY <1>2, <1>4, <3>1 DEF Bare, Signs, SignsIn, Starting, StartSteps, Forgets
  <2> QED BY <2>1, <2>2
<1>7. state'.logged_in = FALSE BY <1>2 DEF Fresh
<1> QED BY <1>2, <1>3, <1>4, <1>5, <1>6, <1>7 DEF NothingKnown, files

(* A logout that was alone leaves nothing behind. *)
LEMMA NothingParted ==
  ASSUME LoginTypes, NEW r \in Procs, Parted(r), req[r].alone, Lonely(r)
  PROVE  NothingKnown'
<1>1. /\ Ends(r) /\ main' = None /\ auth' = None /\ string' = None /\ state' = Fresh
      /\ signed' = signed /\ clients' = clients /\ left' = left /\ req[r].pc = "parting"
  BY DEF Parted, ClearsFiles, telegram
<1>2. Rest(r) /\ Over(r) BY <1>1, EndsFacts
<1>3. ASSUME NEW q \in Procs PROVE req'[q].pc = "idle" /\ req'[q].op = "none"
  <2>1. CASE q = r BY <1>2, <2>1 DEF Over
  <2>2. CASE q # r
    <3>1. req[q].pc = "idle" BY <2>2 DEF LoginTypes, Shapes
    <3>2. Shape(q, req[q]) BY ShapeFacts
    <3>3. req[q].op = "none" BY <3>1, <3>2 DEF Shape
    <3> QED BY <1>2, <2>2, <3>1, <3>3 DEF Rest
  <2> QED BY <2>1, <2>2
<1>4. \A q \in Procs : Bare(q)' BY <1>3 DEF Bare, Signs, SignsIn, Starting, StartSteps
<1>5. listener.cur = None \/ link[listener.cur] = "off" \/ left BY <1>1 DEF Lonely
<1>6. Fresh.logged_in = FALSE BY DEF Fresh
<1>7. None \notin signed BY NoLogin DEF LoginTypes, Forgets
<1> QED BY <1>1, <1>4, <1>5, <1>6, <1>7 DEF NothingKnown, clients

(* A logout that is alone stays so only while nothing else happens. *)
LEMMA LonelyStep ==
  ASSUME LoginTypes, Halves, \A q \in Procs : Lonely(q), NEW r \in Procs, Step(r)
  PROVE  \A q \in Procs : Lonely(q)'
<1>0. StartSteps = {"connecting", "half", "backoff", "naming"} BY DEF StartSteps
<1>r. Rest(r) BY StepRest
<1>a. \A q \in Procs : req[q].alone =>
        /\ \A p \in Procs \ {q} : req[p].pc = "idle"
        /\ req[q].op = "logout"
  BY ShapeFacts DEF LoginTypes, Shapes, Shape
<1>b. req[r].pc # "idle"
  BY <1>0 DEF Step, StartStep, Connects, Authorises, Duplicate, Retries, AuthFails, OtherError,
     TimesOut, Started, Starting, Fallback, OpensAuth, CodeSent, CodeNotSent, SignedIn,
     NeedsPassword, SignInFails, Greeted, Promote, Restarts, ListenerStopped, Parted,
     ListenerAnswers, ListenerInvalid, ListenerSilent, ListenerDropped, Probed, At
<1>1. ASSUME NEW q \in Procs, q # r, req'[q].alone PROVE FALSE
  BY <1>1, <1>a, <1>b, <1>r DEF Rest
<1>2. ASSUME req'[r].alone, ~req[r].alone PROVE FALSE
  <2>1. CASE StartStep(r) BY <1>2, <2>1, StartStepFacts DEF Keeps, Over
  <2>2. CASE SignedIn(r) BY <1>2, <2>2, SignedInFacts DEF Over
  <2>3. CASE ~StartStep(r) /\ ~SignedIn(r)
    <3>1. Ends(r) \/ (\E step, on : Waits(r, step, on)) \/ (\E f : StartFails(r, f))
      BY <2>3 DEF Step, Fallback, FinishLogin, OpensAuth, CodeSent, CodeNotSent, NeedsPassword,
         SignInFails, Greeted, Promote, Restarts, Relaunch, ListenerStopped, Parted,
         ListenerAnswers, ListenerInvalid, ListenerSilent, ListenerDropped, Probed
    <3> QED BY <1>2, <3>1, EndsFacts, WaitsFacts, FailsFacts DEF Keeps, Over
  <2> QED BY <2>1, <2>2, <2>3
<1>3. ASSUME req'[r].alone, req[r].alone PROVE Lonely(r)'
  <2>1. req[r].op = "logout" /\ req[r].pc \in {"stopping", "parting"}
        /\ (req[r].pc = "stopping" => req[r].at = listener.cur)
    BY <1>3, <1>a DEF Lonely
  <2>2. ListenerStopped(r) \/ Parted(r)
    BY <1>0, <2>1 DEF Step, StartStep, Connects, Authorises, Duplicate, Retries, AuthFails,
       OtherError, TimesOut, Started, Starting, Fallback, OpensAuth, CodeSent, CodeNotSent,
       SignedIn, NeedsPassword, SignInFails, Greeted, Promote, Restarts, ListenerAnswers,
       ListenerInvalid, ListenerSilent, ListenerDropped, Probed, At, SignsIn
  <2>3. ~Parted(r)
    <3>1. Parted(r) => Over(r) BY EndsFacts DEF Parted
    <3> QED BY <1>3, <3>1 DEF Over
  <2>4. /\ req[r].pc = "stopping" /\ req'[r].pc = "parting" /\ listener' = listener
        /\ left' = left
    BY <2>2, <2>3, WaitsFacts DEF ListenerStopped, At, history
  <2>5. req[r].at \in Clients /\ link \in [Clients -> {"off", "half", "on"}]
    BY <2>4, ShapeFacts DEF LoginTypes, Values
  <2>6. CASE Stops(req[r].at)
    <3>1. link'[req[r].at] = "off" BY <2>5, <2>6 DEF Stops
    <3> QED BY <2>1, <2>4, <3>1 DEF Lonely
  <2>7. CASE ~Stops(req[r].at)
    <3>1. link[req[r].at] # "on" /\ link' = link
      BY <2>2, <2>3, <2>7 DEF ListenerStopped, RefusesStop
    <3>2. left \/ link[req[r].at] # "half"
      <4>1. \A q \in Procs : q # r => req[q].pc = "idle" BY <1>3, <1>a
      <4> QED BY <2>4, <2>5, <4>1 DEF Halves
    <3> QED BY <2>1, <2>4, <2>5, <3>1, <3>2 DEF Lonely
  <2> QED BY <2>6, <2>7
<1>4. ASSUME NEW q \in Procs PROVE Lonely(q)'
  <2>1. CASE req'[q].alone BY <1>1, <1>2, <1>3, <2>1
  <2>2. CASE ~req'[q].alone BY <2>2 DEF Lonely
  <2> QED BY <2>1, <2>2
<1> QED BY <1>4

LEMMA LonelyRequest ==
  ASSUME LoginTypes, \A q \in Procs : Lonely(q), NEW r \in Procs, Request(r)
  PROVE  \A q \in Procs : Lonely(q)'
<1>r. /\ \A p \in Procs : p # r => req'[p].alone = FALSE
      /\ req'[r].alone => req'[r].op = "logout"
      /\ SendCode(r) => req'[r].op = "send"
      /\ SignIn(r) => req'[r].op \in SignsIn
      /\ Status(r) => req'[r].op = "status"
      /\ SaveConfig(r) => req'[r].op = "config"
      /\ Logout(r) => IF Running THEN req'[r].pc = "stopping" /\ req'[r].at = listener.cur
                                 ELSE req'[r].pc = "parting"
  BY RequestFacts
<1>1. ASSUME req'[r].alone PROVE Lonely(r)'
  <2>1. Logout(r) BY <1>1, <1>r DEF Request, SignsIn
  <2>2. CASE Running
    <3>1. BeginsStop(r) BY <2>1, <2>2 DEF Logout
    <3>2. listener'.cur = listener.cur BY <3>1, StopFacts DEF LoginTypes
    <3> QED BY <1>r, <2>1, <2>2, <3>2 DEF Lonely
  <2>3. CASE ~Running
    <3>1. clients' = clients BY <2>1, <2>3 DEF Logout
    <3> QED BY <1>r, <2>1, <2>3, <3>1 DEF Lonely, Running, clients
  <2> QED BY <2>2, <2>3
<1>2. ASSUME NEW q \in Procs PROVE Lonely(q)'
  <2>1. CASE req'[q].alone BY <1>1, <1>r, <2>1
  <2>2. CASE ~req'[q].alone BY <2>2 DEF Lonely
  <2> QED BY <2>1, <2>2
<1> QED BY <1>2

LEMMA ForgottenNext == LoginTypes /\ Halves /\ Forgotten /\ [Next]_vars => Forgotten'
<1> SUFFICES ASSUME LoginTypes, Halves, Forgotten, [Next]_vars PROVE Forgotten' OBVIOUS
<1>f. (gone => NothingKnown) /\ \A q \in Procs : Lonely(q) BY DEF Forgotten
<1>1. ASSUME NEW r \in Procs, Step(r) PROVE Forgotten'
  <2>1. \A q \in Procs : Lonely(q)' BY <1>1, <1>f, LonelyStep
  <2>2. ASSUME gone' PROVE NothingKnown'
    <3>1. ~SignedIn(r) BY <2>2 DEF SignedIn
    <3>2. CASE Parted(r)
      <4>1. req[r].alone BY <2>2, <3>2 DEF Parted
      <4> QED BY <1>f, <3>2, <4>1, NothingParted
    <3>3. CASE ~Parted(r)
      <4>1. gone' = gone
        BY <1>1, <3>1, <3>3 DEF Step, StartStep, Connects, Authorises, Duplicate, Retries,
           AuthFails, OtherError, TimesOut, Started, Fallback, OpensAuth, CodeSent, CodeNotSent,
           NeedsPassword, SignInFails, Greeted, Promote, Restarts, ListenerStopped,
           ListenerAnswers, ListenerInvalid, ListenerSilent, ListenerDropped, Probed, history
      <4> QED BY <1>1, <1>f, <2>2, <3>1, <4>1, NothingStep
    <3> QED BY <3>2, <3>3
  <2> QED BY <2>1, <2>2 DEF Forgotten
<1>2. ASSUME NEW r \in Procs, Request(r) PROVE Forgotten'
  <2>1. \A q \in Procs : Lonely(q)' BY <1>2, <1>f, LonelyRequest
  <2>2. gone' = gone
    BY <1>2 DEF Request, SendCode, SignIn, Logout, Status, SaveConfig, history
  <2>3. gone' => NothingKnown' BY <1>2, <1>f, <2>2, NothingRequest
  <2> QED BY <2>1, <2>3 DEF Forgotten
<1>3. CASE Restart
  <2>1. ASSUME NEW q \in Procs PROVE Lonely(q)'
    <3>1. req'[q] = Idle \/ req'[q].alone = FALSE BY <1>3, RestartFacts
    <3> QED BY <3>1 DEF Lonely, Idle
  <2>2. gone' => gone /\ ~left BY <1>3 DEF Restart
  <2>3. gone' => NothingKnown' BY <1>3, <1>f, <2>2, NothingRestart
  <2> QED BY <2>1, <2>3 DEF Forgotten
<1>4. CASE Refresh \/ WorkerClears \/ (\E a \in Attempts : Revoke(a)) \/ UNCHANGED vars
  <2>1. clients' = clients /\ req' = req /\ left' = left /\ gone' = gone
    BY <1>4 DEF Refresh, WorkerClears, Revoke, vars, history
  <2>2. \A q \in Procs : Lonely(q)' BY <1>f, <2>1 DEF Lonely, clients
  <2>3. gone' => NothingKnown' BY <1>4, <1>f, <2>1, NothingElse
  <2> QED BY <2>2, <2>3 DEF Forgotten
<1> QED BY <1>1, <1>2, <1>3, <1>4 DEF Next

(* auth.py:435 "Logged out, session removed": after a logout that was alone, no
   file, no key and no flag holds a login until somebody signs in, whatever
   requests, restarts, errors and timeouts follow, unless a failed start had left
   its client connected. *)
THEOREM LogoutsAreFinal == Spec => []LogoutIsFinal
<1>1. Init => LoginTypes BY TypesInit
<1>2. Init => Halves /\ Forgotten
  <2> SUFFICES ASSUME Init PROVE Halves /\ Forgotten OBVIOUS
  <2>1. \A k \in Clients : link[k] = "off" BY DEF Init
  <2>2. gone = FALSE /\ \A q \in Procs : req[q].alone = FALSE BY DEF Init, Idle
  <2> QED BY <2>1, <2>2 DEF Halves, Forgotten, Lonely
<1>3. LoginTypes /\ Halves /\ Forgotten /\ [Next]_vars => LoginTypes' /\ Halves' /\ Forgotten'
  BY TypesNext, HalvesNext, ForgottenNext
<1>4. LoginTypes /\ Forgotten => LogoutIsFinal
  <2> SUFFICES ASSUME LoginTypes, Forgotten, gone
               PROVE  /\ main \notin signed /\ auth \notin signed
                      /\ string # None \/ state.logged_in => left
    BY DEF LogoutIsFinal
  <2>1. NothingKnown BY DEF Forgotten
  <2> QED BY <2>1, NoLogin DEF NothingKnown, Forgets, LoginTypes
<1> QED BY <1>1, <1>2, <1>3, <1>4, PTL DEF Spec

-----------------------------------------------------------------------------
(* Why every request ends: its steps run out.  A start takes three steps for
   each retry it has left; what comes before a start counts from a full one. *)
StepsOfStart(x) == 3 * (MaxRetries - x.tries)
FullStart == 3 * MaxRetries

StepsOf(x) ==
  CASE x.pc = "asked" -> FullStart + 8
    [] x.pc = "greeting" -> FullStart + 7
    [] x.pc \in {"leaving", "asking"} -> FullStart + 6
    [] x.pc = "stopping" -> FullStart + 5
    [] x.pc = "backoff" -> StepsOfStart(x) + 5
    [] x.pc = "connecting" -> StepsOfStart(x) + 4
    [] x.pc = "half" -> StepsOfStart(x) + 3
    [] x.pc = "naming" -> StepsOfStart(x) + 2
    [] x.pc = "clearing" -> 2
    [] x.pc \in {"sending", "parting", "probing", "fallback"} -> 1
    [] OTHER -> 0

StepsLeft(r) == StepsOf(req[r])

(* What the count is made of, place by place. *)
LEMMA StepsInPlaces ==
  ASSUME NEW x \in Record
  PROVE  /\ StepsOfStart(x) \in 0..FullStart /\ FullStart \in Nat
         /\ StepsOf(x) \in 0..(FullStart + 8)
         /\ x.pc = "idle" <=> StepsOf(x) = 0
         /\ x.pc = "asked" => StepsOf(x) = FullStart + 8
         /\ x.pc = "greeting" => StepsOf(x) = FullStart + 7
         /\ x.pc \in {"leaving", "asking"} => StepsOf(x) = FullStart + 6
         /\ x.pc = "stopping" => StepsOf(x) = FullStart + 5
         /\ x.pc = "backoff" => StepsOf(x) = StepsOfStart(x) + 5
         /\ x.pc = "connecting" => StepsOf(x) = StepsOfStart(x) + 4
         /\ x.pc = "half" => StepsOf(x) = StepsOfStart(x) + 3
         /\ x.pc = "naming" => StepsOf(x) = StepsOfStart(x) + 2
         /\ x.pc = "clearing" => StepsOf(x) = 2
         /\ x.pc \in {"sending", "parting", "probing", "fallback"} => StepsOf(x) = 1
<1>1. x.tries \in 0..MaxRetries /\ x.pc \in Pcs BY DEF Record
<1>2. StepsOfStart(x) \in 0..FullStart /\ FullStart \in Nat
  BY <1>1, Constants DEF StepsOfStart, FullStart
<1> HIDE DEF StepsOfStart, FullStart
<1> QED BY <1>1, <1>2 DEF StepsOf, Pcs, StartSteps

(* Where a step takes a request: one place after another, and back to a start
   only for one retry less. *)
Roads ==
  {<<"asked", "greeting">>, <<"greeting", "leaving">>, <<"leaving", "stopping">>,
   <<"leaving", "connecting">>, <<"stopping", "connecting">>, <<"stopping", "fallback">>,
   <<"stopping", "parting">>, <<"backoff", "connecting">>, <<"backoff", "fallback">>,
   <<"connecting", "half">>, <<"connecting", "fallback">>, <<"half", "naming">>,
   <<"half", "fallback">>, <<"naming", "fallback">>, <<"clearing", "sending">>,
   <<"asking", "stopping">>, <<"asking", "probing">>}
Ahead(x, y) ==
  \/ y.pc = "idle"
  \/ y.tries = x.tries /\ <<x.pc, y.pc>> \in Roads
  \/ x.pc \in {"connecting", "half"} /\ y.pc = "backoff" /\ y.tries = x.tries + 1

LEMMA AheadSpends ==
  ASSUME NEW x \in Record, NEW y \in Record, x.pc # "idle", Ahead(x, y)
  PROVE  StepsOf(y) < StepsOf(x)
<1> USE StepsInPlaces
<1>0. x.tries \in Nat /\ y.tries \in Nat /\ MaxRetries \in Nat BY Constants DEF Record
<1>1. CASE y.pc = "idle" BY <1>1
<1>2. CASE y.tries = x.tries /\ y.pc # "idle"
  <2>1. StepsOfStart(y) = StepsOfStart(x) BY <1>2 DEF StepsOfStart
  <2>2. <<x.pc, y.pc>> \in Roads BY <1>0, <1>2 DEF Ahead
  <2> QED BY <1>2, <2>1, <2>2 DEF Roads
<1>3. CASE x.pc \in {"connecting", "half"} /\ y.pc = "backoff" /\ y.tries = x.tries + 1
  <2>1. StepsOfStart(y) = StepsOfStart(x) - 3 BY <1>0, <1>3 DEF StepsOfStart
  <2> QED BY <1>3, <2>1
<1> QED BY <1>1, <1>2, <1>3 DEF Ahead

(* A request that ends, or goes on along a road, goes ahead. *)
LEMMA GoesAhead ==
  ASSUME req \in [Procs -> Record], NEW r \in Procs
  PROVE  /\ Ends(r) => Ahead(req[r], req'[r])
         /\ \A step \in Pcs : <<req[r].pc, step>> \in Roads =>
              /\ Goes(r, step) => Ahead(req[r], req'[r])
              /\ \A on : Waits(r, step, on) => Ahead(req[r], req'[r])
<1>1. ASSUME Ends(r) PROVE Ahead(req[r], req'[r])
  BY <1>1 DEF Ends, Becomes, Idle, Ahead
<1>2. ASSUME NEW step \in Pcs, <<req[r].pc, step>> \in Roads, Goes(r, step)
      PROVE  Ahead(req[r], req'[r])
  <2>1. req'[r].pc = step /\ req'[r].tries = req[r].tries
    BY <1>2 DEF Goes, Becomes, Record
  <2> QED BY <1>2, <2>1 DEF Ahead
<1>3. ASSUME NEW step \in Pcs, <<req[r].pc, step>> \in Roads, NEW on, Waits(r, step, on)
      PROVE  Ahead(req[r], req'[r])
  <2>1. req'[r].pc = step /\ req'[r].tries = req[r].tries
    BY <1>3 DEF Waits, Becomes, Record
  <2> QED BY <1>3, <2>1 DEF Ahead
<1> QED BY <1>1, <1>2, <1>3

LEMMA FailedStartAhead ==
  ASSUME req \in [Procs -> Record], NEW r \in Procs, NEW file, StartFails(r, file),
         req[r].pc \in StartSteps \cup {"stopping"}
  PROVE  Ahead(req[r], req'[r])
<1>1. "fallback" \in Pcs /\ <<req[r].pc, "fallback">> \in Roads BY DEF Pcs, Roads, StartSteps
<1> QED BY <1>1, GoesAhead DEF StartFails

LEMMA StartAhead ==
  ASSUME req \in [Procs -> Record], NEW r \in Procs, StartStep(r)
  PROVE  req[r].pc # "idle" /\ Ahead(req[r], req'[r])
<1> USE GoesAhead, FailedStartAhead
<1>0. {"half", "naming", "connecting"} \subseteq Pcs BY DEF Pcs, StartSteps
<1>1. CASE Connects(r) BY <1>0, <1>1 DEF Connects, Roads
<1>2. CASE Authorises(r) BY <1>0, <1>2 DEF Authorises, Roads, StartSteps
<1>3. CASE Duplicate(r)
  <2>1. /\ req'[r].pc = "backoff" /\ req'[r].tries = req[r].tries + 1
        /\ req[r].pc \in {"connecting", "half"}
    BY <1>3 DEF Duplicate, MayRetry, Becomes, Record
  <2> QED BY <2>1 DEF Ahead
<1>4. CASE Retries(r) BY <1>0, <1>4 DEF Retries, Roads, StartSteps
<1>5. CASE AuthFails(r) BY <1>5 DEF AuthFails, StartSteps
<1>6. CASE OtherError(r) BY <1>6 DEF OtherError, Starting, StartSteps
<1>7. CASE TimesOut(r) BY <1>7 DEF TimesOut, Starting, StartSteps
<1>8. CASE Started(r) BY <1>8 DEF Started, FinishLogin
<1> QED BY <1>1, <1>2, <1>3, <1>4, <1>5, <1>6, <1>7, <1>8 DEF StartStep

LEMMA StepAhead ==
  ASSUME req \in [Procs -> Record], NEW r \in Procs, Step(r)
  PROVE  req[r].pc # "idle" /\ Ahead(req[r], req'[r])
<1> USE GoesAhead
<1>0. {"sending", "greeting", "leaving", "stopping", "connecting", "parting", "probing"}
        \subseteq Pcs
  BY DEF Pcs, StartSteps
<1>1. CASE StartStep(r) BY <1>1, StartAhead
<1>2. CASE Fallback(r) BY <1>2 DEF Fallback, FinishLogin
<1>3. CASE OpensAuth(r) BY <1>0, <1>3 DEF OpensAuth, Roads
<1>4. CASE CodeSent(r) \/ CodeNotSent(r) BY <1>4 DEF CodeSent, CodeNotSent
<1>5. CASE SignedIn(r)
  <2>1. CASE state.client = None BY <1>5, <2>1 DEF SignedIn
  <2>2. CASE state.client # None
    <3>1. /\ req[r].pc = "asked"
          /\ Becomes(r, [req[r] EXCEPT !.pc = "greeting", !.at = state.client, !.saw = req[r].at])
      BY <1>5, <2>2 DEF SignedIn
    <3>2. req'[r].pc = "greeting" /\ req'[r].tries = req[r].tries BY <3>1 DEF Becomes, Record
    <3> QED BY <3>1, <3>2 DEF Ahead, Roads
  <2> QED BY <2>1, <2>2
<1>6. CASE NeedsPassword(r) \/ SignInFails(r) BY <1>6 DEF NeedsPassword, SignInFails, At
<1>7. CASE Greeted(r) BY <1>0, <1>7 DEF Greeted, Roads
<1>8. CASE Promote(r)
  BY <1>0, <1>8 DEF Promote, Relaunch, Roads
<1>9. CASE Restarts(r)
  <2>1. CASE StartFails(r, main)
    BY <1>9, <2>1, FailedStartAhead DEF Restarts, At
  <2>2. CASE ~StartFails(r, main) BY <1>0, <1>9, <2>2 DEF Restarts, At, Relaunch, Roads
  <2> QED BY <2>1, <2>2
<1>10. CASE ListenerStopped(r) BY <1>0, <1>10 DEF ListenerStopped, At, Roads
<1>11. CASE Parted(r) BY <1>11 DEF Parted
<1>12. CASE ListenerAnswers(r) BY <1>12 DEF ListenerAnswers
<1>13. CASE ListenerInvalid(r) BY <1>0, <1>13 DEF ListenerInvalid, Roads
<1>14. CASE ListenerSilent(r) BY <1>0, <1>14 DEF ListenerSilent, Roads
<1>15. CASE ListenerDropped(r) BY <1>15 DEF ListenerDropped, At
<1>16. CASE Probed(r) BY <1>16 DEF Probed
<1> QED BY <1>1, <1>2, <1>3, <1>4, <1>5, <1>6, <1>7, <1>8, <1>9, <1>10, <1>11, <1>12,
          <1>13, <1>14, <1>15, <1>16 DEF Step

(* A step of one request, or its beginning, spends nothing of another. *)
Own(q) == \E x : Becomes(q, x)

LEMMA MovesAreOwn ==
  ASSUME NEW q
  PROVE  /\ Ends(q) => Own(q)
         /\ \A step : Goes(q, step) => Own(q)
         /\ \A step, on : Waits(q, step, on) => Own(q)
         /\ \A x : Becomes(q, x) => Own(q)
         /\ \A file : StartFails(q, file) => Own(q)
BY DEF Own, Ends, Goes, Waits, StartFails

LEMMA StepsAreOwn ==
  ASSUME NEW q \in Procs, Step(q)
  PROVE  Own(q)
<1> USE MovesAreOwn
<1>1. CASE StartStep(q)
  <2>1. CASE Connects(q) \/ Duplicate(q) BY <2>1 DEF Connects, Duplicate
  <2>2. CASE Authorises(q) BY <2>2 DEF Authorises
  <2>3. CASE Retries(q) BY <2>3 DEF Retries
  <2>4. CASE AuthFails(q) BY <2>4 DEF AuthFails
  <2>5. CASE OtherError(q) BY <2>5 DEF OtherError
  <2>6. CASE TimesOut(q) BY <2>6 DEF TimesOut
  <2>7. CASE Started(q) BY <2>7 DEF Started, FinishLogin
  <2> QED BY <1>1, <2>1, <2>2, <2>3, <2>4, <2>5, <2>6, <2>7 DEF StartStep
<1>2. CASE Fallback(q) BY <1>2 DEF Fallback, FinishLogin
<1>3. CASE OpensAuth(q) BY <1>3 DEF OpensAuth
<1>4. CASE CodeSent(q) \/ CodeNotSent(q) BY <1>4 DEF CodeSent, CodeNotSent
<1>5. CASE SignedIn(q) BY <1>5 DEF SignedIn
<1>6. CASE NeedsPassword(q) \/ SignInFails(q) BY <1>6 DEF NeedsPassword, SignInFails
<1>7. CASE Greeted(q) BY <1>7 DEF Greeted
<1>8. CASE Promote(q) BY <1>8 DEF Promote, Relaunch
<1>9. CASE Restarts(q) BY <1>9 DEF Restarts, Relaunch
<1>10. CASE ListenerStopped(q) \/ Parted(q) BY <1>10 DEF ListenerStopped, Parted
<1>11. CASE ListenerAnswers(q) \/ ListenerInvalid(q)
  BY <1>11 DEF ListenerAnswers, ListenerInvalid
<1>12. CASE ListenerSilent(q) BY <1>12 DEF ListenerSilent
<1>13. CASE ListenerDropped(q) \/ Probed(q) BY <1>13 DEF ListenerDropped, Probed
<1> QED BY <1>1, <1>2, <1>3, <1>4, <1>5, <1>6, <1>7, <1>8, <1>9, <1>10, <1>11, <1>12,
          <1>13 DEF Step

LEMMA OthersSpendNothing ==
  ASSUME req \in [Procs -> Record], NEW r \in Procs, NEW q \in Procs, q # r,
         Request(q) \/ Step(q)
  PROVE  StepsLeft(r)' = StepsLeft(r)
<1>1. req'[r].pc = req[r].pc /\ req'[r].tries = req[r].tries
  <2>1. CASE Step(q)
    <3>1. PICK x : Becomes(q, x) BY <2>1, StepsAreOwn DEF Own
    <3> QED BY <3>1 DEF Becomes
  <2>2. CASE Request(q)
    <3>1. \E op, step, on : Begins(q, op, step, on)
      BY <2>2 DEF Request, SendCode, SignIn, Logout, Status, SaveConfig
    <3>2. PICK op, step, on : Begins(q, op, step, on) BY <3>1
    <3>3. req'[r] = [req[r] EXCEPT !.alone = FALSE] BY <3>2 DEF Begins
    <3> QED BY <3>3 DEF Record
  <2> QED BY <2>1, <2>2
<1> QED BY <1>1 DEF StepsLeft, StepsOf, StepsOfStart

(* The loop of starting the listener again, and all that a request goes through
   before it, ends: a request takes 3 * MaxRetries + 8 steps at most, each lowers
   what is left to it, and only its own beginning, or the restart that starts the
   listener, raises it. *)
THEOREM RequestsAreShort ==
  Spec => [][\A r \in Procs :
               /\ StepsLeft(r) \in 0..(3 * MaxRetries + 8)
               /\ StepsLeft(r) = 0 <=> req[r].pc = "idle"
               /\ Step(r) => StepsLeft(r)' < StepsLeft(r)
               /\ StepsLeft(r)' > StepsLeft(r) => Request(r) \/ Restart]_vars
<1> DEFINE Spends ==
      \A r \in Procs :
        /\ StepsLeft(r) \in 0..(3 * MaxRetries + 8)
        /\ StepsLeft(r) = 0 <=> req[r].pc = "idle"
        /\ Step(r) => StepsLeft(r)' < StepsLeft(r)
        /\ StepsLeft(r)' > StepsLeft(r) => Request(r) \/ Restart
<1>1. LoginTypes /\ LoginTypes' /\ [Next]_vars => Spends
  <2> SUFFICES ASSUME LoginTypes, LoginTypes', [Next]_vars, NEW r \in Procs
               PROVE  /\ StepsLeft(r) \in 0..(3 * MaxRetries + 8)
                      /\ StepsLeft(r) = 0 <=> req[r].pc = "idle"
                      /\ Step(r) => StepsLeft(r)' < StepsLeft(r)
                      /\ StepsLeft(r)' > StepsLeft(r) => Request(r) \/ Restart
    OBVIOUS
  <2>1. req \in [Procs -> Record] /\ req' \in [Procs -> Record] BY DEF LoginTypes
  <2>2. req[r] \in Record /\ req'[r] \in Record BY <2>1
  <2>3. StepsLeft(r) \in 0..(3 * MaxRetries + 8) /\ (StepsLeft(r) = 0 <=> req[r].pc = "idle")
    BY <2>2, StepsInPlaces DEF StepsLeft, FullStart
  <2>4. Step(r) => StepsLeft(r)' < StepsLeft(r)
    BY <2>1, <2>2, StepAhead, AheadSpends DEF StepsLeft
  <2>5. ASSUME ~Request(r), ~Restart PROVE ~(StepsLeft(r)' > StepsLeft(r))
    <3>1. StepsLeft(r) \in Int /\ StepsLeft(r)' \in Int
      BY <2>2, StepsInPlaces DEF StepsLeft, FullStart
    <3>2. CASE Step(r) BY <2>4, <3>1, <3>2
    <3>3. CASE \E q \in Procs : q # r /\ (Request(q) \/ Step(q))
      <4>1. StepsLeft(r)' = StepsLeft(r) BY <2>1, <3>3, OthersSpendNothing
      <4> QED BY <3>1, <4>1
    <3>4. CASE Refresh \/ WorkerClears \/ (\E a \in Attempts : Revoke(a)) \/ UNCHANGED vars
      <4>1. req' = req BY <3>4 DEF Refresh, WorkerClears, Revoke, vars
      <4>2. StepsLeft(r)' = StepsLeft(r) BY <4>1 DEF StepsLeft, StepsOf, StepsOfStart
      <4> QED BY <3>1, <4>2
    <3> QED BY <2>5, <3>2, <3>3, <3>4 DEF Next
  <2> QED BY <2>3, <2>4, <2>5
<1> HIDE DEF Spends
<1>2. Spec => [][Spends]_vars BY <1>1, TypesInit, TypesNext, PTL DEF Spec
<1> QED BY <1>2 DEF Spends
=============================================================================
