------------------------ MODULE WorkerSessionProofs ------------------------
(***************************************************************************)
(* Why get_worker_client returns a client of a current string, for any     *)
(* number of processes and concurrent calls: a generation stands for one   *)
(* login, and what a call holds under the current generation is of that    *)
(* login.                                                                  *)
(***************************************************************************)
EXTENDS WorkerSession, TLAPS

(* TypeOK, made inductive: each login has room for the export it begins. *)
SessionTypes ==
  /\ TypeOK
  /\ gen <= MaxGen + logins
  /\ app = "exporting" => gen < MaxGen + logins

(* The lock of get_worker_client: one call of a process at a time. *)
OneInside ==
  \A c, d \in Calls : c[1] = d[1] /\ pc[c] \in Locked /\ pc[d] \in Locked => c = d

(* The generation in Redis stands for login k: whatever is kept under it, or
   will be, is of that login.  A counter that is missing has not been written
   yet, and nobody has found a string. *)
StandsFor(k) ==
  /\ string \in {k, None}
  /\ gen = Missing =>
       /\ string = None
       /\ \A p \in Procs : wclient[p] = None
       /\ \A c \in Calls : pc[c] \in {"idle", "reading"}
  /\ \A c \in Calls : BetweenReads(c) => str[c] = k
  /\ \A c \in Calls :
       pc[c] \in {"creating", "reconnecting"} /\ cgen[c] = gen => str[c] = k
  /\ \A p \in Procs : wclient[p] # None /\ wgen[p] = gen => wclient[p] = k

(* No generation is ahead of the one in Redis, so the next one is new. *)
NotAhead ==
  /\ \A p \in Procs : wgen[p] <= gen
  /\ \A c \in Calls : cgen[c] <= gen

(* What a call holds is a string Redis has held since it began. *)
Held(c) ==
  /\ pc[c] # "idle" => string \in during[c] \cup {None}
  /\ pc[c] \in {"locking", "creating", "counting", "reconnecting"} => str[c] \in during[c]
  /\ pc[c] = "pinging" => wclient[c[1]] \in during[c]
  /\ pc[c] = "using" => got[c] \in during[c]

TracedTo(k) == StandsFor(k) /\ NotAhead /\ \A c \in Calls : Held(c)

Traced == \E k \in Logins \cup {None} : TracedTo(k)

SessionInv == SessionTypes /\ OneInside /\ (~upset => Traced)

-----------------------------------------------------------------------------
(* Types *)

LEMMA Numbers ==
  /\ MaxLogins \in Nat /\ MaxGen \in Nat /\ MaxLogins > 0 /\ MaxGen > 0
  /\ None \in Int /\ None \notin Logins /\ Missing \in Int /\ Missing \in Gens
  /\ \A g \in Gens : g \in Int /\ Missing <= g
  /\ \A k \in Logins : k \in Nat
<1>1. /\ MaxLogins \in Nat /\ MaxGen \in Nat /\ MaxLogins > 0 /\ MaxGen > 0
      /\ None \in Int /\ Missing \in Int
  BY BoundsAssumption DEF None, Missing
<1>2. None \notin Logins /\ \A k \in Logins : k \in Nat BY <1>1 DEF None, Logins
<1>3. Missing \in Gens /\ \A g \in Gens : g \in Int /\ Missing <= g BY <1>1 DEF Missing, Gens
<1> QED BY <1>1, <1>2, <1>3

LEMMA Places == \A c \in Calls : c[1] \in Procs /\ c[2] \in Coroutines /\ c = <<c[1], c[2]>>
BY DEF Calls

LEMMA SessionTypesInit == Init => SessionTypes
<1> SUFFICES ASSUME Init PROVE SessionTypes OBVIOUS
<1>1. TypeOK
  <2>1. logins \in 0..MaxLogins /\ listener \in 0..logins BY Numbers DEF Init, None
  <2> QED BY <2>1, Numbers DEF Init, TypeOK
<1>2. gen <= MaxGen + logins BY Numbers DEF Init, Missing
<1> QED BY <1>1, <1>2 DEF Init, SessionTypes

(* An export leaves the counter within its bound. *)
LEMMA ExportTypes ==
  ASSUME SessionTypes, gen < MaxGen + logins, listener \in Logins \cup {None},
         ExportOf(listener)
  PROVE  /\ string' \in Logins \cup {None}
         /\ gen' \in Gens /\ gen' <= MaxGen + logins
         /\ during' \in [Calls -> SUBSET (Logins \cup {None})]
         /\ upset' \in BOOLEAN
<1> USE DEF SessionTypes, TypeOK
<1>1. gen' \in Gens /\ gen' <= MaxGen + logins
  BY Numbers DEF ExportOf, Counted, Gens, Missing, Logins
<1> QED BY <1>1 DEF ExportOf

LEMMA ListenerType == SessionTypes => listener \in Logins \cup {None}
BY Numbers DEF SessionTypes, TypeOK, Logins, None

(* A call that ends leaves nothing of another type behind. *)
LEMMA EndsTypes ==
  ASSUME TypeOK, NEW c \in Calls, NEW login \in Logins \cup {None}, Ends(c, login)
  PROVE  /\ pc' \in [Calls -> Locked \cup {"idle", "reading", "locking", "using"}]
         /\ str' \in [Calls -> Logins \cup {None}]
         /\ cgen' \in [Calls -> Gens]
         /\ got' \in [Calls -> Logins \cup {None}]
BY Numbers DEF TypeOK, Ends, Goes

LEMMA CacheTypes ==
  ASSUME TypeOK, NEW p \in Procs, NEW login \in Logins \cup {None}, NEW g \in Gens,
         NEW on \in BOOLEAN, Cache(p, login, g, on)
  PROVE  /\ wclient' \in [Procs -> Logins \cup {None}]
         /\ wgen' \in [Procs -> Gens]
         /\ up' \in [Procs -> BOOLEAN]
BY DEF TypeOK, Cache

LEMMA CallTypes ==
  ASSUME SessionTypes, NEW c \in Calls, Call(c) \/ Step(c, c[1])
  PROVE  SessionTypes'
<1> USE Numbers, Places, EndsTypes, CacheTypes
    DEF SessionTypes, TypeOK, redisVars, appVars, clientVars, callVars, Goes, Uncache, Locked
<1>1. CASE Call(c) BY <1>1 DEF Call
<1>2. CASE ReadString(c) BY <1>2 DEF ReadString
<1>12. CASE NoString(c) BY <1>12 DEF NoString
<1>3. CASE Enter(c, c[1]) BY <1>3 DEF Enter
<1>4. CASE Create(c, c[1]) BY <1>4 DEF Create
<1>5. CASE Ping(c, c[1]) BY <1>5 DEF Ping
<1>6. CASE Refetch(c, c[1]) BY ZenonT(60), <1>6 DEF Refetch
<1>7. CASE Count(c) BY <1>7 DEF Count
<1>8. CASE Reconnect(c, c[1]) BY <1>8 DEF Reconnect
<1>9. CASE ClearString(c) BY <1>9 DEF ClearString
<1>10. CASE ClearGen(c, c[1])
  <2>1. logins \in Nat /\ Missing < MaxGen + logins BY Numbers DEF Missing
  <2>2. /\ UNCHANGED <<string, logins, listener, app, revoked, during>>
        /\ gen' = Missing /\ upset' = TRUE
        /\ Uncache(c[1]) /\ Ends(c, None)
    BY <1>10 DEF ClearGen
  <2>3. TypeOK' BY <2>2
  <2> QED BY <2>1, <2>2, <2>3
<1>11. CASE Done(c) BY <1>11 DEF Done
<1> QED
  BY <1>1, <1>2, <1>3, <1>4, <1>5, <1>6, <1>7, <1>8, <1>9, <1>10, <1>11, <1>12 DEF Step

LEMMA OtherTypes ==
  ASSUME SessionTypes, [Next]_vars, ~(\E c \in Calls : Call(c) \/ Step(c, c[1]))
  PROVE  SessionTypes'
<1> USE Numbers DEF SessionTypes, redisVars, appVars, clientVars, callVars
<1>1. logins \in Nat /\ Missing < MaxGen + logins BY DEF TypeOK, Missing
<1>2. ASSUME NEW p \in Procs, Exit(p) PROVE SessionTypes'
  BY <1>2 DEF Exit, TypeOK, Uncache, Cache
<1>3. ASSUME NEW p \in Procs, Drop(p) PROVE SessionTypes' BY <1>3 DEF Drop, TypeOK
<1>4. CASE SignIn
  <2>1. gen \in Int BY DEF TypeOK
  <2> QED BY <1>4, <2>1, <1>1 DEF SignIn, TypeOK
<1>5. CASE Export BY <1>5, ListenerType, ExportTypes DEF Export, TypeOK
<1>6. CASE Refresh
  <2>1. gen < MaxGen + logins BY <1>6, <1>1 DEF Refresh, TypeOK
  <2> QED BY <1>6, <2>1, ListenerType, ExportTypes DEF Refresh, MayRefresh, TypeOK
<1>7. CASE Logout BY <1>7, <1>1 DEF Logout, TypeOK, None
<1>8. CASE DropString BY <1>8 DEF DropString, TypeOK
<1>11. CASE DropGen
  <2>1. TypeOK' BY <1>11 DEF DropGen, TypeOK
  <2>2. gen' <= MaxGen + logins' BY <1>11, <1>1 DEF DropGen
  <2> QED BY <1>11, <2>1, <2>2 DEF DropGen
<1>9. ASSUME NEW k \in Logins, Revoke(k) PROVE SessionTypes' BY <1>9 DEF Revoke, TypeOK
<1>10. CASE UNCHANGED vars BY <1>10 DEF vars, TypeOK
<1> QED BY <1>2, <1>3, <1>4, <1>5, <1>6, <1>7, <1>8, <1>9, <1>10, <1>11 DEF Next, Clearing

(* Every value a call or a process holds keeps its type. *)
LEMMA SessionTypesStep == SessionTypes /\ [Next]_vars => SessionTypes'
BY CallTypes, OtherTypes

-----------------------------------------------------------------------------
(* The lock *)

(* A step of one call moves this call alone, and enters the lock only when
   nobody of its process is inside. *)
LEMMA InsideCall ==
  ASSUME SessionTypes, NEW c \in Calls, Call(c) \/ Step(c, c[1])
  PROVE  /\ \A d \in Calls : d # c => pc'[d] = pc[d]
         /\ pc'[c] \in Locked => pc[c] \in Locked \/ LockFree(c[1])
<1> USE DEF SessionTypes, TypeOK, Goes, Ends, Locked, Step, Call, ReadString, NoString, Enter, Create, Ping,
            Refetch, Count, Reconnect, ClearString, ClearGen, Done
<1>1. \A d \in Calls : d # c => pc'[d] = pc[d] OBVIOUS
<1>2. pc'[c] \in Locked => pc[c] \in Locked \/ LockFree(c[1]) OBVIOUS
<1> QED BY <1>1, <1>2

LEMMA InsideStep ==
  ASSUME SessionTypes, OneInside, [Next]_vars
  PROVE  OneInside'
<1>1. ASSUME NEW e \in Calls, Call(e) \/ Step(e, e[1]) PROVE OneInside'
  <2> SUFFICES ASSUME NEW c \in Calls, NEW d \in Calls, c[1] = d[1], c # d,
                      pc'[c] \in Locked, pc'[d] \in Locked
               PROVE  FALSE
    BY DEF OneInside
  <2>1. \A x \in Calls : x # e => pc'[x] = pc[x] BY <1>1, InsideCall
  <2>2. pc'[e] \in Locked => pc[e] \in Locked \/ LockFree(e[1]) BY <1>1, InsideCall
  <2>3. \A x \in Calls : LockFree(x[1]) => pc[x] \notin Locked BY Places DEF LockFree
  <2>4. CASE c = e BY <2>1, <2>2, <2>3, <2>4 DEF OneInside
  <2>5. CASE d = e BY <2>1, <2>2, <2>3, <2>5 DEF OneInside
  <2>6. CASE c # e /\ d # e BY <2>1, <2>6 DEF OneInside
  <2> QED BY <2>4, <2>5, <2>6
<1>2. CASE ~(\E e \in Calls : Call(e) \/ Step(e, e[1]))
  <2>1. \A x \in Calls : pc'[x] = pc[x] \/ pc'[x] = "idle"
    <3> USE DEF SessionTypes, TypeOK, callVars
    <3>1. ASSUME NEW p \in Procs, Exit(p) \/ Drop(p)
          PROVE  \A x \in Calls : pc'[x] = pc[x] \/ pc'[x] = "idle"
      BY <3>1 DEF Exit, Drop
    <3> QED
      BY <1>2, <3>1
      DEF Next, SignIn, Export, Refresh, Logout, Clearing, DropString, DropGen, Revoke, vars
  <2>2. "idle" \notin Locked BY DEF Locked
  <2> QED BY <2>1, <2>2 DEF OneInside
<1> QED BY <1>1, <1>2

-----------------------------------------------------------------------------
(* Calls: what the generation stands for does not change *)

(* Nobody else of the process has to do with the client of a call inside. *)
LEMMA Alone ==
  ASSUME OneInside, NEW c \in Calls, pc[c] \in Locked \/ LockFree(c[1]),
         NEW d \in Calls, d # c, d[1] = c[1]
  PROVE  pc[d] # "pinging"
BY Places DEF OneInside, LockFree, Locked

(* A call keeps only generations that somebody had already. *)
LEMMA OldGenerations ==
  ASSUME SessionTypes, NotAhead, NEW c \in Calls,
         gen' = gen, \A p \in Procs : wgen'[p] \in {wgen[p], cgen[c], Missing},
         \A d \in Calls : cgen'[d] \in {cgen[d], gen, Missing}
  PROVE  NotAhead'
<1>1. gen \in Int /\ Missing <= gen BY Numbers DEF SessionTypes, TypeOK
<1> QED BY <1>1 DEF NotAhead

LEMMA TracedCall ==
  ASSUME SessionTypes, OneInside, NEW k \in Logins \cup {None}, TracedTo(k),
         NEW c \in Calls, Call(c)
  PROVE  TracedTo(k)'
<1> USE Numbers, Places
    DEF SessionTypes, TypeOK, TracedTo, redisVars, appVars, clientVars, callVars, Call, Goes
<1>1. StandsFor(k)' BY DEF StandsFor, BetweenReads
<1>2. NotAhead'
  <2>1. gen' = gen /\ \A p \in Procs : wgen'[p] \in {wgen[p], cgen[c], Missing} OBVIOUS
  <2>2. \A d \in Calls : cgen'[d] \in {cgen[d], gen, Missing} OBVIOUS
  <2> QED BY <2>1, <2>2, OldGenerations
<1>3. \A d \in Calls : Held(d)' BY Alone DEF Held, StandsFor, BetweenReads, Locked
<1> QED BY <1>1, <1>2, <1>3

LEMMA TracedReadString ==
  ASSUME SessionTypes, OneInside, NEW k \in Logins \cup {None}, TracedTo(k),
         NEW c \in Calls, ReadString(c)
  PROVE  TracedTo(k)'
<1> USE Numbers, Places
    DEF SessionTypes, TypeOK, TracedTo, redisVars, appVars, clientVars, callVars, ReadString, Goes
<1>1. StandsFor(k)' BY DEF StandsFor, BetweenReads
<1>2. NotAhead'
  <2>1. gen' = gen /\ \A p \in Procs : wgen'[p] \in {wgen[p], cgen[c], Missing} OBVIOUS
  <2>2. \A d \in Calls : cgen'[d] \in {cgen[d], gen, Missing} OBVIOUS
  <2> QED BY <2>1, <2>2, OldGenerations
<1>3. \A d \in Calls : Held(d)' BY Alone DEF Held, StandsFor, BetweenReads, Locked
<1> QED BY <1>1, <1>2, <1>3

LEMMA TracedNoString ==
  ASSUME SessionTypes, OneInside, NEW k \in Logins \cup {None}, TracedTo(k),
         NEW c \in Calls, NoString(c)
  PROVE  TracedTo(k)'
<1> USE Numbers, Places
    DEF SessionTypes, TypeOK, TracedTo, redisVars, appVars, clientVars, callVars, NoString, Ends, Goes
<1>1. StandsFor(k)' BY DEF StandsFor, BetweenReads
<1>2. NotAhead'
  <2>1. gen' = gen /\ \A p \in Procs : wgen'[p] \in {wgen[p], cgen[c], Missing} OBVIOUS
  <2>2. \A d \in Calls : cgen'[d] \in {cgen[d], gen, Missing} OBVIOUS
  <2> QED BY <2>1, <2>2, OldGenerations
<1>3. \A d \in Calls : Held(d)' BY Alone DEF Held, StandsFor, BetweenReads, Locked
<1> QED BY <1>1, <1>2, <1>3

LEMMA TracedEnter ==
  ASSUME SessionTypes, OneInside, NEW k \in Logins \cup {None}, TracedTo(k),
         NEW c \in Calls, Enter(c, c[1])
  PROVE  TracedTo(k)'
<1> USE Numbers, Places
    DEF SessionTypes, TypeOK, TracedTo, redisVars, appVars, clientVars, callVars, Enter, Discarded, Uncache, Cache, Goes
<1>1. StandsFor(k)' BY DEF StandsFor, BetweenReads
<1>2. NotAhead'
  <2>1. gen' = gen /\ \A p \in Procs : wgen'[p] \in {wgen[p], cgen[c], Missing} OBVIOUS
  <2>2. \A d \in Calls : cgen'[d] \in {cgen[d], gen, Missing} OBVIOUS
  <2> QED BY <2>1, <2>2, OldGenerations
<1>3. \A d \in Calls : Held(d)' BY Alone DEF Held, StandsFor, BetweenReads, Locked
<1> QED BY <1>1, <1>2, <1>3

LEMMA TracedCreate ==
  ASSUME SessionTypes, OneInside, NEW k \in Logins \cup {None}, TracedTo(k),
         NEW c \in Calls, Create(c, c[1])
  PROVE  TracedTo(k)'
<1> USE Numbers, Places
    DEF SessionTypes, TypeOK, TracedTo, redisVars, appVars, clientVars, callVars, Create, Ends, Cache, Goes
<1>1. StandsFor(k)' BY ZenonT(60) DEF StandsFor, BetweenReads
<1>2. NotAhead'
  <2>1. gen' = gen /\ \A p \in Procs : wgen'[p] \in {wgen[p], cgen[c], Missing} OBVIOUS
  <2>2. \A d \in Calls : cgen'[d] \in {cgen[d], gen, Missing} OBVIOUS
  <2> QED BY <2>1, <2>2, OldGenerations
<1>3. \A d \in Calls : Held(d)' BY Alone DEF Held, StandsFor, BetweenReads, Locked
<1> QED BY <1>1, <1>2, <1>3

LEMMA TracedPing ==
  ASSUME SessionTypes, OneInside, NEW k \in Logins \cup {None}, TracedTo(k),
         NEW c \in Calls, Ping(c, c[1])
  PROVE  TracedTo(k)'
<1> USE Numbers, Places
    DEF SessionTypes, TypeOK, TracedTo, redisVars, appVars, clientVars, callVars, Ping, Ends, Goes
<1>1. StandsFor(k)' BY DEF StandsFor, BetweenReads
<1>2. NotAhead'
  <2>1. gen' = gen /\ \A p \in Procs : wgen'[p] \in {wgen[p], cgen[c], Missing} OBVIOUS
  <2>2. \A d \in Calls : cgen'[d] \in {cgen[d], gen, Missing} OBVIOUS
  <2> QED BY <2>1, <2>2, OldGenerations
<1>3. \A d \in Calls : Held(d)' BY Alone DEF Held, StandsFor, BetweenReads, Locked
<1> QED BY <1>1, <1>2, <1>3

LEMMA TracedRefetch ==
  ASSUME SessionTypes, OneInside, NEW k \in Logins \cup {None}, TracedTo(k),
         NEW c \in Calls, Refetch(c, c[1])
  PROVE  TracedTo(k)'
<1> USE Numbers, Places
    DEF SessionTypes, TypeOK, TracedTo, redisVars, appVars, clientVars, callVars, Refetch, Uncache, Cache, Ends, Goes
<1>1. StandsFor(k)' BY DEF StandsFor, BetweenReads
<1>2. NotAhead'
  <2>1. gen' = gen /\ \A p \in Procs : wgen'[p] \in {wgen[p], cgen[c], Missing} OBVIOUS
  <2>2. \A d \in Calls : cgen'[d] \in {cgen[d], gen, Missing} OBVIOUS
  <2> QED BY <2>1, <2>2, OldGenerations
<1>3. \A d \in Calls : Held(d)' BY Alone DEF Held, StandsFor, BetweenReads, Locked
<1> QED BY <1>1, <1>2, <1>3

LEMMA TracedCount ==
  ASSUME SessionTypes, OneInside, NEW k \in Logins \cup {None}, TracedTo(k),
         NEW c \in Calls, Count(c)
  PROVE  TracedTo(k)'
<1> USE Numbers, Places
    DEF SessionTypes, TypeOK, TracedTo, redisVars, appVars, clientVars, callVars, Count, Goes
<1>1. StandsFor(k)' BY DEF StandsFor, BetweenReads
<1>2. NotAhead'
  <2>1. gen' = gen /\ \A p \in Procs : wgen'[p] \in {wgen[p], cgen[c], Missing} OBVIOUS
  <2>2. \A d \in Calls : cgen'[d] \in {cgen[d], gen, Missing} OBVIOUS
  <2> QED BY <2>1, <2>2, OldGenerations
<1>3. \A d \in Calls : Held(d)' BY Alone DEF Held, StandsFor, BetweenReads, Locked
<1> QED BY <1>1, <1>2, <1>3

LEMMA TracedReconnect ==
  ASSUME SessionTypes, OneInside, NEW k \in Logins \cup {None}, TracedTo(k),
         NEW c \in Calls, Reconnect(c, c[1])
  PROVE  TracedTo(k)'
<1> USE Numbers, Places
    DEF SessionTypes, TypeOK, TracedTo, redisVars, appVars, clientVars, callVars, Reconnect, Ends, Uncache, Cache, Goes
<1>1. StandsFor(k)' BY DEF StandsFor, BetweenReads
<1>2. NotAhead'
  <2>1. gen' = gen /\ \A p \in Procs : wgen'[p] \in {wgen[p], cgen[c], Missing} OBVIOUS
  <2>2. \A d \in Calls : cgen'[d] \in {cgen[d], gen, Missing} OBVIOUS
  <2> QED BY <2>1, <2>2, OldGenerations
<1>3. \A d \in Calls : Held(d)' BY Alone DEF Held, StandsFor, BetweenReads, Locked
<1> QED BY <1>1, <1>2, <1>3

LEMMA TracedClearString ==
  ASSUME SessionTypes, OneInside, NEW k \in Logins \cup {None}, TracedTo(k),
         NEW c \in Calls, ClearString(c)
  PROVE  TracedTo(k)'
<1> USE Numbers, Places
    DEF SessionTypes, TypeOK, TracedTo, redisVars, appVars, clientVars, callVars, ClearString, Goes
<1>1. StandsFor(k)' BY DEF StandsFor, BetweenReads
<1>2. NotAhead'
  <2>1. gen' = gen /\ \A p \in Procs : wgen'[p] \in {wgen[p], cgen[c], Missing} OBVIOUS
  <2>2. \A d \in Calls : cgen'[d] \in {cgen[d], gen, Missing} OBVIOUS
  <2> QED BY <2>1, <2>2, OldGenerations
<1>3. \A d \in Calls : Held(d)' BY Alone DEF Held, StandsFor, BetweenReads, Locked
<1> QED BY <1>1, <1>2, <1>3

LEMMA TracedDone ==
  ASSUME SessionTypes, OneInside, NEW k \in Logins \cup {None}, TracedTo(k),
         NEW c \in Calls, Done(c)
  PROVE  TracedTo(k)'
<1> USE Numbers, Places
    DEF SessionTypes, TypeOK, TracedTo, redisVars, appVars, clientVars, callVars, Done, Goes
<1>1. StandsFor(k)' BY DEF StandsFor, BetweenReads
<1>2. NotAhead'
  <2>1. gen' = gen /\ \A p \in Procs : wgen'[p] \in {wgen[p], cgen[c], Missing} OBVIOUS
  <2>2. \A d \in Calls : cgen'[d] \in {cgen[d], gen, Missing} OBVIOUS
  <2> QED BY <2>1, <2>2, OldGenerations
<1>3. \A d \in Calls : Held(d)' BY Alone DEF Held, StandsFor, BetweenReads, Locked
<1> QED BY <1>1, <1>2, <1>3

-----------------------------------------------------------------------------
(* The application, processes that end, connections that are lost *)

LEMMA TracedOther ==
  ASSUME SessionTypes, NEW k \in Logins \cup {None}, TracedTo(k),
         \/ \E p \in Procs : Exit(p) \/ Drop(p)
         \/ SignIn \/ Logout \/ DropString \/ UNCHANGED vars
         \/ \E n \in Logins : Revoke(n)
  PROVE  TracedTo(k)'
<1> USE Numbers, Places
    DEF SessionTypes, TypeOK, TracedTo, redisVars, appVars, clientVars, callVars
<1>1. ASSUME NEW p \in Procs, Exit(p) PROVE TracedTo(k)'
  <2> USE <1>1 DEF Exit, Uncache, Cache
  <2>1. StandsFor(k)' BY DEF StandsFor, BetweenReads
  <2>2. NotAhead' BY DEF NotAhead
  <2>3. \A d \in Calls : Held(d)' BY DEF Held
  <2> QED BY <2>1, <2>2, <2>3
<1>2. ASSUME NEW p \in Procs, Drop(p) PROVE TracedTo(k)'
  BY <1>2 DEF Drop, StandsFor, BetweenReads, NotAhead, Held
<1>3. CASE SignIn \/ Logout
  BY <1>3 DEF SignIn, Logout, StandsFor, BetweenReads, NotAhead, Held
<1>4. CASE DropString BY <1>4 DEF DropString, StandsFor, BetweenReads, NotAhead, Held
<1>5. CASE UNCHANGED vars BY <1>5 DEF vars, StandsFor, BetweenReads, NotAhead, Held
<1>6. ASSUME NEW n \in Logins, Revoke(n) PROVE TracedTo(k)'
  BY <1>6 DEF Revoke, StandsFor, BetweenReads, NotAhead, Held
<1> QED BY <1>1, <1>2, <1>3, <1>4, <1>5, <1>6

(* An export that no call has between its reads begins a generation under
   which nothing is kept yet. *)
LEMMA TracedExport ==
  ASSUME SessionTypes, Traced, Export \/ Refresh, ~upset'
  PROVE  TracedTo(listener)'
<1> USE Numbers DEF SessionTypes, TypeOK
<1>1. /\ ExportOf(listener)
      /\ UNCHANGED <<listener, wclient, wgen, pc, str, cgen, got>>
  BY DEF Export, Refresh, appVars, clientVars
<1>2. PICK k \in Logins \cup {None} : TracedTo(k) BY DEF Traced
<1>3. gen' > gen /\ gen' # Missing /\ gen \in Int /\ gen' \in Int
  BY <1>1 DEF ExportOf, Counted, Missing
<1>4. \A c \in Calls : ~BetweenReads(c) BY <1>1 DEF ExportOf
<1>5. /\ \A p \in Procs : wgen[p] \in Int /\ wgen[p] < gen'
      /\ \A c \in Calls : cgen[c] \in Int /\ cgen[c] < gen'
  <2>1. /\ \A p \in Procs : wgen[p] \in Int /\ wgen[p] <= gen
        /\ \A c \in Calls : cgen[c] \in Int /\ cgen[c] <= gen
    BY <1>2 DEF TracedTo, NotAhead
  <2> QED BY <2>1, <1>3
<1>6. StandsFor(listener)' BY <1>1, <1>3, <1>4, <1>5 DEF ExportOf, StandsFor, BetweenReads
<1>7. NotAhead' BY <1>1, <1>3, <1>5 DEF NotAhead
<1>8. \A d \in Calls : Held(d)' BY <1>1, <1>2 DEF ExportOf, TracedTo, Held
<1> QED BY <1>6, <1>7, <1>8 DEF TracedTo

-----------------------------------------------------------------------------
(* Results *)

LEMMA SessionInvInit == Init => SessionInv
<1> SUFFICES ASSUME Init PROVE SessionInv OBVIOUS
<1>1. OneInside BY DEF Init, OneInside, Locked
<1>2. TracedTo(None)
  BY Numbers DEF Init, TracedTo, StandsFor, BetweenReads, NotAhead, Held
<1> QED BY <1>1, <1>2, SessionTypesInit DEF SessionInv, Traced

LEMMA SessionInvStep == SessionInv /\ [Next]_vars => SessionInv'
<1> SUFFICES ASSUME SessionInv, [Next]_vars PROVE SessionInv' OBVIOUS
<1>1. SessionTypes' /\ OneInside' BY SessionTypesStep, InsideStep DEF SessionInv
<1>2. ASSUME ~upset' PROVE Traced'
  <2>1. ~upset /\ SessionTypes /\ OneInside /\ Traced
    <3>1. upset => upset'
      <4>1. ASSUME NEW c \in Calls, Call(c) \/ Step(c, c[1]) PROVE upset => upset'
        BY <4>1 DEF Step, Call, ReadString, NoString, Enter, Create, Ping, Refetch, Count,
                    Reconnect, ClearString, ClearGen, Done
      <4> QED
        BY <4>1 DEF Next, Exit, Drop, SignIn, Export, Refresh, ExportOf, Logout, Clearing,
                    DropString, DropGen, Revoke, vars
    <3> QED BY <1>2, <3>1 DEF SessionInv
  <2>2. PICK k \in Logins \cup {None} : TracedTo(k) BY <2>1 DEF Traced
  <2>3. ASSUME NEW c \in Calls, Call(c) \/ Step(c, c[1]) PROVE TracedTo(k)'
    <3>1. ~ClearGen(c, c[1]) BY <1>2 DEF ClearGen
    <3> QED
      BY <2>1, <2>2, <2>3, <3>1, TracedCall, TracedReadString, TracedNoString, TracedEnter,
         TracedCreate, TracedPing, TracedRefetch, TracedCount, TracedReconnect,
         TracedClearString, TracedDone
      DEF Step
  <2>4. CASE Export \/ Refresh
    <3>1. listener' \in Logins \cup {None}
      BY <2>1, <2>4, ListenerType DEF Export, Refresh, appVars
    <3> QED BY <1>2, <2>1, <2>4, <3>1, TracedExport DEF Traced
  <2>5. CASE DropGen BY <1>2, <2>5 DEF DropGen
  <2> QED BY <2>1, <2>2, <2>3, <2>4, <2>5, TracedOther DEF Next, Clearing, Traced
<1> QED BY <1>1, <1>2 DEF SessionInv

(* Every value in the model keeps its type, and the counter its bound. *)
THEOREM SessionTypeCorrect == Spec => []TypeOK
<1>1. SessionInv => TypeOK BY DEF SessionInv, SessionTypes
<1> QED BY <1>1, SessionInvInit, SessionInvStep, PTL DEF Spec

(* As long as no export has torn the reads of a call and no generation has been
   deleted, every client get_worker_client returns is of a string Redis has
   held since the call began, whatever is revoked, lost or restarted and
   however many calls there are. *)
THEOREM ClientsAreFresh == Spec => []FreshClient
<1>1. SessionInv => FreshClient
  BY DEF SessionInv, Traced, TracedTo, Held, FreshClient, Current
<1> QED BY <1>1, SessionInvInit, SessionInvStep, PTL DEF Spec
=============================================================================
