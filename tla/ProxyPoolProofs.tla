-------------------------- MODULE ProxyPoolProofs --------------------------
(***************************************************************************)
(* Why the status of a proxy follows from its failure count, for any       *)
(* number of proxies, overlapping checks and edits: a check writes both    *)
(* columns together, and a removal or a disabling claims nothing.  Only    *)
(* enable_proxy, which writes single columns, can part the two.            *)
(***************************************************************************)
EXTENDS ProxyPool, TLAPS

LEMMA Bounds == Threshold \in Nat /\ MaxFails \in Nat /\ MaxOutages \in Nat
BY ThresholdAssumption

(* One more failure is a count again. *)
LEMMA OneMoreType == ASSUME NEW n \in 0..MaxFails PROVE OneMore(n) \in 0..MaxFails
BY Bounds DEF OneMore

(* What a probe writes is a count and a status that agree. *)
LEMMA WrittenAgrees ==
  ASSUME NEW good \in BOOLEAN, NEW n \in 0..MaxFails
  PROVE  LET m == CheckedFails(good, n) IN
         /\ m \in 0..MaxFails
         /\ StatusFor(m) = "active" => m < Threshold
         /\ StatusFor(m) = "failed" => m >= Threshold
         /\ StatusFor(m) \in {"active", "failed"}
<1>1. CheckedFails(good, n) \in 0..MaxFails BY OneMoreType, Bounds DEF CheckedFails
<1> QED BY <1>1, Bounds DEF StatusFor

-----------------------------------------------------------------------------
(* Types *)

LEMMA TypeInit == Init => TypeOK
BY Bounds DEF Init, TypeOK, RowStatuses

LEMMA TypeCheck ==
  ASSUME TypeOK, NEW c \in Checkers, StartCheck(c) \/ CheckStep(c)
  PROVE  TypeOK'
<1> USE DEF TypeOK, rowVars, netVars, checkVars, editVars
<1>1. CASE StartCheck(c) BY <1>1, Bounds DEF StartCheck, Checked
<1>2. CASE Probe(c) BY <1>2 DEF Probe
<1>3. CASE WriteResult(c)
  <2>1. \A p \in Proxies :
          /\ CheckedFails(ok[c], seen[c][p]) \in 0..MaxFails
          /\ StatusFor(CheckedFails(ok[c], seen[c][p])) \in {"active", "failed"}
    BY WrittenAgrees
  <2>2. /\ fails' \in [Proxies -> 0..MaxFails]
        /\ pstatus' \in [Proxies -> RowStatuses \cup {"none", "gone"}]
    BY <1>3, <2>1 DEF WriteResult, RowStatuses
  <2> QED BY <1>3, <2>2 DEF WriteResult
<1> QED BY <1>1, <1>2, <1>3 DEF CheckStep

LEMMA TypeCommit ==
  ASSUME TypeOK, NEW h \in Handlers, CommitEdit(h)
  PROVE  TypeOK'
<1> USE Bounds DEF TypeOK, rowVars, netVars, checkVars, editVars, EndEdit, RowStatuses
<1>1. CASE CommitEnable(h) BY <1>1 DEF CommitEnable
<1>2. CASE CommitDisable(h) BY <1>2 DEF CommitDisable
<1>3. CASE CommitDelete(h) BY <1>3 DEF CommitDelete
<1> QED BY <1>1, <1>2, <1>3 DEF CommitEdit

LEMMA TypeStep == TypeOK /\ [Next]_vars => TypeOK'
<1> SUFFICES ASSUME TypeOK, [Next]_vars PROVE TypeOK' OBVIOUS
<1> USE DEF rowVars, netVars, checkVars, editVars
<1>1. ASSUME NEW c \in Checkers, StartCheck(c) \/ CheckStep(c) PROVE TypeOK'
  BY <1>1, TypeCheck
<1>2. ASSUME NEW h \in Handlers, CommitEdit(h) PROVE TypeOK'
  BY <1>2, TypeCommit
<1>3. ASSUME NEW h \in Handlers, NEW p \in Proxies, NEW edit \in Edits, LoadRow(h, p, edit)
      PROVE  TypeOK'
  BY <1>3 DEF LoadRow, TypeOK, HasRow
<1>4. ASSUME NEW p \in Proxies, AddProxy(p) PROVE TypeOK'
  BY <1>4, Bounds DEF AddProxy, TypeOK, RowStatuses
<1>5. ASSUME NEW p \in Proxies, Outage(p) PROVE TypeOK'
  BY <1>5, Bounds DEF Outage, TypeOK
<1>6. CASE UNCHANGED vars BY <1>6 DEF vars, TypeOK
<1> QED BY <1>1, <1>2, <1>3, <1>4, <1>5, <1>6 DEF Next

(* Counts, snapshots and loaded rows stay counts, snapshots and rows. *)
THEOREM PoolTypeCorrect == Spec => []TypeOK
BY TypeInit, TypeStep, PTL DEF Spec

-----------------------------------------------------------------------------
(* Status and count *)

(* A row that agrees is parted only by the commit of enable_proxy. *)
LEMMA AgreementKept ==
  ASSUME TypeOK, [Next]_vars, NEW p \in Proxies, Agrees(p)
  PROVE  Agrees(p)' \/ \E h \in Handlers : Enabling(h, p) /\ hpc'[h] = "idle"
<1> USE DEF TypeOK, Agrees, rowVars, netVars, checkVars, editVars
<1>1. ASSUME NEW c \in Checkers, StartCheck(c) \/ Probe(c) PROVE Agrees(p)'
  BY <1>1 DEF StartCheck, Probe
<1>2. ASSUME NEW c \in Checkers, WriteResult(c) PROVE Agrees(p)'
  <2>1. CASE p \in probed[c] /\ HasRow(p)
    BY <1>2, <2>1, WrittenAgrees DEF WriteResult
  <2>2. CASE ~(p \in probed[c] /\ HasRow(p)) BY <1>2, <2>2 DEF WriteResult
  <2> QED BY <2>1, <2>2
<1>3. ASSUME NEW h \in Handlers, CommitEnable(h)
      PROVE  Agrees(p)' \/ (Enabling(h, p) /\ hpc'[h] = "idle")
  <2>1. CASE p \in hrow[h] BY <1>3, <2>1 DEF CommitEnable, EndEdit, Enabling
  <2>2. CASE p \notin hrow[h]
    <3>1. pstatus'[p] = pstatus[p] /\ fails'[p] = fails[p] BY <1>3, <2>2 DEF CommitEnable
    <3> QED BY <3>1
  <2> QED BY <2>1, <2>2
<1>4. ASSUME NEW h \in Handlers, CommitDisable(h) \/ CommitDelete(h) PROVE Agrees(p)'
  BY <1>4 DEF CommitDisable, CommitDelete
<1>5. ASSUME NEW h \in Handlers, NEW q \in Proxies, NEW edit \in Edits, LoadRow(h, q, edit)
      PROVE  Agrees(p)'
  BY <1>5 DEF LoadRow
<1>6. ASSUME NEW q \in Proxies, AddProxy(q) PROVE Agrees(p)'
  BY <1>6, ThresholdAssumption DEF AddProxy
<1>7. ASSUME NEW q \in Proxies, Outage(q) PROVE Agrees(p)'
  BY <1>7 DEF Outage
<1>8. CASE UNCHANGED vars BY <1>8 DEF vars
<1> QED BY <1>1, <1>2, <1>3, <1>4, <1>5, <1>6, <1>7, <1>8 DEF Next, CheckStep, CommitEdit

(* The status of a proxy follows from its failure count, whatever number of
   checks write it from whatever old snapshots, until somebody enables it by
   hand. *)
THEOREM CountsDecide == Spec => CountDecides
<1>1. TypeOK /\ [Next]_vars =>
        [\A p \in Proxies : Agrees(p) =>
           Agrees(p)' \/ \E h \in Handlers : Enabling(h, p) /\ hpc'[h] = "idle"]_vars
  BY AgreementKept
<1> QED BY <1>1, PoolTypeCorrect, PTL DEF Spec, CountDecides

AllAgree == \A p \in Proxies : Agrees(p)

(* Where nobody enables proxies by hand, FAILED means exactly that the count
   has reached the threshold, at every moment. *)
THEOREM StatusFollowsCount == ASSUME "enable" \notin Edits PROVE Spec => []AllAgree
<1>1. Init => AllAgree BY DEF Init, Agrees, AllAgree
<1>2. TypeOK /\ AllAgree /\ [Next]_vars => AllAgree'
  <2> SUFFICES ASSUME TypeOK, AllAgree, [Next]_vars, NEW p \in Proxies PROVE Agrees(p)'
    BY DEF AllAgree
  <2>1. \A h \in Handlers : ~Enabling(h, p) BY DEF Enabling, TypeOK
  <2> QED BY <2>1, AgreementKept DEF AllAgree
<1> QED BY <1>1, <1>2, PoolTypeCorrect, PTL DEF Spec
=============================================================================
