----------------------------- MODULE ProxyPool -----------------------------
(***************************************************************************)
(* The proxy pool: rows of the table `proxies`, the health checks that     *)
(* probe them (the loop of the application and the checks users trigger),  *)
(* and the handlers that add, enable, disable and remove proxies.          *)
(*                                                                         *)
(* A health check works on a snapshot: it reads all rows once and writes   *)
(* each row after its probe, from the failure count of the snapshot.  A    *)
(* handler loads a row and writes the columns it changes.                  *)
(***************************************************************************)
EXTENDS Naturals, FiniteSets

CONSTANTS
  Proxies,    \* rows that may ever exist
  Loop,       \* the checker that is the application's health loop
  Manual,     \* the checks that POST /proxies/check may start, one each
  Handlers,   \* handlers that edit one row, in progress at once
  Edits,      \* what users do to rows in this instance
  Threshold,  \* settings.proxy_fail_threshold
  MaxFails,   \* bound: a failure count is not told apart from this above it
  MaxOutages  \* bound: how often proxies go down or come back

Checkers == {Loop} \cup Manual

ASSUME CheckersAssumption == Loop \notin Manual
ASSUME EditsAssumption == Edits \subseteq {"enable", "disable", "delete"}
ASSUME ThresholdAssumption ==
  /\ Threshold \in Nat \ {0} /\ MaxFails \in Nat /\ MaxFails >= Threshold
  /\ MaxOutages \in Nat

VARIABLES
  pstatus,  \* pstatus[p]: the status column; "none" before the row, "gone" after
  fails,    \* fails[p]: the fail_count column
  up,       \* does the proxy answer a probe?
  outages,  \* changes of `up` so far
  cpc,      \* cpc[c]: idle, probing, or about to write a result
  todo,     \* todo[c]: proxies of the snapshot still to be probed
  seen,     \* seen[c]: the failure counts of the snapshot
  probed,   \* probed[c]: the proxy whose result is to be written, as a set
  ok,       \* ok[c]: that result
  hpc,      \* hpc[h]: idle, or the edit in progress
  hrow,     \* hrow[h]: the row it loaded, as a set
  hstatus,  \* hstatus[h]: the status it loaded
  hfails    \* hfails[h]: the failure count it loaded

rowVars == <<pstatus, fails>>
netVars == <<up, outages>>
checkVars == <<cpc, todo, seen, probed, ok>>
editVars == <<hpc, hrow, hstatus, hfails>>
vars == <<rowVars, netVars, checkVars, editVars>>

RowStatuses == {"active", "failed", "disabled"}
HasRow_Any(p) == TRUE
HasRow(p) == pstatus[p] \in RowStatuses
OneMore(n) == IF n = MaxFails THEN n ELSE n + 1

Init ==
  /\ pstatus = [p \in Proxies |-> "none"]
  /\ fails = [p \in Proxies |-> 0]
  /\ up = [p \in Proxies |-> TRUE] /\ outages = 0
  /\ cpc = [c \in Checkers |-> "idle"]
  /\ todo = [c \in Checkers |-> {}]
  /\ seen = [c \in Checkers |-> [p \in Proxies |-> 0]]
  /\ probed = [c \in Checkers |-> {}]
  /\ ok = [c \in Checkers |-> FALSE]
  /\ hpc = [h \in Handlers |-> "idle"]
  /\ hrow = [h \in Handlers |-> {}]
  /\ hstatus = [h \in Handlers |-> "active"]
  /\ hfails = [h \in Handlers |-> 0]

-----------------------------------------------------------------------------
(* Health checks: ProxyPool.check_all *)

(* The snapshot: every row that is not DISABLED, with its failure count. *)
Checked_OnlyActive == {p \in Proxies : pstatus[p] = "active"}
Checked == {p \in Proxies : HasRow(p) /\ pstatus[p] # "disabled"}

StartCheck(c) ==
  /\ cpc[c] = "idle"
  /\ Checked # {}
  /\ cpc' = [cpc EXCEPT ![c] = "probing"]
  /\ todo' = [todo EXCEPT ![c] = Checked]
  /\ seen' = [seen EXCEPT ![c] = [p \in Proxies |-> IF p \in Checked THEN fails[p] ELSE 0]]
  /\ UNCHANGED <<rowVars, netVars, probed, ok, editVars>>

(* _test_one: the answer the proxy gives while it is probed. *)
Probe(c) ==
  /\ cpc[c] = "probing"
  /\ \E p \in todo[c] :
       /\ todo' = [todo EXCEPT ![c] = @ \ {p}]
       /\ probed' = [probed EXCEPT ![c] = {p}]
       /\ ok' = [ok EXCEPT ![c] = up[p]]
  /\ cpc' = [cpc EXCEPT ![c] = "writing"]
  /\ UNCHANGED <<rowVars, netVars, seen, editVars>>

(* What a probe makes of a row: the count and the status that follows. *)
CheckedFails_Once(good, n) == IF good THEN 0 ELSE 1
CheckedFails(good, n) == IF good THEN 0 ELSE OneMore(n)
StatusFor_OffByOne(n) == IF n > Threshold THEN "failed" ELSE "active"
StatusFor(n) == IF n >= Threshold THEN "failed" ELSE "active"

(* UPDATE proxies SET ... WHERE id = ...: whatever the row says by now; a row
   that has been removed is not matched. *)
WriteResult(c) ==
  LET n(p) == CheckedFails(ok[c], seen[c][p]) IN
  /\ cpc[c] = "writing"
  /\ fails' = [p \in Proxies |->
       IF p \in probed[c] /\ HasRow(p) THEN n(p) ELSE fails[p]]
  /\ pstatus' = [p \in Proxies |->
       IF p \in probed[c] /\ HasRow(p) THEN StatusFor(n(p)) ELSE pstatus[p]]
  /\ cpc' = [cpc EXCEPT ![c] = IF todo[c] = {} THEN "idle" ELSE "probing"]
  /\ probed' = [probed EXCEPT ![c] = {}]
  /\ UNCHANGED <<netVars, todo, seen, ok, editVars>>

-----------------------------------------------------------------------------
(* Handlers: api/proxies.py and ProxyPool.sync_from_settings *)

AddProxy(p) ==
  /\ pstatus[p] = "none"
  /\ pstatus' = [pstatus EXCEPT ![p] = "active"]
  /\ fails' = [fails EXCEPT ![p] = 0]
  /\ UNCHANGED <<netVars, checkVars, editVars>>

LoadRow(h, p, edit) ==
  /\ edit \in Edits
  /\ hpc[h] = "idle" /\ HasRow(p)
  /\ hpc' = [hpc EXCEPT ![h] = edit]
  /\ hrow' = [hrow EXCEPT ![h] = {p}]
  /\ hstatus' = [hstatus EXCEPT ![h] = pstatus[p]]
  /\ hfails' = [hfails EXCEPT ![h] = fails[p]]
  /\ UNCHANGED <<rowVars, netVars, checkVars>>

EndEdit(h) ==
  /\ hpc' = [hpc EXCEPT ![h] = "idle"]
  /\ hrow' = [hrow EXCEPT ![h] = {}]
  /\ UNCHANGED <<hstatus, hfails, netVars, checkVars>>

(* A commit writes the columns that differ from the loaded ones; a row that
   has been removed meanwhile makes it fail. *)
CommitEnable(h) ==
  /\ hpc[h] = "enable"
  /\ pstatus' = [p \in Proxies |->
       IF p \in hrow[h] /\ HasRow(p) /\ hstatus[h] # "active" THEN "active" ELSE pstatus[p]]
  /\ fails' = [p \in Proxies |->
       IF p \in hrow[h] /\ HasRow(p) /\ hfails[h] # 0 THEN 0 ELSE fails[p]]
  /\ EndEdit(h)

CommitDisable(h) ==
  /\ hpc[h] = "disable"
  /\ pstatus' = [p \in Proxies |->
       IF p \in hrow[h] /\ HasRow(p) /\ hstatus[h] # "disabled" THEN "disabled" ELSE pstatus[p]]
  /\ UNCHANGED fails
  /\ EndEdit(h)

CommitDelete(h) ==
  /\ hpc[h] = "delete"
  /\ pstatus' = [p \in Proxies |-> IF p \in hrow[h] THEN "gone" ELSE pstatus[p]]
  /\ UNCHANGED fails
  /\ EndEdit(h)

(* The proxy itself goes down or comes back. *)
Outage(p) ==
  /\ outages < MaxOutages
  /\ outages' = outages + 1
  /\ up' = [up EXCEPT ![p] = ~@]
  /\ UNCHANGED <<rowVars, checkVars, editVars>>

-----------------------------------------------------------------------------
CheckStep(c) == Probe(c) \/ WriteResult(c)
CommitEdit(h) == CommitEnable(h) \/ CommitDisable(h) \/ CommitDelete(h)

Next ==
  \/ \E c \in Checkers : StartCheck(c) \/ CheckStep(c)
  \/ \E h \in Handlers : CommitEdit(h)
  \/ \E h \in Handlers, p \in Proxies, edit \in Edits : LoadRow(h, p, edit)
  \/ \E p \in Proxies : AddProxy(p) \/ Outage(p)

Spec == Init /\ [][Next]_vars

(* The health loop starts a check again and again; a check that has started
   goes on, since probes time out. *)
Fairness ==
  /\ WF_vars(StartCheck(Loop))
  /\ \A c \in Checkers : WF_vars(CheckStep(c))
  /\ \A h \in Handlers : WF_vars(CommitEdit(h))

FairSpec == Spec /\ Fairness
-----------------------------------------------------------------------------
(* Properties *)

(* Type invariant. *)
TypeOK ==
  /\ pstatus \in [Proxies -> RowStatuses \cup {"none", "gone"}]
  /\ fails \in [Proxies -> 0..MaxFails]
  /\ up \in [Proxies -> BOOLEAN] /\ outages \in 0..MaxOutages
  /\ cpc \in [Checkers -> {"idle", "probing", "writing"}]
  /\ todo \in [Checkers -> SUBSET Proxies]
  /\ seen \in [Checkers -> [Proxies -> 0..MaxFails]]
  /\ probed \in [Checkers -> SUBSET Proxies]
  /\ ok \in [Checkers -> BOOLEAN]
  /\ hpc \in [Handlers -> Edits \cup {"idle"}]
  /\ hrow \in [Handlers -> SUBSET Proxies]
  /\ hstatus \in [Handlers -> RowStatuses]
  /\ hfails \in [Handlers -> 0..MaxFails]

Agrees(p) ==
  /\ pstatus[p] = "active" => fails[p] < Threshold
  /\ pstatus[p] = "failed" => fails[p] >= Threshold

Enabling(h, p) == hpc[h] = "enable" /\ p \in hrow[h]

(* Several checks write a row from old snapshots, and users edit it meanwhile;
   still its status follows from its failure count, FAILED exactly from the
   threshold on.  Only enable_proxy can part the two, because it writes the
   columns that differ from the row it loaded (proxies.py:89). *)
CountDecides ==
  [][\A p \in Proxies : Agrees(p) =>
       Agrees(p)' \/ \E h \in Handlers : Enabling(h, p) /\ hpc'[h] = "idle"]_vars

InUse(p) == pstatus[p] \in {"active", "failed"}

(* "re-enables recovered proxies automatically" (proxy_pool.py:6): a proxy
   that answers from some time on is ACTIVE from some time on, whatever old
   results are still to be written. *)
Recovers ==
  \A p \in Proxies : <>[](up[p] /\ InUse(p)) => <>[](pstatus[p] = "active")

(* A dead proxy that nobody enables is dropped: overlapping checks lose each
   other's counts, but not for ever. *)
DeadIsDropped ==
  \A p \in Proxies :
    <>[](~up[p] /\ InUse(p) /\ \A h \in Handlers : ~Enabling(h, p))
      => <>[](pstatus[p] = "failed")

=============================================================================
