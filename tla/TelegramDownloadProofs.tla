----------------------- MODULE TelegramDownloadProofs -----------------------
(***************************************************************************)
(* The results about a Telegram download, for every set of names, every    *)
(* size of the media and any number of runs, lost ones among them.         *)
(*                                                                         *)
(* None of them is inductive.  That a completed task has its file rests on *)
(* the copies of the run keeping up with the row through every refresh;    *)
(* that nothing is downloaded twice with one reference, on the order in    *)
(* which the message gives them; that lost runs alone leave files behind,  *)
(* on which files a run has found and which it has made (Charged).         *)
(***************************************************************************)
EXTENDS TelegramDownload, FiniteSetTheorems, SequenceTheorems, TLAPS

Running == pc # "idle"

(* While a run goes on nobody but a deletion touches the row, and the copies
   are those of the row; before a completion the file fits. *)
CopiesKeepUp ==
  /\ Running => /\ status \in {"downloading", "deleted"}
                /\ HasRow => rname = name /\ rsize = size
  /\ pc = "moved" => SizeFits(library[rname])

(* References: given in order, each downloaded with once. *)
Before == {"idle", "connect"}
Ready == {"refresh", "fetch"}
Loading == {"fetching", "fetched"}
InOrder ==
  /\ ref <= issued /\ rref <= issued
  /\ pc \in Before => tried = <<>> /\ why = "first"
  /\ pc \in Ready /\ why = "first" => tried = <<>>
  /\ pc \in Ready /\ why # "first" => Len(tried) = 1 /\ tried[1] <= issued
  /\ pc = "fetch" /\ why # "first" => tried[1] < rref
  /\ pc \in Loading /\ why = "first" => Len(tried) = 1 /\ tried[1] <= issued
  /\ pc \in {"fetch"} \cup Loading /\ why = "expired" => refreshed

(* Files without an owner, those the run under way has made left out. *)
Clean(n) ==
  /\ part[n] = FALSE /\ temp[n] = Absent
  /\ \/ library[n] = Absent \/ status = "deleted"
     \/ status = "completed" /\ path = n
Charged(n) ==
  /\ ~Clean(n)
  /\ n = rname => \/ pc \in Before \cup Ready
                  \/ pc \in Loading /\ library[n] # Absent /\ status # "deleted"
Bill == {n \in Names : Charged(n)}
Tidy ==
  /\ pc = "fetched" => part[rname] = FALSE
  /\ pc \in {"moved", "cleaned"} => part[rname] = FALSE /\ temp[rname] = Absent
  /\ pc = "cleaned" => library[rname] = Absent
  /\ IsFiniteSet(Bill) /\ Cardinality(Bill) <= lost

DownloadInv == TypeOK /\ CopiesKeepUp /\ CompletedHasItsFile /\ InOrder /\ SecondChance

-----------------------------------------------------------------------------
LEMMA WholePositive == Whole \in Nat /\ Whole > 0
BY WholeAssumption

(* A refresh leaves a size that is a size. *)
LEMMA KnownType == ASSUME NEW o \in Sizes, NEW s \in Sizes PROVE Known(o, s) \in Sizes
BY DEF Known

(* A run that ends forgets its references. *)
LEMMA NoReferences == <<>> \in Seq(Nat) /\ Len(<<>>) = 0
OBVIOUS

LEMMA DownloadInit == Init => DownloadInv
<1> SUFFICES ASSUME Init PROVE DownloadInv OBVIOUS
<1> USE WholePositive, NoReferences DEF Init
<1>1. TypeOK
  <2>1. size \in Sizes /\ rsize \in Sizes BY DEF Sizes
  <2>2. /\ part \in [Names -> BOOLEAN]
        /\ temp \in [Names -> Sizes \cup {Absent}]
        /\ library \in [Names -> Sizes \cup {Absent}]
    OBVIOUS
  <2>3. tried \in Seq(Nat) OBVIOUS
  <2> QED BY <2>1, <2>2, <2>3 DEF TypeOK, Statuses, Pcs, Reasons
<1>2. CopiesKeepUp BY DEF CopiesKeepUp, Running
<1>3. CompletedHasItsFile BY DEF CompletedHasItsFile
<1>4. InOrder BY DEF InOrder, Ready, Loading
<1>5. SecondChance BY DEF SecondChance
<1> QED BY <1>1, <1>2, <1>3, <1>4, <1>5 DEF DownloadInv

-----------------------------------------------------------------------------
(* One lemma for the type of each step. *)
LEMMA TypeRun ==
  ASSUME TypeOK, CopiesKeepUp, Run PROVE TypeOK'
<1> USE WholePositive, NoReferences DEF TypeOK, rowVars, fileVars, copyVars, countVars, Statuses, Pcs, Reasons
<1>1. CASE Start BY <1>1 DEF Start
<1>2. CASE Connect BY <1>2 DEF Connect
<1>3. CASE RefreshRaises BY <1>3 DEF RefreshRaises, Fails
<1>4. CASE Fetch
  <2>1. tried' \in Seq(Nat) BY <1>4 DEF Fetch
  <2> QED BY <1>4, <2>1 DEF Fetch
<1>5. ASSUME NEW n \in Names, NEW s \in {0, Whole}, Refresh(n, s) PROVE TypeOK'
  <2>1. s \in Sizes BY DEF Sizes
  <2>2. Known(rsize, s) \in Sizes /\ Known(size, s) \in Sizes BY <2>1, KnownType
  <2> QED BY <1>5, <2>2 DEF Refresh, TakesReference, TakesName
<1>6. ASSUME NEW s \in Sizes, FetchEnds(s) PROVE TypeOK' BY <1>6 DEF FetchEnds
<1>7. CASE FetchExpires BY <1>7 DEF FetchExpires, UnlinkTemp, Unlinked
<1>8. CASE FetchRaises BY <1>8 DEF FetchRaises, Fails
<1>9. CASE FetchedNothing BY <1>9 DEF FetchedNothing, UnlinkTemp, Unlinked
<1>10. CASE Move BY <1>10 DEF Move, Fails
<1>11. CASE Complete
  <2>1. library[rname] \in Sizes
    BY <1>11 DEF Complete, CopiesKeepUp, SizeFits, Sizes, Absent
  <2> QED BY <1>11, <2>1 DEF Complete, RunOver
<1>12. CASE CompleteRaises BY <1>12 DEF CompleteRaises, Fails
<1>13. CASE Cleanup BY <1>13 DEF Cleanup, Cleans, Unlinked
<1>14. CASE GiveBack BY <1>14 DEF GiveBack, RunOver
<1> QED BY <1>1, <1>2, <1>3, <1>4, <1>5, <1>6, <1>7, <1>8, <1>9, <1>10, <1>11, <1>12,
          <1>13, <1>14 DEF Run

LEMMA TypeOthers ==
  ASSUME TypeOK, CompletedHasItsFile, Others \/ UNCHANGED vars PROVE TypeOK'
<1> USE NoReferences DEF TypeOK, rowVars, fileVars, copyVars, countVars, Statuses, Pcs, Reasons
<1>1. CASE Lose
  <2>1. lost' \in Nat BY <1>1 DEF Lose
  <2> QED BY <1>1, <2>1 DEF Lose, RunOver
<1>2. CASE Recover BY <1>2 DEF Recover
<1>3. CASE Resubmit BY <1>3 DEF Resubmit
<1>4. CASE TakeAway BY <1>4 DEF TakeAway
<1>5. CASE Delete BY <1>5 DEF Delete
<1>6. CASE UNCHANGED vars BY <1>6 DEF vars
<1> QED BY <1>1, <1>2, <1>3, <1>4, <1>5, <1>6 DEF Others

-----------------------------------------------------------------------------
(* The copies of a run keep up with the row. *)
LEMMA CopiesRun ==
  ASSUME TypeOK, CopiesKeepUp, CompletedHasItsFile, Run
  PROVE  CopiesKeepUp' /\ CompletedHasItsFile'
<1> USE DEF TypeOK, rowVars, fileVars, copyVars, countVars, CopiesKeepUp, CompletedHasItsFile,
            Running, HasRow, SizeFits
<1>1. CASE Start BY <1>1 DEF Start
<1>2. CASE Connect BY <1>2 DEF Connect
<1>3. CASE RefreshRaises BY <1>3 DEF RefreshRaises, Fails
<1>4. CASE Fetch BY <1>4 DEF Fetch
<1>5. ASSUME NEW n \in Names, NEW s \in {0, Whole}, Refresh(n, s)
      PROVE  CopiesKeepUp' /\ CompletedHasItsFile'
  BY <1>5 DEF Refresh, TakesReference, TakesName
<1>6. ASSUME NEW s \in Sizes, FetchEnds(s) PROVE CopiesKeepUp' /\ CompletedHasItsFile'
  BY <1>6 DEF FetchEnds
<1>7. CASE FetchExpires BY <1>7 DEF FetchExpires, UnlinkTemp, Unlinked
<1>8. CASE FetchRaises BY <1>8 DEF FetchRaises, Fails
<1>9. CASE FetchedNothing BY <1>9 DEF FetchedNothing, UnlinkTemp, Unlinked
<1>10. CASE Move BY <1>10 DEF Move, Fails
<1>11. CASE Complete BY <1>11 DEF Complete, RunOver
<1>12. CASE CompleteRaises BY <1>12 DEF CompleteRaises, Fails
<1>13. CASE Cleanup BY <1>13 DEF Cleanup, Cleans, Unlinked
<1>14. CASE GiveBack BY <1>14 DEF GiveBack, RunOver
<1> QED BY <1>1, <1>2, <1>3, <1>4, <1>5, <1>6, <1>7, <1>8, <1>9, <1>10, <1>11, <1>12,
          <1>13, <1>14 DEF Run

LEMMA CopiesOthers ==
  ASSUME TypeOK, CopiesKeepUp, CompletedHasItsFile, Others \/ UNCHANGED vars
  PROVE  CopiesKeepUp' /\ CompletedHasItsFile'
<1> USE DEF TypeOK, rowVars, fileVars, copyVars, countVars, CopiesKeepUp, CompletedHasItsFile,
            Running, HasRow, SizeFits
<1>1. CASE Lose BY <1>1 DEF Lose, RunOver
<1>2. CASE Recover BY <1>2 DEF Recover
<1>3. CASE Resubmit BY <1>3 DEF Resubmit
<1>4. CASE TakeAway BY <1>4 DEF TakeAway
<1>5. CASE Delete BY <1>5 DEF Delete
<1>6. CASE UNCHANGED vars BY <1>6 DEF vars
<1> QED BY <1>1, <1>2, <1>3, <1>4, <1>5, <1>6 DEF Others

-----------------------------------------------------------------------------
(* References are used in the order in which the message gives them. *)
LEMMA AppendFacts ==
  ASSUME NEW s \in Seq(Nat), NEW x \in Nat
  PROVE  /\ Len(Append(s, x)) = Len(s) + 1
         /\ s = <<>> => Append(s, x)[1] = x
         /\ Len(s) = 1 => Append(s, x)[1] = s[1] /\ Append(s, x)[2] = x
OBVIOUS

LEMMA OnlyElement ==
  ASSUME NEW s \in Seq(Nat), Len(s) = 1 PROVE s[1] \in Nat
<1>1. 1 \in 1..Len(s) OBVIOUS
<1> QED BY <1>1, ElementOfSeq

LEMMA OrderFetch ==
  ASSUME TypeOK, InOrder, SecondChance, Fetch PROVE InOrder' /\ SecondChance'
<1> USE DEF TypeOK, rowVars, fileVars, copyVars, countVars, InOrder, SecondChance,
            Before, Ready, Loading, Fetch
<1>1. /\ Len(tried') = Len(tried) + 1
      /\ tried = <<>> => tried'[1] = rref
      /\ Len(tried) = 1 => tried'[1] = tried[1] /\ tried'[2] = rref
  BY AppendFacts
<1>2. CASE why = "first"
  <2>1. tried = <<>> /\ Len(tried) = 0 BY <1>2, NoReferences
  <2> QED BY <1>1, <1>2, <2>1
<1>3. CASE why # "first"
  <2>1. Len(tried) = 1 /\ tried[1] < rref BY <1>3
  <2>2. InOrder' BY <1>1, <1>3, <2>1
  <2>3. Len(tried') = 2 /\ tried'[1] # tried'[2] BY <1>1, <2>1
  <2>4. SecondChance' BY <2>3
  <2> QED BY <2>2, <2>4
<1> QED BY <1>2, <1>3

LEMMA OrderRun ==
  ASSUME TypeOK, InOrder, SecondChance, Run PROVE InOrder' /\ SecondChance'
<1> USE NoReferences DEF TypeOK, rowVars, fileVars, copyVars, countVars, InOrder,
            SecondChance, Before, Ready, Loading, Pcs, Reasons
<1>1. CASE Start BY <1>1 DEF Start
<1>2. CASE Connect BY <1>2 DEF Connect
<1>3. CASE RefreshRaises BY <1>3 DEF RefreshRaises, Fails
<1>4. CASE Fetch BY <1>4, OrderFetch
<1>5. ASSUME NEW n \in Names, NEW s \in {0, Whole}, Refresh(n, s)
      PROVE  InOrder' /\ SecondChance'
  <2>1. /\ pc = "refresh" /\ pc' = "fetch" /\ tried' = tried /\ why' = why
        /\ issued' = issued + 1 /\ rref' = issued + 1 /\ refreshed' = (why # "empty")
        /\ ref' \in {ref, issued + 1}
    BY <1>5 DEF Refresh, TakesReference
  <2>2. ref' <= issued' /\ rref' <= issued' BY <2>1
  <2>3. why # "first" => Len(tried) = 1 /\ tried[1] <= issued /\ tried[1] \in Nat
    BY <2>1, OnlyElement
  <2>4. why # "first" => tried'[1] <= issued' /\ tried'[1] < rref' BY <2>1, <2>3
  <2>5. why = "first" => tried' = <<>> BY <2>1
  <2>6. InOrder' BY <2>1, <2>2, <2>3, <2>4, <2>5
  <2> QED BY <2>1, <2>6
<1>6. ASSUME NEW s \in Sizes, FetchEnds(s) PROVE InOrder' /\ SecondChance'
  BY <1>6 DEF FetchEnds
<1>7. CASE FetchExpires BY <1>7 DEF FetchExpires
<1>8. CASE FetchRaises BY <1>8 DEF FetchRaises, Fails
<1>9. CASE FetchedNothing BY <1>9 DEF FetchedNothing, SwallowedExpiry
<1>10. CASE Move BY <1>10 DEF Move, Fails
<1>11. CASE Complete BY <1>11 DEF Complete, RunOver
<1>12. CASE CompleteRaises BY <1>12 DEF CompleteRaises, Fails
<1>13. CASE Cleanup BY <1>13 DEF Cleanup
<1>14. CASE GiveBack BY <1>14 DEF GiveBack, RunOver
<1> QED BY <1>1, <1>2, <1>3, <1>4, <1>5, <1>6, <1>7, <1>8, <1>9, <1>10, <1>11, <1>12,
          <1>13, <1>14 DEF Run

LEMMA OrderOthers ==
  ASSUME TypeOK, InOrder, SecondChance, Others \/ UNCHANGED vars
  PROVE  InOrder' /\ SecondChance'
<1> USE NoReferences DEF TypeOK, rowVars, fileVars, copyVars, countVars, InOrder,
            SecondChance, Before, Ready, Loading
<1>1. CASE Lose BY <1>1 DEF Lose, RunOver
<1>2. CASE Recover BY <1>2 DEF Recover
<1>3. CASE Resubmit BY <1>3 DEF Resubmit
<1>4. CASE TakeAway BY <1>4 DEF TakeAway
<1>5. CASE Delete BY <1>5 DEF Delete
<1>6. CASE UNCHANGED vars BY <1>6 DEF vars
<1> QED BY <1>1, <1>2, <1>3, <1>4, <1>5, <1>6 DEF Others

LEMMA DownloadStep == DownloadInv /\ [Next]_vars => DownloadInv'
<1> SUFFICES ASSUME DownloadInv, [Next]_vars PROVE DownloadInv' OBVIOUS
<1>1. CASE Run BY <1>1, TypeRun, CopiesRun, OrderRun DEF DownloadInv
<1>2. CASE Others \/ UNCHANGED vars
  BY <1>2, TypeOthers, CopiesOthers, OrderOthers DEF DownloadInv
<1> QED BY <1>1, <1>2 DEF Next

-----------------------------------------------------------------------------
(* Files.  A step other than the loss of a run charges nothing new: whatever it
   leaves behind was behind already. *)
LEMMA ChargeRun ==
  ASSUME TypeOK, CopiesKeepUp, Tidy, Run
  PROVE  /\ \A n \in Names : Charged(n)' => Charged(n)
         /\ pc' = "fetched" => part'[rname'] = FALSE
         /\ pc' \in {"moved", "cleaned"} => part'[rname'] = FALSE /\ temp'[rname'] = Absent
         /\ pc' = "cleaned" => library'[rname'] = Absent
<1> USE DEF TypeOK, rowVars, fileVars, copyVars, countVars, Tidy, Charged, Clean,
            Before, Ready, Loading
<1>1. CASE Start BY <1>1 DEF Start
<1>2. CASE Connect BY <1>2 DEF Connect
<1>3. CASE RefreshRaises BY <1>3 DEF RefreshRaises, Fails
<1>4. CASE Fetch BY <1>4 DEF Fetch, CopiesKeepUp, Running
<1>5. ASSUME NEW n \in Names, NEW s \in {0, Whole}, Refresh(n, s)
      PROVE  /\ \A m \in Names : Charged(m)' => Charged(m)
             /\ pc' = "fetch"
  BY <1>5 DEF Refresh, TakesReference, TakesName
<1>6. ASSUME NEW s \in Sizes, FetchEnds(s)
      PROVE  /\ \A m \in Names : Charged(m)' => Charged(m)
             /\ pc' = "fetched" /\ part'[rname'] = FALSE
  BY <1>6 DEF FetchEnds, CopiesKeepUp, Running
<1>7. CASE FetchExpires BY <1>7 DEF FetchExpires, UnlinkTemp, Unlinked, CopiesKeepUp, Running, HasRow
<1>8. CASE FetchRaises BY <1>8 DEF FetchRaises, Fails
<1>9. CASE FetchedNothing BY <1>9 DEF FetchedNothing, UnlinkTemp, Unlinked
<1>10. CASE Move BY <1>10 DEF Move, Fails
<1>11. CASE Complete BY <1>11 DEF Complete, RunOver, HasRow, CopiesKeepUp, Running
<1>12. CASE CompleteRaises BY <1>12 DEF CompleteRaises, Fails
<1>13. CASE Cleanup BY <1>13 DEF Cleanup, Cleans, Unlinked
<1>14. CASE GiveBack BY <1>14 DEF GiveBack, RunOver, HasRow, CopiesKeepUp, Running
<1> QED BY <1>1, <1>2, <1>3, <1>4, <1>5, <1>6, <1>7, <1>8, <1>9, <1>10, <1>11, <1>12,
          <1>13, <1>14 DEF Run

LEMMA ChargeOthers ==
  ASSUME TypeOK, CopiesKeepUp, Tidy, Recover \/ Resubmit \/ TakeAway \/ Delete \/ UNCHANGED vars
  PROVE  \A n \in Names : Charged(n)' => Charged(n)
<1> USE DEF TypeOK, rowVars, fileVars, copyVars, countVars, Charged, Clean, Before, Ready,
            Loading, CopiesKeepUp, Running, HasRow
<1>1. CASE Recover BY <1>1 DEF Recover
<1>2. CASE Resubmit BY <1>2 DEF Resubmit
<1>3. CASE TakeAway BY <1>3 DEF TakeAway
<1>4. CASE Delete BY <1>4 DEF Delete
<1>5. CASE UNCHANGED vars BY <1>5 DEF vars
<1> QED BY <1>1, <1>2, <1>3, <1>4, <1>5

(* A smaller bill costs no more. *)
LEMMA Cheaper ==
  ASSUME TypeOK, Tidy, \A n \in Names : Charged(n)' => Charged(n), lost' = lost
  PROVE  IsFiniteSet(Bill') /\ Cardinality(Bill') <= lost'
<1>1. Bill' \in SUBSET Bill BY DEF Bill
<1>2. IsFiniteSet(Bill') /\ Cardinality(Bill') <= Cardinality(Bill)
  BY <1>1, FS_Subset DEF Tidy
<1>3. Cardinality(Bill) \in Nat /\ Cardinality(Bill') \in Nat
  BY <1>2, FS_CardinalityType DEF Tidy
<1> QED BY <1>2, <1>3 DEF Tidy, TypeOK

(* A lost run leaves the files of one name. *)
LEMMA LosePays ==
  ASSUME TypeOK, Tidy, Lose PROVE IsFiniteSet(Bill') /\ Cardinality(Bill') <= lost'
<1>1. Bill' \in SUBSET (Bill \cup {rname})
  BY DEF Lose, RunOver, Bill, Charged, Clean, rowVars, fileVars
<1>2. /\ IsFiniteSet(Bill \cup {rname})
      /\ Cardinality(Bill \cup {rname}) <= Cardinality(Bill) + 1
  <2>1. Cardinality(Bill) \in Nat BY FS_CardinalityType DEF Tidy
  <2>2. Cardinality(Bill \cup {rname}) \in {Cardinality(Bill), Cardinality(Bill) + 1}
    BY FS_AddElement DEF Tidy
  <2>3. IsFiniteSet(Bill \cup {rname}) BY FS_AddElement DEF Tidy
  <2> QED BY <2>1, <2>2, <2>3
<1>3. /\ IsFiniteSet(Bill')
      /\ Cardinality(Bill') <= Cardinality(Bill \cup {rname})
  BY <1>1, <1>2, FS_Subset
<1>4. /\ Cardinality(Bill) \in Nat /\ Cardinality(Bill') \in Nat
      /\ Cardinality(Bill \cup {rname}) \in Nat
  BY <1>2, <1>3, FS_CardinalityType DEF Tidy
<1>5. lost' = lost + 1 BY DEF Lose
<1> QED BY <1>2, <1>3, <1>4, <1>5 DEF Tidy, TypeOK

LEMMA TidyInit == Init => Tidy
<1> SUFFICES ASSUME Init PROVE Tidy OBVIOUS
<1>1. Bill = {} BY DEF Init, Bill, Charged, Clean
<1> QED BY <1>1, FS_EmptySet DEF Init, Tidy

LEMMA TidyStep ==
  ASSUME DownloadInv, Tidy, [Next]_vars PROVE Tidy'
<1>1. CASE Run
  <2>1. lost' = lost
    BY <1>1 DEF Run, Start, Connect, RefreshRaises, Fetch, Refresh, FetchEnds, FetchExpires,
       FetchRaises, FetchedNothing, Move, Complete, CompleteRaises, Cleanup, GiveBack, countVars
  <2> QED BY <1>1, <2>1, ChargeRun, Cheaper DEF DownloadInv, Tidy
<1>2. CASE Lose BY <1>2, LosePays DEF DownloadInv, Tidy, Lose, RunOver
<1>3. CASE Recover \/ Resubmit \/ TakeAway \/ Delete \/ UNCHANGED vars
  <2>1. /\ lost' = lost /\ pc' = pc /\ rname' = rname /\ part' = part /\ temp' = temp
        /\ pc = "idle" \/ library' = library
    BY <1>3 DEF Recover, Resubmit, TakeAway, Delete, vars, rowVars, fileVars, copyVars, countVars
  <2> QED BY <1>3, <2>1, ChargeOthers, Cheaper DEF DownloadInv, Tidy
<1> QED BY <1>1, <1>2, <1>3 DEF Next, Others

-----------------------------------------------------------------------------
(* Type correctness of the download. *)
THEOREM DownloadTypeCorrect == Spec => []TypeOK
<1>1. DownloadInv => TypeOK BY DEF DownloadInv
<1> QED BY <1>1, DownloadInit, DownloadStep, PTL DEF Spec

(* A completed task has its file, under the name and of the size its row shows,
   whatever renames the media and however often a run starts again. *)
THEOREM CompletionHasFile == Spec => []CompletedHasItsFile
<1>1. DownloadInv => CompletedHasItsFile BY DEF DownloadInv
<1> QED BY <1>1, DownloadInit, DownloadStep, PTL DEF Spec

(* Two downloads in a run at most, each with a reference of its own. *)
THEOREM NoThirdChance == Spec => []SecondChance
<1>1. DownloadInv => SecondChance BY DEF DownloadInv
<1> QED BY <1>1, DownloadInit, DownloadStep, PTL DEF Spec

(* However many names a refresh gives the media, a run leaves files without an
   owner behind only if its process dies, those of one name. *)
THEOREM LeftoversAreLostRuns == Spec => []LeftoversBound
<1>1. DownloadInv /\ Tidy => LeftoversBound
  <2> SUFFICES ASSUME DownloadInv, Tidy PROVE LeftoversBound OBVIOUS
  <2>1. Leftover \in SUBSET Bill BY DEF Leftover, Owned, Bill, Charged, Clean, Before, DownloadInv, TypeOK
  <2>2. IsFiniteSet(Leftover) /\ Cardinality(Leftover) <= Cardinality(Bill)
    BY <2>1, FS_Subset DEF Tidy
  <2>3. Cardinality(Bill) \in Nat /\ Cardinality(Leftover) \in Nat
    BY <2>2, FS_CardinalityType DEF Tidy
  <2> QED BY <2>2, <2>3 DEF Tidy, LeftoversBound, DownloadInv, TypeOK
<1>2. Init => DownloadInv /\ Tidy BY DownloadInit, TidyInit
<1>3. DownloadInv /\ Tidy /\ [Next]_vars => (DownloadInv /\ Tidy)'
  BY DownloadStep, TidyStep
<1> QED BY <1>1, <1>2, <1>3, PTL DEF Spec

(* A part of the media is never taken for the whole of it. *)
THEOREM CompletionIsWhole == Spec => NeverShort
<1>1. DownloadInv /\ [Next]_vars
        => [(status # "completed" /\ status' = "completed" /\ size > 0)
              => size' = size]_vars
  <2> SUFFICES ASSUME DownloadInv, Next, status # "completed", status' = "completed", size > 0
               PROVE  size' = size
    BY DEF Next
  <2>1. Complete
    BY DEF Next, Run, Others, Start, Connect, RefreshRaises, Fetch, Refresh, FetchEnds,
       FetchExpires, FetchRaises, FetchedNothing, Move, CompleteRaises, Cleanup, GiveBack,
       Lose, Recover, Resubmit, TakeAway, Delete, rowVars
  <2> QED BY <2>1 DEF Complete, DownloadInv, CopiesKeepUp, SizeFits, Running, TypeOK
<1> QED BY <1>1, DownloadInit, DownloadStep, PTL DEF Spec, NeverShort

-----------------------------------------------------------------------------
(* Why a run ends, although it may refresh its reference and download again in
   two places: what is left of it is a number of steps, and two more for the one
   further download it may make. *)

StepsOfPlace ==
  CASE pc = "connect" -> 8
    [] pc = "refresh" -> 7
    [] pc = "fetch" -> 6
    [] pc = "fetching" -> 5
    [] pc = "fetched" -> 4
    [] pc = "moved" -> 3
    [] pc = "failing" -> 2
    [] pc = "cleaned" -> 1
    [] OTHER -> 0

StepsLeft == IF Running THEN StepsOfPlace + (IF why = "first" THEN 4 ELSE 0) ELSE 0

LEMMA RunSpends ==
  ASSUME DownloadInv, Run, Running
  PROVE  StepsLeft' < StepsLeft
<1> USE DEF DownloadInv, TypeOK, Running, StepsLeft, StepsOfPlace, Reasons
<1>1. ~Start BY DEF Start
<1>2. CASE Connect BY <1>2 DEF Connect, copyVars
<1>3. CASE RefreshRaises BY <1>3 DEF RefreshRaises, Fails, copyVars
<1>4. CASE Fetch BY <1>4 DEF Fetch
<1>5. ASSUME NEW n \in Names, NEW s \in {0, Whole}, Refresh(n, s)
      PROVE  StepsLeft' < StepsLeft
  BY <1>5 DEF Refresh
<1>6. ASSUME NEW s \in Sizes, FetchEnds(s) PROVE StepsLeft' < StepsLeft
  BY <1>6 DEF FetchEnds, copyVars
<1>7. CASE FetchExpires BY <1>7 DEF FetchExpires
<1>8. CASE FetchRaises BY <1>8 DEF FetchRaises, Fails, copyVars
<1>9. CASE FetchedNothing
  <2>1. why = "first" /\ why' = "empty" /\ pc = "fetched" /\ pc' = "refresh"
    BY <1>9 DEF FetchedNothing, SwallowedExpiry, InOrder, Loading
  <2> QED BY <2>1
<1>10. CASE Move BY <1>10 DEF Move, Fails, copyVars
<1>11. CASE Complete BY <1>11 DEF Complete, RunOver
<1>12. CASE CompleteRaises BY <1>12 DEF CompleteRaises, Fails, copyVars
<1>13. CASE Cleanup BY <1>13 DEF Cleanup, copyVars
<1>14. CASE GiveBack BY <1>14 DEF GiveBack, RunOver
<1> QED BY <1>1, <1>2, <1>3, <1>4, <1>5, <1>6, <1>7, <1>8, <1>9, <1>10, <1>11, <1>12,
          <1>13, <1>14 DEF Run

(* The loop of refreshing and downloading ends: a run takes twelve steps at
   most, each of its steps lowers what is left, and nobody else adds to it. *)
THEOREM RunsAreShort ==
  Spec => [][/\ StepsLeft \in 0..12
             /\ Running /\ Run => StepsLeft' < StepsLeft
             /\ Others => StepsLeft' <= StepsLeft]_vars
<1> DEFINE Spends == /\ StepsLeft \in 0..12
                     /\ Running /\ Run => StepsLeft' < StepsLeft
                     /\ Others => StepsLeft' <= StepsLeft
<1>1. DownloadInv => StepsLeft \in 0..12
  BY DEF DownloadInv, TypeOK, Pcs, StepsLeft, StepsOfPlace
<1>2. DownloadInv /\ Others => StepsLeft' <= StepsLeft
  <2> SUFFICES ASSUME DownloadInv, Others PROVE StepsLeft' <= StepsLeft OBVIOUS
  <2>1. pc' = "idle" \/ UNCHANGED <<pc, why>>
    BY DEF Others, Lose, RunOver, Recover, Resubmit, TakeAway, Delete, copyVars
  <2>2. StepsLeft \in 0..12 BY <1>1
  <2>3. CASE pc' = "idle"
    <3>1. StepsLeft' = 0 BY <2>3 DEF StepsLeft, Running
    <3> QED BY <2>2, <3>1
  <2>4. CASE UNCHANGED <<pc, why>>
    <3>1. StepsLeft' = StepsLeft BY <2>4 DEF StepsLeft, StepsOfPlace, Running
    <3> QED BY <2>2, <3>1
  <2> QED BY <2>1, <2>3, <2>4
<1>3. DownloadInv /\ [Next]_vars => Spends BY <1>1, <1>2, RunSpends
<1> HIDE DEF Spends
<1>4. Spec => [][Spends]_vars BY <1>3, DownloadInit, DownloadStep, PTL DEF Spec
<1> QED BY <1>4 DEF Spends
=============================================================================
