-------------------------- MODULE SharedFiles_proofs --------------------------
(***************************************************************************)
(* The safety of what processes share: the files of the research,          *)
(*                                                                         *)
(*  - the rows file: its lock is of one run unless a recovery removed a    *)
(*    lock file that it had not inspected, and no row that a run was told  *)
(*    is stored is lost, unless the file was disturbed in one of the three *)
(*    ways that RowsFile names;                                            *)
(*  - the published feature cache: its manifest describes the rows beside  *)
(*    it unless a lock file was taken from a builder inside;               *)
(*  - the candle caches: searches run on whole markets, and the lock of a   *)
(*    cache has one owner;                                                 *)
(*  - model and mapping: what a runtime composes is one frozen result;     *)
(*  - feature providers: they answer as of the minute that was asked for,  *)
(*    from the files that they opened, and equal hashes mean equal answers;*)
(*                                                                         *)
(* and the signal log by which trade runs keep each other from ordering    *)
(* twice (the end of the module).                                          *)
(***************************************************************************)
EXTENDS RowsFile, FeatureCache, CandleCache, RegimeArtifacts, FeatureProviders,
        TradeExecution, SequenceTheorems, FiniteSetTheorems, WellFoundedInduction, TLAPS

-----------------------------------------------------------------------------
(* The lock.                                                                *)

Gone(p) == step[p] \in {"dead", "ended"}

(* p is between making a lock file and releasing it.                        *)
Owns(p) == step[p] = "own" \/ Inside(p)

(* An inode is of one owner only, the owner named by a lock file is gone or *)
(* is between making and releasing that very file, and what a recovery is   *)
(* about to remove has no owner left.                                       *)
LockInv ==
    /\ lockFile = NoLock \/ (lockFile.inode \in 1..inodes /\ lockFile.owner \in Runs)
    /\ \A p \in Runs : Owns(p) \/ step[p] \in {"recheck", "recover"} => inode[p] \in 1..inodes
    /\ \A p, q \in Runs : Owns(p) /\ Owns(q) /\ p # q => inode[p] # inode[q]
    /\ \A p \in Runs : Owns(p) /\ lockFile.inode = inode[p] => lockFile.owner = p
    /\ \A p \in Runs : lockFile.owner = p =>
         \/ Gone(p)
         \/ Owns(p) /\ inode[p] = lockFile.inode /\ ~lockFile.old /\ (lockFile.written \/ step[p] = "own")
    /\ \A p, q \in Runs : step[q] = "recover" /\ lockFile.inode = inode[q] /\ lockFile.owner = p => Gone(p)
    /\ overtaken \/ \A p \in Runs : Owns(p) => lockFile.inode = inode[p]

-----------------------------------------------------------------------------
(* The file.                                                                *)

(* The lines before a torn one.                                             *)
Complete == IF TornTail THEN Len(rowsFile) - 1 ELSE Len(rowsFile)

Intact == \A i \in 1..Complete : rowsFile[i].form \in {"whole", "bare"}

(* What a run relies on while nothing has disturbed the file.  The rows it  *)
(* has are stored; it cuts no complete row, and inside the lock exactly the *)
(* torn line, behind which nobody else writes; and it has the rows of all   *)
(* folds it has passed.                                                     *)
RunInv(p) ==
    /\ rows[p] \subseteq StoredRows
    /\ step[p] = "truncate" => cut[p] =< Complete
    /\ Inside(p) /\ step[p] = "truncate" => cut[p] = Complete
    /\ Inside(p) /\ step[p] \in {"loaded", "append"} => ~TornTail
    /\ Inside(p) /\ step[p] = "release" /\ result[p] = "none" => OwnRow(p) \in StoredRows
    /\ 1..(fold[p] - 1) \subseteq Completed(p)
    /\ load[p] = "reload" /\ step[p] = "read" => OwnRow(p) \in acked
    /\ load[p] = "reload" /\ step[p] \in {"truncate", "loaded"} => OwnRow(p) \in rows[p]
    /\ step[p] \in {"aggregate", "fill"} => fold[p] = Folds + 1 \/ OwnRow(p) \in rows[p]
    /\ result[p] = "done" => Completed(p) = 1..Folds

FileInv == Intact /\ acked \subseteq StoredRows /\ \A p \in Runs : RunInv(p)

(* A run is past its last fold only when it has nothing left to append, and *)
(* it appends and releases only between taking and releasing the lock.      *)
ProgressInv ==
    \A p \in Runs : /\ step[p] \notin {"aggregate", "fill", "ended", "dead"} => fold[p] =< Folds
                    /\ result[p] = "done" => step[p] = "ended"
                    /\ step[p] = "begin" => load[p] = "begin"
                    /\ step[p] \in {"append", "release"} => load[p] = "write"

RowsInv == RowsTypeOK /\ ProgressInv /\ LockInv /\ (FileInv \/ Disturbed)

-----------------------------------------------------------------------------
(* Operators of the model.                                                  *)

LEMMA Smallest ==
    ASSUME NEW S \in SUBSET Nat, S # {}
    PROVE  \E n \in S : \A m \in S : n =< m
<1> DEFINE R == OpToRel(<, Nat)
<1>1. IsWellFoundedOn(R, Nat)
  BY NatLessThanWellFounded
<1>2. \A x, y \in Nat : x < y => <<x, y>> \in R
  BY DEF OpToRel
<1> HIDE DEF R
<1>3. PICK n \in S : \A y \in S : ~ (<<y, n>> \in R)
  BY <1>1, WFMin
<1>4. ASSUME NEW m \in S PROVE n =< m
  <2>1. n \in Nat /\ m \in Nat /\ ~(<<m, n>> \in R)
    BY <1>3
  <2>2. ~(m < n)
    BY <1>2, <2>1
  <2> QED BY <2>1, <2>2
<1> QED BY <1>4

(* The folds between f and the next one that is open are completed.         *)
LEMMA NextFoldIsFirst ==
    ASSUME NEW p \in Runs, NEW f \in 1..(Folds + 1)
    PROVE  /\ NextFold(p, f) \in f..(Folds + 1)
           /\ f..(NextFold(p, f) - 1) \subseteq Completed(p)
<1>1. Folds \in Nat
  BY FoldsAssumption
<1> DEFINE open == (f..Folds) \ Completed(p)
<1>2. CASE open = {}
  <2>1. NextFold(p, f) = Folds + 1
    BY <1>2 DEF NextFold
  <2> QED BY <1>1, <1>2, <2>1
<1>3. CASE open # {}
  <2>1. NextFold(p, f) = CHOOSE n \in open : \A m \in open : n =< m
    BY <1>3 DEF NextFold
  <2>2. open \in SUBSET Nat
    BY <1>1
  <2> HIDE DEF open
  <2>3. NextFold(p, f) \in open /\ \A m \in open : NextFold(p, f) =< m
    BY <1>3, <2>1, <2>2, Smallest
  <2>4. NextFold(p, f) \in f..Folds
    BY <2>3 DEF open
  <2>5. ASSUME NEW k \in f..(NextFold(p, f) - 1) PROVE k \in Completed(p)
    <3>1. k \in f..Folds /\ k < NextFold(p, f)
      BY <1>1, <2>4
    <3>2. k \notin open
      BY <1>1, <2>3, <2>4, <3>1
    <3> QED BY <3>1, <3>2 DEF open
  <2> QED BY <1>1, <2>4, <2>5
<1> QED BY <1>2, <1>3

Lines == [row : FoldRows, form : Forms]

LEMMA FileFacts ==
    ASSUME RowsTypeOK
    PROVE  /\ rowsFile \in Seq(Lines) /\ Len(rowsFile) \in Nat
           /\ Complete \in 0..Len(rowsFile)
           /\ TornTail <=> Complete # Len(rowsFile)
           /\ TornTail => rowsFile # <<>> /\ rowsFile[Len(rowsFile)].form = "torn"
           /\ ~TornTail /\ rowsFile # <<>> => rowsFile[Len(rowsFile)].form # "torn"
<1>1. rowsFile \in Seq(Lines) /\ Len(rowsFile) \in Nat
  BY DEF RowsTypeOK, Lines
<1>2. rowsFile # <<>> => Len(rowsFile) >= 1
  BY <1>1
<1> QED BY <1>1, <1>2 DEF Complete, TornTail, Last

LEMMA StoredAreComplete ==
    ASSUME RowsTypeOK, Intact
    PROVE  StoredRows = {rowsFile[i].row : i \in 1..Complete}
<1>1. DOMAIN rowsFile = 1..Len(rowsFile)
  BY FileFacts
<1>2. \A i \in DOMAIN rowsFile : rowsFile[i].form \in {"whole", "bare"} <=> i \in 1..Complete
  <2>1. ASSUME NEW i \in DOMAIN rowsFile, i \notin 1..Complete PROVE rowsFile[i].form \notin {"whole", "bare"}
    <3>1. Len(rowsFile) \in Nat /\ i \in 1..Len(rowsFile)
      BY <1>1, FileFacts
    <3>2. TornTail
      BY <2>1, <3>1 DEF Complete
    <3>3. i = Len(rowsFile)
      BY <2>1, <3>1, <3>2 DEF Complete
    <3> QED BY <3>2, <3>3, FileFacts
  <2> QED BY <2>1 DEF Intact
<1>3. 1..Complete \subseteq DOMAIN rowsFile
  BY <1>1, FileFacts
<1>4. {j \in DOMAIN rowsFile : rowsFile[j].form \in {"whole", "bare"}} = 1..Complete
  BY <1>2, <1>3
<1> QED BY <1>4 DEF StoredRows

(* A line is added behind one that has its newline.                         *)
LEMMA WrittenBehind ==
    ASSUME RowsTypeOK, NEW r \in FoldRows, NEW form \in {"whole", "bare", "torn"}
    PROVE  /\ Written(r, form) \in Seq(Lines)
           /\ Intact /\ ~OpenTail /\ rowsFile' = Written(r, form) =>
                /\ Intact' /\ StoredRows \subseteq StoredRows'
                /\ form # "torn" => r \in StoredRows'
                /\ Complete =< Complete'
<1>1. rowsFile \in Seq(Lines) /\ Len(rowsFile) \in Nat
  BY FileFacts
<1>2. CASE OpenTail
  <2>1. Front(rowsFile) \in Seq(Lines)
    BY <1>1, <1>2 DEF Front, OpenTail
  <2>2. [row |-> r, form |-> IF form = "whole" THEN "damaged" ELSE "torn"] \in Lines
    BY DEF Lines, Forms
  <2> QED BY <1>2, <2>1, <2>2 DEF Written
<1>3. CASE ~OpenTail
  <2> DEFINE line == [row |-> r, form |-> form]
  <2>1. line \in Lines /\ line.row = r /\ line.form = form
    BY DEF Lines, Forms
  <2>2. Written(r, form) = Append(rowsFile, line)
    BY <1>3 DEF Written
  <2> HIDE DEF line
  <2>3. Written(r, form) \in Seq(Lines)
    BY <1>1, <2>1, <2>2
  <2> SUFFICES ASSUME Intact, rowsFile' = Written(r, form)
               PROVE  /\ Intact' /\ StoredRows \subseteq StoredRows'
                      /\ form # "torn" => r \in StoredRows'
                      /\ Complete =< Complete'
    BY <1>3, <2>3
  <2>4. /\ Len(rowsFile') = Len(rowsFile) + 1 /\ DOMAIN rowsFile' = 1..(Len(rowsFile) + 1)
        /\ rowsFile'[Len(rowsFile) + 1] = line
        /\ \A i \in 1..Len(rowsFile) : rowsFile'[i] = rowsFile[i]
    BY <1>1, <2>1, <2>2
  <2>5. ~TornTail /\ Complete = Len(rowsFile)
    BY <1>3 DEF OpenTail, TornTail, Complete
  <2>6. TornTail' <=> form = "torn"
    <3>1. rowsFile' # <<>>
      BY <1>1, <2>4
    <3> QED BY <2>1, <2>4, <3>1 DEF TornTail, Last
  <2>7. Complete' = IF form = "torn" THEN Len(rowsFile) ELSE Len(rowsFile) + 1
    BY <1>1, <2>4, <2>6 DEF Complete
  <2>8. Intact'
    BY <1>1, <2>1, <2>4, <2>5, <2>7 DEF Intact
  <2>9. StoredRows \subseteq StoredRows'
    BY <1>1, <2>4 DEF StoredRows
  <2>10. form # "torn" => r \in StoredRows'
    BY <1>1, <2>1, <2>4 DEF StoredRows
  <2> QED BY <1>1, <2>5, <2>7, <2>8, <2>9, <2>10
<1> QED BY <1>2, <1>3

(* Nothing but a torn line is cut off.                                      *)
LEMMA CutTorn ==
    ASSUME RowsTypeOK, Intact, NEW n \in Nat, n \in Complete..Len(rowsFile),
           rowsFile' = SubSeq(rowsFile, 1, n)
    PROVE  /\ Intact' /\ StoredRows' = StoredRows /\ Complete' = Complete
           /\ n = Complete => ~TornTail'
           /\ TornTail' => TornTail
<1>1. rowsFile \in Seq(Lines) /\ Len(rowsFile) \in Nat /\ Complete \in 0..Len(rowsFile)
  BY FileFacts
<1>2. CASE n = Len(rowsFile)
  <2>1. rowsFile' = rowsFile
    BY <1>1, <1>2
  <2>2. n = Complete => ~TornTail
    BY <1>1, <1>2 DEF Complete
  <2> QED BY <2>1, <2>2 DEF Intact, StoredRows, Complete, TornTail
<1>3. CASE n # Len(rowsFile)
  <2>1. TornTail /\ n = Complete /\ n = Len(rowsFile) - 1
    BY <1>1, <1>3 DEF Complete
  <2>2. /\ Len(rowsFile') = n /\ DOMAIN rowsFile' = 1..n
        /\ \A i \in 1..n : rowsFile'[i] = rowsFile[i]
    BY <1>1, <2>1
  <2>3. ~TornTail'
    <3>1. CASE n = 0
      <4>1. rowsFile' = <<>>
        BY <1>1, <2>2, <3>1
      <4> QED BY <4>1 DEF TornTail
    <3>2. CASE n # 0
      <4>1. rowsFile'[n].form \in {"whole", "bare"}
        BY <2>1, <2>2, <3>2 DEF Intact
      <4> QED BY <2>2, <4>1 DEF TornTail, Last
    <3> QED BY <3>1, <3>2
  <2>4. Complete' = Complete
    BY <2>1, <2>2, <2>3 DEF Complete
  <2>5. Intact'
    BY <2>1, <2>2, <2>4 DEF Intact
  <2>6. StoredRows' = {rowsFile'[i].row : i \in 1..n}
    <3>1. {j \in DOMAIN rowsFile' : rowsFile'[j].form \in {"whole", "bare"}} = 1..n
      BY <2>1, <2>2 DEF Intact
    <3> QED BY <3>1 DEF StoredRows
  <2>7. StoredRows = {rowsFile[i].row : i \in 1..n}
    BY <2>1, StoredAreComplete
  <2> QED BY <2>1, <2>2, <2>3, <2>4, <2>5, <2>6, <2>7
<1> QED BY <1>2, <1>3

(* A step that adds to the file, and cuts only torn lines, leaves another   *)
(* run with what it relies on.                                              *)
LEMMA OtherRun ==
    ASSUME NEW q \in Runs, RunInv(q), RowsTypeOK,
           step'[q] = step[q], load'[q] = load[q], runIdentity'[q] = runIdentity[q], cut'[q] = cut[q],
           rows'[q] = rows[q], fold'[q] = fold[q], result'[q] = result[q],
           StoredRows \subseteq StoredRows', acked \subseteq acked', Complete =< Complete', Complete' \in Nat,
           Inside(q) => Complete' = Complete /\ (TornTail' => TornTail)
    PROVE  RunInv(q)'
<1>1. Complete \in Nat /\ cut[q] \in Nat
  BY FileFacts DEF RowsTypeOK
<1>2. Inside(q)' <=> Inside(q)
  BY DEF Inside
<1>3. OwnRow(q)' = OwnRow(q) /\ Completed(q)' = Completed(q)
  BY DEF OwnRow, Completed
<1> QED BY <1>1, <1>2, <1>3 DEF RunInv

-----------------------------------------------------------------------------
(* The lock, step by step.                                                  *)

(* A step of one run that leaves the lock file and the number of the one it *)
(* made alone; it keeps the lock, or is gone, or was not inside.            *)
LEMMA LockStays ==
    ASSUME LockInv, NEW p \in Runs, NEW s, DOMAIN step = Runs,
           step' = [step EXCEPT ![p] = s],
           \A q \in Runs : q # p => load'[q] = load[q],
           UNCHANGED <<lockFile, inodes, inode>>, overtaken' = overtaken,
           ~Gone(p), s \notin {"recheck", "recover", "own"},
           IF Owns(p) THEN s \in {"dead", "ended"} \/ (Inside(p) /\ Owns(p)') ELSE ~Owns(p)'
    PROVE  LockInv'
<1>1. step'[p] = s /\ \A q \in Runs : q # p => step'[q] = step[q]
  OBVIOUS
<1>2. /\ \A q \in Runs : q # p => (Owns(q)' <=> Owns(q)) /\ (Gone(q)' <=> Gone(q))
      /\ Owns(p)' => Owns(p) /\ step[p] # "own"
  BY <1>1 DEF Owns, Inside, Gone
<1>3. \A q \in Runs : Gone(q) => Gone(q)'
  BY <1>1, <1>2 DEF Gone
<1>4. Owns(p) => Gone(p)' \/ (Owns(p)' /\ step[p] # "own")
  BY <1>1 DEF Owns, Inside, Gone
<1>5. lockFile' = NoLock \/ (lockFile'.inode \in 1..inodes' /\ lockFile'.owner \in Runs)
  BY DEF LockInv
<1>6. \A q \in Runs : Owns(q)' \/ step'[q] \in {"recheck", "recover"} => inode'[q] \in 1..inodes'
  BY <1>1, <1>2 DEF LockInv
<1>7. \A q, r \in Runs : Owns(q)' /\ Owns(r)' /\ q # r => inode'[q] # inode'[r]
  BY <1>2 DEF LockInv
<1>8. \A q \in Runs : Owns(q)' /\ lockFile'.inode = inode'[q] => lockFile'.owner = q
  BY <1>2 DEF LockInv
<1>9. ASSUME NEW q \in Runs, lockFile'.owner = q
      PROVE  \/ Gone(q)'
             \/ /\ Owns(q)' /\ inode'[q] = lockFile'.inode /\ ~lockFile'.old
                /\ lockFile'.written \/ step'[q] = "own"
  <2>1. \/ Gone(q)
        \/ Owns(q) /\ inode[q] = lockFile.inode /\ ~lockFile.old /\ (lockFile.written \/ step[q] = "own")
    BY <1>9 DEF LockInv
  <2> QED BY <1>1, <1>2, <1>3, <1>4, <2>1
<1>10. \A q, r \in Runs : step'[r] = "recover" /\ lockFile'.inode = inode'[r] /\ lockFile'.owner = q => Gone(q)'
  BY <1>1, <1>3 DEF LockInv
<1>11. overtaken' \/ \A q \in Runs : Owns(q)' => lockFile'.inode = inode'[q]
  BY <1>2 DEF LockInv
<1> QED BY <1>5, <1>6, <1>7, <1>8, <1>9, <1>10, <1>11 DEF LockInv

(* A new lock file has an inode that no other has.                          *)
LEMMA MakeLockIsNew ==
    ASSUME RowsTypeOK, LockInv, NEW p \in Runs, MakeLock(p)
    PROVE  LockInv'
<1>1. /\ lockFile = NoLock /\ inodes \in Nat /\ inodes' = inodes + 1
      /\ lockFile'.inode = inodes + 1 /\ lockFile'.owner = p /\ ~lockFile'.old
      /\ step[p] = "lock" /\ step'[p] = "own" /\ inode'[p] = inodes + 1
      /\ \A q \in Runs : q # p => step'[q] = step[q] /\ inode'[q] = inode[q]
      /\ load' = load /\ overtaken' = overtaken
  BY DEF MakeLock, RowsTypeOK, At, To, rowsHistory
<1>2. NoLock.inode = 0 /\ NoLock.owner \notin Runs
  BY NoRunAssumption DEF NoLock
<1>3. Owns(p)' /\ \A q \in Runs : q # p => (Owns(q)' <=> Owns(q)) /\ (Gone(q)' <=> Gone(q))
  BY <1>1 DEF Owns, Inside, Gone
<1>4. \A q \in Runs : q # p /\ (Owns(q)' \/ step'[q] \in {"recheck", "recover"}) => inode'[q] \in 1..inodes
  BY <1>1, <1>3 DEF LockInv
<1>5. lockFile'.inode \in 1..inodes' /\ lockFile'.owner \in Runs
  BY <1>1
<1>6. \A q \in Runs : Owns(q)' \/ step'[q] \in {"recheck", "recover"} => inode'[q] \in 1..inodes'
  BY <1>1, <1>4
<1>7. \A q, r \in Runs : Owns(q)' /\ Owns(r)' /\ q # r => inode'[q] # inode'[r]
  <2>1. \A q \in Runs : q # p /\ Owns(q)' => inode'[q] # inode'[p]
    BY <1>1, <1>4
  <2> QED BY <1>1, <1>3, <2>1 DEF LockInv
<1>8. \A q \in Runs : Owns(q)' /\ lockFile'.inode = inode'[q] => lockFile'.owner = q
  BY <1>1, <1>4
<1>9. \A q \in Runs : lockFile'.owner = q => q = p
  BY <1>1
<1>10. \A r \in Runs : ~(step'[r] = "recover" /\ lockFile'.inode = inode'[r])
  BY <1>1, <1>4
<1>11. overtaken' \/ \A q \in Runs : Owns(q)' => lockFile'.inode = inode'[q]
  <2>1. overtaken \/ \A q \in Runs : ~Owns(q)
    <3>1. \A q \in Runs : Owns(q) => inode[q] # 0
      BY <1>1 DEF LockInv
    <3> QED BY <1>1, <1>2, <3>1 DEF LockInv
  <2> QED BY <1>1, <1>3, <2>1
<1>12. inode'[p] = lockFile'.inode /\ step'[p] = "own" /\ ~lockFile'.old
  BY <1>1
<1> QED BY <1>3, <1>5, <1>6, <1>7, <1>8, <1>9, <1>10, <1>11, <1>12 DEF LockInv

(* The owner is written into the file of this run, or nowhere.              *)
LEMMA OwnLockIsOwn ==
    ASSUME RowsTypeOK, LockInv, NEW p \in Runs, OwnLock(p)
    PROVE  LockInv'
<1>1. CASE Fails(p, "os") /\ UNCHANGED lockFile
  <2>1. /\ step' = [step EXCEPT ![p] = "ended"] /\ step[p] = "own" /\ load' = load
        /\ UNCHANGED <<lockFile, inodes, inode>> /\ overtaken' = overtaken
    BY <1>1 DEF OwnLock, Fails, At, To, rowsHistory
  <2>2. DOMAIN step = Runs /\ ~Gone(p) /\ Owns(p)
    BY <2>1 DEF RowsTypeOK, Gone, Owns
  <2> QED BY <2>1, <2>2, LockStays
<1>2. CASE /\ lockFile' = IF lockFile.inode = inode[p] THEN [lockFile EXCEPT !.written = TRUE] ELSE lockFile
           /\ To(p, "read")
           /\ load' = [load EXCEPT ![p] = "write"]
           /\ UNCHANGED <<inode, cut, rows, fold>> /\ Keeps
  <2>1. /\ step[p] = "own" /\ step'[p] = "read" /\ load'[p] = "write"
        /\ \A q \in Runs : q # p => step'[q] = step[q] /\ load'[q] = load[q]
        /\ inode' = inode /\ inodes' = inodes /\ overtaken' = overtaken
    BY <1>2 DEF OwnLock, RowsTypeOK, At, To, rowsHistory
  <2>2. Owns(p) /\ Owns(p)' /\ ~Gone(p)
        /\ \A q \in Runs : q # p => (Owns(q)' <=> Owns(q)) /\ (Gone(q)' <=> Gone(q))
    BY <2>1 DEF Owns, Inside, Gone
  <2>3. /\ lockFile'.inode = lockFile.inode /\ lockFile'.owner = lockFile.owner /\ lockFile'.old = lockFile.old
        /\ lockFile = NoLock => lockFile' = NoLock
        /\ lockFile.inode = inode[p] => lockFile'.written
        /\ lockFile.inode # inode[p] => lockFile'.written = lockFile.written
    <3>1. lockFile \in LockFiles
      BY DEF RowsTypeOK
    <3>2. NoLock.inode = 0 /\ inode[p] # 0
      BY <2>2 DEF NoLock, LockInv, RowsTypeOK
    <3> QED BY <1>2, <3>1, <3>2 DEF LockFiles
  <2>4. lockFile' = NoLock \/ (lockFile'.inode \in 1..inodes' /\ lockFile'.owner \in Runs)
    BY <2>1, <2>3 DEF LockInv
  <2>5. \A q \in Runs : Owns(q)' \/ step'[q] \in {"recheck", "recover"} => inode'[q] \in 1..inodes'
    BY <2>1, <2>2 DEF LockInv
  <2>6. \A q, r \in Runs : Owns(q)' /\ Owns(r)' /\ q # r => inode'[q] # inode'[r]
    BY <2>1, <2>2 DEF LockInv
  <2>7. \A q \in Runs : Owns(q)' /\ lockFile'.inode = inode'[q] => lockFile'.owner = q
    BY <2>1, <2>2, <2>3 DEF LockInv
  <2>8. ASSUME NEW q \in Runs, lockFile'.owner = q
        PROVE  \/ Gone(q)'
               \/ /\ Owns(q)' /\ inode'[q] = lockFile'.inode /\ ~lockFile'.old
                  /\ lockFile'.written \/ step'[q] = "own"
    <3>1. \/ Gone(q)
          \/ Owns(q) /\ inode[q] = lockFile.inode /\ ~lockFile.old /\ (lockFile.written \/ step[q] = "own")
      BY <2>3, <2>8 DEF LockInv
    <3>2. CASE q = p
      BY <2>1, <2>2, <2>3, <3>1, <3>2
    <3>3. CASE q # p
      <4>1. CASE Gone(q)
        BY <2>2, <3>3, <4>1
      <4>2. CASE ~Gone(q)
        <5>1. inode[q] # inode[p]
          BY <2>2, <3>1, <3>3, <4>2 DEF LockInv
        <5> QED BY <2>1, <2>2, <2>3, <3>1, <3>3, <4>2, <5>1
      <4> QED BY <4>1, <4>2
    <3> QED BY <3>2, <3>3
  <2>9. \A q, r \in Runs : step'[r] = "recover" /\ lockFile'.inode = inode'[r] /\ lockFile'.owner = q => Gone(q)'
    BY <2>1, <2>2, <2>3 DEF LockInv
  <2>10. overtaken' \/ \A q \in Runs : Owns(q)' => lockFile'.inode = inode'[q]
    BY <2>1, <2>2, <2>3 DEF LockInv
  <2> QED BY <2>4, <2>5, <2>6, <2>7, <2>8, <2>9, <2>10 DEF LockInv
<1> QED BY <1>1, <1>2 DEF OwnLock

(* A lock file that may be recovered has no owner left.                     *)
LEMMA RecoverableIsGone ==
    ASSUME RowsTypeOK, LockInv, lockFile # NoLock, Recoverable(lockFile)
    PROVE  lockFile.owner \in Runs /\ Gone(lockFile.owner)
<1>1. lockFile.owner \in Runs
  BY DEF LockInv
<1>2. CASE lockFile.written
  BY <1>1, <1>2 DEF Recoverable, At, Gone
<1>3. CASE ~lockFile.written
  <2>1. lockFile.old
    BY <1>3 DEF Recoverable
  <2> QED BY <1>1, <2>1 DEF LockInv
<1> QED BY <1>1, <1>2, <1>3

LEMMA InspectLockIsOld ==
    ASSUME RowsTypeOK, LockInv, NEW p \in Runs, InspectLock(p)
    PROVE  LockInv'
<1>1. /\ step[p] = "lock" /\ lockFile # NoLock /\ lockFile' = lockFile /\ inodes' = inodes
      /\ step'[p] = "recheck" /\ inode'[p] = lockFile.inode
      /\ \A q \in Runs : q # p => step'[q] = step[q] /\ inode'[q] = inode[q]
      /\ load' = load /\ overtaken' = overtaken
  BY DEF InspectLock, RowsTypeOK, At, To, lockVars, rowsHistory
<1>2. /\ ~Owns(p) /\ ~Owns(p)' /\ ~Gone(p)
      /\ \A q \in Runs : q # p => (Owns(q)' <=> Owns(q)) /\ (Gone(q)' <=> Gone(q))
  BY <1>1 DEF Owns, Inside, Gone
<1>3. \A q \in Runs : Owns(q)' \/ step'[q] \in {"recheck", "recover"} => inode'[q] \in 1..inodes'
  BY <1>1, <1>2 DEF LockInv
<1>4. \A q \in Runs : lockFile'.owner = q =>
        \/ Gone(q)'
        \/ /\ Owns(q)' /\ inode'[q] = lockFile'.inode /\ ~lockFile'.old
           /\ lockFile'.written \/ step'[q] = "own"
  BY <1>1, <1>2 DEF LockInv
<1>5. \A q, r \in Runs : step'[r] = "recover" /\ lockFile'.inode = inode'[r] /\ lockFile'.owner = q => Gone(q)'
  BY <1>1, <1>2 DEF LockInv
<1> QED BY <1>1, <1>2, <1>3, <1>4, <1>5 DEF LockInv

LEMMA RecheckLockIsSame ==
    ASSUME RowsTypeOK, LockInv, NEW p \in Runs, RecheckLock(p)
    PROVE  LockInv'
<1>1. /\ step[p] = "recheck" /\ step'[p] \in {"recover", "lock"}
      /\ step'[p] = "recover" => lockFile.inode = inode[p] /\ Recoverable(lockFile)
      /\ \A q \in Runs : q # p => step'[q] = step[q]
      /\ UNCHANGED <<lockFile, inodes, inode, load, overtaken>>
  BY DEF RecheckLock, RowsTypeOK, At, To, lockVars, local, rowsHistory
<1>2. /\ ~Owns(p) /\ ~Owns(p)' /\ ~Gone(p)
      /\ \A q \in Runs : q # p => (Owns(q)' <=> Owns(q)) /\ (Gone(q)' <=> Gone(q))
  BY <1>1 DEF Owns, Inside, Gone
<1>3. step'[p] = "recover" => Gone(lockFile.owner)
  <2>1. NoLock.inode = 0 /\ inode[p] \in Nat /\ inode[p] # 0
    BY <1>1 DEF NoLock, LockInv, RowsTypeOK
  <2> QED BY <1>1, <2>1, RecoverableIsGone
<1>4. \A q \in Runs : Owns(q)' \/ step'[q] \in {"recheck", "recover"} => inode'[q] \in 1..inodes'
  BY <1>1, <1>2 DEF LockInv
<1>5. \A q \in Runs : lockFile'.owner = q =>
        \/ Gone(q)'
        \/ /\ Owns(q)' /\ inode'[q] = lockFile'.inode /\ ~lockFile'.old
           /\ lockFile'.written \/ step'[q] = "own"
  BY <1>1, <1>2 DEF LockInv
<1>6. ASSUME NEW q \in Runs, NEW r \in Runs,
             step'[r] = "recover", lockFile'.inode = inode'[r], lockFile'.owner = q
      PROVE  Gone(q)'
  <2>1. Gone(q)
    BY <1>1, <1>3, <1>6 DEF LockInv
  <2> QED BY <1>2, <2>1
<1> QED BY <1>1, <1>2, <1>4, <1>5, <1>6 DEF LockInv

(* A lock file goes: nobody is inside any more, or the recovery met another *)
(* file than it had inspected.                                              *)
LEMMA RecoverLockIsGone ==
    ASSUME RowsTypeOK, LockInv, NEW p \in Runs, RecoverLock(p)
    PROVE  LockInv'
<1>1. /\ step[p] = "recover" /\ step'[p] = "lock"
      /\ lockFile' = NoLock
      /\ overtaken' = (overtaken \/ lockFile.inode \notin {0, inode[p]})
      /\ \A q \in Runs : q # p => step'[q] = step[q]
      /\ UNCHANGED <<inodes, inode, load>>
  BY DEF RecoverLock, RowsTypeOK, At, To, local
<1>2. /\ ~Owns(p) /\ ~Owns(p)'
      /\ \A q \in Runs : q # p => (Owns(q)' <=> Owns(q)) /\ (Gone(q)' <=> Gone(q))
  BY <1>1 DEF Owns, Inside, Gone
<1>3. NoLock.inode = 0 /\ NoLock.owner \notin Runs
  BY NoRunAssumption DEF NoLock
<1>4. \A q \in Runs : Owns(q)' \/ step'[q] \in {"recheck", "recover"} => inode'[q] \in 1..inodes' /\ inode'[q] # 0
  BY <1>1, <1>2 DEF LockInv, RowsTypeOK
<1>5. ASSUME ~overtaken', NEW q \in Runs, Owns(q)' PROVE FALSE
  <2>1. Owns(q) /\ inode[q] # 0
    BY <1>1, <1>2, <1>4, <1>5
  <2>2. ~overtaken /\ lockFile.inode \in {0, inode[p]}
    BY <1>1, <1>5
  <2>3. lockFile.inode = inode[q] /\ lockFile.owner = q /\ lockFile.inode = inode[p]
    BY <2>1, <2>2, <1>5 DEF LockInv
  <2>4. Gone(q)
    BY <1>1, <2>3 DEF LockInv
  <2> QED BY <2>1, <2>4 DEF Owns, Inside, Gone
<1>6. \A q, r \in Runs : Owns(q)' /\ Owns(r)' /\ q # r => inode'[q] # inode'[r]
  BY <1>1, <1>2 DEF LockInv
<1> QED BY <1>1, <1>3, <1>4, <1>5, <1>6 DEF LockInv

LEMMA ReleaseLockIsOwn ==
    ASSUME RowsTypeOK, LockInv, NEW p \in Runs, ReleaseLock(p), load[p] = "write"
    PROVE  LockInv'
<1>1. /\ step[p] = "release" /\ step'[p] \in {"read", "ended"}
      /\ step'[p] = "read" => load'[p] = "reload"
      /\ lockFile' = IF lockFile.inode = inode[p] THEN NoLock ELSE lockFile
      /\ \A q \in Runs : q # p => step'[q] = step[q] /\ load'[q] = load[q]
      /\ UNCHANGED <<inodes, inode, overtaken>>
  BY DEF ReleaseLock, RowsTypeOK, At, To
<1>2. /\ Owns(p) /\ ~Owns(p)'
      /\ \A q \in Runs : q # p => (Owns(q)' <=> Owns(q)) /\ (Gone(q)' <=> Gone(q))
  BY <1>1 DEF Owns, Inside, Gone
<1>3. NoLock.inode = 0 /\ NoLock.owner \notin Runs
  BY NoRunAssumption DEF NoLock
<1>4. \A q \in Runs : Owns(q)' \/ step'[q] \in {"recheck", "recover"} => inode'[q] \in 1..inodes' /\ inode'[q] # 0
  BY <1>1, <1>2 DEF LockInv, RowsTypeOK
<1>5. \A q, r \in Runs : Owns(q)' /\ Owns(r)' /\ q # r => inode'[q] # inode'[r]
  BY <1>1, <1>2 DEF LockInv
<1>6. CASE lockFile.inode = inode[p]
  <2>1. lockFile' = NoLock
    BY <1>1, <1>6
  <2>2. overtaken' \/ \A q \in Runs : ~Owns(q)'
    BY <1>1, <1>2, <1>6 DEF LockInv
  <2> QED BY <1>3, <1>4, <1>5, <2>1, <2>2 DEF LockInv
<1>7. CASE lockFile.inode # inode[p]
  <2>1. lockFile' = lockFile
    BY <1>1, <1>7
  <2>2. \A q \in Runs : Owns(q)' /\ lockFile'.inode = inode'[q] => lockFile'.owner = q
    BY <1>1, <1>2, <2>1 DEF LockInv
  <2>3. lockFile.owner = p => Gone(p)'
    BY <1>1, <1>2, <1>7 DEF LockInv, Gone
  <2>4. \A q \in Runs : lockFile'.owner = q =>
          \/ Gone(q)'
          \/ /\ Owns(q)' /\ inode'[q] = lockFile'.inode /\ ~lockFile'.old
             /\ lockFile'.written \/ step'[q] = "own"
    BY <1>1, <1>2, <2>1, <2>3 DEF LockInv
  <2>5. \A q, r \in Runs : step'[r] = "recover" /\ lockFile'.inode = inode'[r] /\ lockFile'.owner = q => Gone(q)'
    BY <1>1, <1>2, <2>1, <2>3 DEF LockInv
  <2>6. overtaken' \/ \A q \in Runs : Owns(q)' => lockFile'.inode = inode'[q]
    BY <1>1, <1>2, <2>1 DEF LockInv
  <2>7. lockFile' = NoLock \/ (lockFile'.inode \in 1..inodes' /\ lockFile'.owner \in Runs)
    BY <1>1, <2>1 DEF LockInv
  <2> QED BY <1>4, <1>5, <2>2, <2>4, <2>5, <2>6, <2>7 DEF LockInv
<1> QED BY <1>6, <1>7

(* Only a lock file whose owner is gone grows old without metadata.         *)
LEMMA LockAgesAlone ==
    ASSUME RowsTypeOK, LockInv, LockAges
    PROVE  LockInv'
<1>1. /\ lockFile # NoLock /\ ~lockFile.written /\ step[lockFile.owner] # "own"
      /\ lockFile'.inode = lockFile.inode /\ lockFile'.owner = lockFile.owner
      /\ UNCHANGED <<inodes, step, load, inode, overtaken>>
  BY DEF LockAges, RowsTypeOK, LockFiles, local, rowsHistory
<1>2. lockFile.owner \in Runs /\ Gone(lockFile.owner) /\ lockFile.inode \in 1..inodes
  BY <1>1 DEF LockInv
<1>3. \A q \in Runs : (Owns(q)' <=> Owns(q)) /\ (Gone(q)' <=> Gone(q))
  BY <1>1 DEF Owns, Inside, Gone
<1>4. \A q \in Runs : lockFile'.owner = q => Gone(q)'
  BY <1>1, <1>2, <1>3
<1> QED BY <1>1, <1>2, <1>3, <1>4 DEF LockInv


-----------------------------------------------------------------------------
(* The types and the progress of the runs.                                  *)

LEMMA RowsInitInv ==
    ASSUME RowsInit
    PROVE  RowsInv
<1>1. RowsTypeOK
  <2>1. lockFile \in LockFiles
    BY DEF RowsInit, NoLock, LockFiles
  <2>2. rowsFile \in Seq([row : FoldRows, form : Forms])
    BY DEF RowsInit
  <2>3. /\ payload \in {<<"none">>, <<"part">>} /\ inodes \in Nat /\ acked \subseteq FoldRows
        /\ overtaken \in BOOLEAN /\ unlockedCut \in BOOLEAN /\ grown \in BOOLEAN
    BY DEF RowsInit
  <2>4. /\ load \in [Runs -> {"begin", "write", "reload"}]
        /\ runIdentity \in [Runs -> RunIdentities]
        /\ inode \in [Runs -> Nat] /\ cut \in [Runs -> Nat]
        /\ rows \in [Runs -> SUBSET FoldRows]
        /\ result \in [Runs -> {"none", "done", "timeout", "os", "gap", "damaged"}]
    BY DEF RowsInit
  <2>5. fold \in [Runs -> 1..(Folds + 1)]
    BY FoldsAssumption DEF RowsInit
  <2>6. step \in [Runs -> {"begin"}]
    BY DEF RowsInit
  <2> QED BY <2>1, <2>2, <2>3, <2>4, <2>5, <2>6 DEF RowsTypeOK
<1>2. ProgressInv
  BY FoldsAssumption DEF RowsInit, ProgressInv
<1>3. \A p \in Runs : ~Owns(p) /\ ~Gone(p) /\ lockFile.owner # p /\ step[p] = "begin"
  BY NoRunAssumption DEF RowsInit, NoLock, Owns, Inside, Gone
<1>4. LockInv
  BY <1>3 DEF RowsInit, LockInv
<1>5. FileInv
  <2>1. ~TornTail /\ Complete = 0
    BY DEF RowsInit, TornTail, Complete
  <2>2. \A p \in Runs : RunInv(p)
    BY <1>3 DEF RowsInit, RunInv, Inside
  <2> QED BY <2>1, <2>2 DEF RowsInit, FileInv, Intact
<1> QED BY <1>1, <1>2, <1>4, <1>5 DEF RowsInv

LEMMA OwnRowIsRow ==
    ASSUME RowsTypeOK, NEW p \in Runs, fold[p] =< Folds
    PROVE  OwnRow(p) \in FoldRows /\ OwnRow(p).run_identity = runIdentity[p] /\ OwnRow(p).fold = fold[p]
<1>1. fold[p] \in 1..Folds
  BY FoldsAssumption DEF RowsTypeOK
<1> QED BY <1>1 DEF OwnRow, FoldRows, RowsTypeOK

LEMMA StoredAreRows ==
    ASSUME RowsTypeOK
    PROVE  StoredRows \subseteq FoldRows
<1>1. rowsFile \in Seq(Lines) /\ DOMAIN rowsFile = 1..Len(rowsFile)
  BY FileFacts
<1>2. \A i \in DOMAIN rowsFile : rowsFile[i].row \in FoldRows
  <2>1. \A i \in DOMAIN rowsFile : rowsFile[i] \in Lines
    BY <1>1
  <2> QED BY <2>1 DEF Lines
<1> QED BY <1>2 DEF StoredRows

LEMMA TypeKept ==
    ASSUME RowsTypeOK, ProgressInv, NEW p \in Runs, RowsStep(p) \/ Die(p)
    PROVE  RowsTypeOK'
<1> USE DEF RowsTypeOK, At, To
<1>1. CASE BeginRun(p)
  BY <1>1 DEF BeginRun, rowsDisk, lockVars, local, rowsHistory
<1>2. CASE ReadRows(p)
  <2>1. StoredRows \in SUBSET FoldRows
    BY StoredAreRows
  <2>2. TornTail => Len(rowsFile) - 1 \in Nat
    BY FileFacts
  <2>6. \E n \in Nat : cut' = cut \/ cut' = [cut EXCEPT ![p] = n]
    <3>1. cut' = cut \/ cut' = [cut EXCEPT ![p] = IF TornTail THEN Len(rowsFile) - 1 ELSE 0]
      BY <1>2 DEF ReadRows
    <3> QED BY <2>2, <3>1
  <2>3. \E s \in {"release", "ended", "truncate", "loaded"} : step' = [step EXCEPT ![p] = s]
    BY <1>2 DEF ReadRows
  <2>4. /\ result' \in [Runs -> {"none", "done", "timeout", "os", "gap", "damaged"}]
        /\ rows' \in [Runs -> SUBSET FoldRows]
    BY <1>2, <2>1 DEF ReadRows
  <2>5. cut' \in [Runs -> Nat]
    BY <2>6
  <2> QED BY <1>2, <2>3, <2>4, <2>5 DEF ReadRows, rowsDisk, lockVars, rowsHistory
<1>3. CASE TruncateRows(p)
  <2>1. fold[p] =< Folds
    BY <1>3 DEF TruncateRows, ProgressInv
  <2>2. OwnRow(p) \in FoldRows
    BY <2>1, OwnRowIsRow
  <2>3. rowsFile' \in Seq(Lines)
    <3>1. CASE cut[p] =< Len(rowsFile)
      <4>1. SubSeq(rowsFile, 1, cut[p]) \in Seq(Lines)
        BY <3>1, FileFacts
      <4> QED BY <1>3, <3>1, <4>1 DEF TruncateRows
    <3>2. CASE ~(cut[p] =< Len(rowsFile))
      <4>1. Written(OwnRow(p), "torn") \in Seq(Lines)
        BY <2>2, WrittenBehind
      <4> QED BY <1>3, <3>2, <4>1 DEF TruncateRows
    <3> QED BY <3>1, <3>2
  <2>4. cut' \in [Runs -> Nat] /\ unlockedCut' \in BOOLEAN
    BY <1>3 DEF TruncateRows
  <2> QED BY <1>3, <2>3, <2>4 DEF TruncateRows, lockVars, Lines
<1>4. CASE UseRows(p)
  <2>1. Folds \in Nat \ {0}
    BY FoldsAssumption
  <2>2. NextFold(p, 1) \in 1..(Folds + 1)
    BY <2>1, NextFoldIsFirst
  <2>3. fold' \in [Runs -> 1..(Folds + 1)] /\ acked' = acked
    BY <1>4, <2>2 DEF UseRows
  <2>4. \E s \in {"aggregate", "lock", "release", "append"} : step' = [step EXCEPT ![p] = s]
    BY <1>4 DEF UseRows
  <2> QED BY <1>4, <2>3, <2>4 DEF UseRows, Keeps, rowsDisk, lockVars
<1>5. CASE Aggregate(p)
  BY <1>5 DEF Aggregate, Fails, lockVars, local, rowsHistory
<1>6. CASE FillPayload(p)
  <2>1. payload' \in {<<"rows", s>> : s \in SUBSET FoldRows}
    BY <1>6 DEF FillPayload
  <2>2. Folds \in Nat \ {0}
    BY FoldsAssumption
  <2>3. fold' \in [Runs -> 1..(Folds + 1)]
    <3>1. CASE fold[p] =< Folds
      <4>3. fold[p] + 1 \in 1..(Folds + 1)
        BY <2>2, <3>1
      <4>1. NextFold(p, fold[p] + 1) \in (fold[p] + 1)..(Folds + 1)
        BY <4>3, NextFoldIsFirst
      <4>2. NextFold(p, fold[p] + 1) \in 1..(Folds + 1)
        BY <2>2, <4>3, <4>1
      <4> QED BY <1>6, <4>2 DEF FillPayload, Fails
    <3>2. CASE ~(fold[p] =< Folds)
      BY <1>6, <3>2 DEF FillPayload, Fails
    <3> QED BY <3>1, <3>2
  <2> QED BY <1>6, <2>1, <2>3 DEF FillPayload, Fails, lockVars, rowsHistory
<1>7. CASE MakeLock(p)
  <2>1. lockFile' \in LockFiles
    BY <1>7 DEF MakeLock, LockFiles
  <2> QED BY <1>7, <2>1 DEF MakeLock, Keeps, rowsDisk, rowsHistory
<1>8. CASE OwnLock(p)
  <2>1. lockFile' \in LockFiles
    BY <1>8, ZenonT(30) DEF OwnLock, LockFiles
  <2> QED BY <1>8, <2>1 DEF OwnLock, Fails, Keeps, rowsDisk, rowsHistory
<1>9. CASE LockTimeout(p)
  BY <1>9 DEF LockTimeout, Fails, rowsDisk, lockVars, rowsHistory
<1>10. CASE InspectLock(p)
  <2>1. lockFile.inode \in Nat
    BY DEF LockFiles
  <2> QED BY <1>10, <2>1 DEF InspectLock, Keeps, rowsDisk, lockVars, rowsHistory
<1>11. CASE RecheckLock(p)
  BY <1>11 DEF RecheckLock, rowsDisk, lockVars, local, rowsHistory
<1>12. CASE RecoverLock(p)
  <2>1. NoLock \in LockFiles
    BY DEF NoLock, LockFiles
  <2> QED BY <1>12, <2>1 DEF RecoverLock, rowsDisk, local
<1>13. CASE AppendRow(p)
  <2>1. OwnRow(p) \in FoldRows
    <3>1. fold[p] =< Folds
      BY <1>13 DEF AppendRow, ProgressInv
    <3> QED BY <3>1, OwnRowIsRow
  <2>2. PICK form \in {"whole", "bare", "torn"} :
          /\ rowsFile' = Written(OwnRow(p), form)
          /\ result' = [result EXCEPT ![p] = IF form = "whole" THEN @ ELSE "os"]
    BY <1>13 DEF AppendRow
  <2>3. rowsFile' \in Seq(Lines)
    BY <2>1, <2>2, WrittenBehind
  <2>4. grown' \in BOOLEAN
    BY <1>13 DEF AppendRow, Grows
  <2>5. result' \in [Runs -> {"none", "done", "timeout", "os", "gap", "damaged"}]
    BY <2>2
  <2> QED BY <1>13, <2>3, <2>4, <2>5 DEF AppendRow, lockVars, Lines
<1>14. CASE ReleaseLock(p)
  <2>1. lockFile' \in LockFiles
    BY <1>14 DEF ReleaseLock, NoLock, LockFiles
  <2>2. acked' \subseteq FoldRows
    <3>1. OwnRow(p) \in FoldRows
      <4>1. fold[p] =< Folds
        BY <1>14 DEF ReleaseLock, ProgressInv
      <4> QED BY <4>1, OwnRowIsRow
    <3> QED BY <1>14, <3>1 DEF ReleaseLock
  <2> QED BY <1>14, <2>1, <2>2 DEF ReleaseLock, Keeps, rowsDisk
<1>15. CASE Die(p)
  <2>1. rowsFile' \in Seq(Lines) /\ grown' \in BOOLEAN
    <3>1. CASE UNCHANGED <<rowsFile, grown>>
      BY <3>1, FileFacts
    <3>2. CASE /\ step[p] = "append"
               /\ \E form \in {"bare", "torn"} : rowsFile' = Written(OwnRow(p), form)
               /\ Grows
      <4>1. OwnRow(p) \in FoldRows
        <5>1. fold[p] =< Folds
          BY <3>2 DEF ProgressInv
        <5> QED BY <5>1, OwnRowIsRow
      <4>2. PICK form \in {"bare", "torn"} : rowsFile' = Written(OwnRow(p), form)
        BY <3>2
      <4>3. rowsFile' \in Seq(Lines)
        BY <4>1, <4>2, WrittenBehind
      <4> QED BY <3>2, <4>3 DEF Grows
    <3> QED BY <1>15, <3>1, <3>2 DEF Die
  <2> QED BY <1>15, <2>1 DEF Die, lockVars, local, Lines
<1> QED BY <1>1, <1>2, <1>3, <1>4, <1>5, <1>6, <1>7, <1>8, <1>9, <1>10, <1>11, <1>12, <1>13, <1>14, <1>15
        DEF RowsStep

OthersStay(p) ==
    \A q \in Runs : q # p =>
      /\ step'[q] = step[q] /\ load'[q] = load[q] /\ runIdentity'[q] = runIdentity[q] /\ cut'[q] = cut[q]
      /\ rows'[q] = rows[q] /\ fold'[q] = fold[q] /\ result'[q] = result[q]

LEMMA OthersKept ==
    ASSUME RowsTypeOK, NEW p \in Runs, RowsStep(p) \/ Die(p)
    PROVE  OthersStay(p)
<1> USE DEF RowsTypeOK, To, OthersStay
<1>1. CASE BeginRun(p) \/ ReadRows(p) \/ TruncateRows(p)
  BY <1>1 DEF BeginRun, ReadRows, TruncateRows, local
<1>2. CASE UseRows(p) \/ Aggregate(p) \/ FillPayload(p)
  BY <1>2 DEF UseRows, Aggregate, FillPayload, Fails, Keeps, local
<1>3. CASE MakeLock(p) \/ OwnLock(p) \/ LockTimeout(p) \/ InspectLock(p)
  BY <1>3 DEF MakeLock, OwnLock, LockTimeout, InspectLock, Fails, Keeps
<1>4. CASE RecheckLock(p) \/ RecoverLock(p) \/ AppendRow(p) \/ ReleaseLock(p) \/ Die(p)
  BY <1>4 DEF RecheckLock, RecoverLock, AppendRow, ReleaseLock, Die, Keeps, local
<1> QED BY <1>1, <1>2, <1>3, <1>4 DEF RowsStep

LEMMA ProgressKept ==
    ASSUME RowsTypeOK, ProgressInv, NEW p \in Runs, RowsStep(p) \/ Die(p)
    PROVE  ProgressInv'
<1>1. OthersStay(p)
  BY OthersKept
<1>2. /\ step'[p] \notin {"aggregate", "fill", "ended", "dead"} => fold'[p] =< Folds
      /\ result'[p] = "done" => step'[p] = "ended"
      /\ step'[p] = "begin" => load'[p] = "begin"
      /\ step'[p] \in {"append", "release"} => load'[p] = "write"
  <2>0. /\ step[p] \notin {"aggregate", "fill", "ended", "dead"} => fold[p] =< Folds
        /\ result[p] = "done" => step[p] = "ended"
        /\ step[p] = "begin" => load[p] = "begin"
        /\ step[p] \in {"append", "release"} => load[p] = "write"
    BY DEF ProgressInv
  <2> USE DEF RowsTypeOK, At, To
  <2>1. CASE BeginRun(p) \/ ReadRows(p) \/ TruncateRows(p)
    BY <2>0, <2>1 DEF BeginRun, ReadRows, TruncateRows, local
  <2>2. CASE UseRows(p)
    <3>1. Folds \in Nat /\ fold'[p] \in Nat
      BY <2>2, TypeKept, FoldsAssumption DEF RowsStep
    <3>2. CASE load[p] = "begin"
      BY <2>0, <2>2, <3>1, <3>2 DEF UseRows, Keeps
    <3>3. CASE load[p] = "reload"
      BY <2>0, <2>2, <3>3 DEF UseRows, Keeps
    <3>4. CASE load[p] = "write"
      BY <2>0, <2>2, <3>4 DEF UseRows, Keeps
    <3> QED BY <3>2, <3>3, <3>4
  <2>3. CASE Aggregate(p) \/ LockTimeout(p)
    BY <2>0, <2>3 DEF Aggregate, LockTimeout, Fails, local
  <2>4. CASE FillPayload(p)
    BY <2>0, <2>4 DEF FillPayload, Fails
  <2>5. CASE MakeLock(p) \/ OwnLock(p) \/ InspectLock(p)
    BY <2>0, <2>5 DEF MakeLock, OwnLock, InspectLock, Fails, Keeps
  <2>6. CASE RecheckLock(p) \/ RecoverLock(p) \/ ReleaseLock(p)
    BY <2>0, <2>6 DEF RecheckLock, RecoverLock, ReleaseLock, Keeps, local
  <2>7. CASE AppendRow(p)
    BY <2>0, <2>7 DEF AppendRow
  <2>8. CASE Die(p)
    BY <2>0, <2>8 DEF Die, local
  <2> QED BY <2>1, <2>2, <2>3, <2>4, <2>5, <2>6, <2>7, <2>8 DEF RowsStep
<1> QED BY <1>1, <1>2 DEF ProgressInv, OthersStay

LEMMA LockKept ==
    ASSUME RowsTypeOK, ProgressInv, LockInv, NEW p \in Runs, RowsStep(p) \/ Die(p)
    PROVE  LockInv'
<1>0. /\ DOMAIN step = Runs
      /\ step[p] \in {"append", "release"} => load[p] = "write"
      /\ step[p] = "begin" => load[p] = "begin"
  BY DEF RowsTypeOK, ProgressInv
<1> USE DEF At, To
<1>1. CASE BeginRun(p)
  <2>1. step' = [step EXCEPT ![p] = "read"] /\ step[p] = "begin" /\ load' = load
        /\ UNCHANGED <<lockFile, inodes, inode>> /\ overtaken' = overtaken
    BY <1>1 DEF BeginRun, lockVars, local, rowsHistory
  <2>2. ~Gone(p) /\ ~Owns(p) /\ ~Owns(p)'
    BY <1>0, <2>1 DEF Gone, Owns, Inside
  <2> QED BY <1>0, <2>1, <2>2, LockStays
<1>2. CASE ReadRows(p)
  <2>1. /\ step[p] = "read" /\ load' = load
        /\ UNCHANGED <<lockFile, inodes, inode>> /\ overtaken' = overtaken
    BY <1>2 DEF ReadRows, lockVars, rowsHistory
  <2>2. PICK s \in {"release", "ended", "truncate", "loaded"} :
           step' = [step EXCEPT ![p] = s] /\ (s = "release" => load[p] = "write")
    BY <1>2 DEF ReadRows
  <2>3. ~Gone(p) /\ (Owns(p) <=> load[p] = "write") /\ (Owns(p)' <=> load[p] = "write" /\ s # "ended")
    BY <1>0, <2>1, <2>2 DEF Gone, Owns, Inside
  <2>4. Owns(p) => Inside(p)
    BY <2>1, <2>3 DEF Inside
  <2> QED BY <1>0, <2>1, <2>2, <2>3, <2>4, LockStays
<1>3. CASE TruncateRows(p)
  <2>1. /\ step[p] = "truncate" /\ load' = load /\ step' = [step EXCEPT ![p] = "loaded"]
        /\ UNCHANGED <<lockFile, inodes, inode>> /\ overtaken' = overtaken
    BY <1>3 DEF TruncateRows, lockVars
  <2>2. ~Gone(p) /\ (Owns(p) <=> load[p] = "write") /\ (Owns(p)' <=> load[p] = "write") /\ (Owns(p) => Inside(p))
    BY <1>0, <2>1 DEF Gone, Owns, Inside
  <2> QED BY <1>0, <2>1, <2>2, LockStays
<1>4. CASE UseRows(p)
  <2>1. /\ step[p] = "loaded" /\ load' = load
        /\ UNCHANGED <<lockFile, inodes, inode>> /\ overtaken' = overtaken
    BY <1>4 DEF UseRows, lockVars
  <2>2. PICK s \in {"aggregate", "lock", "release", "append"} :
           /\ step' = [step EXCEPT ![p] = s]
           /\ s \in {"release", "append"} <=> load[p] = "write"
    <3>1. CASE load[p] = "begin"
      BY <1>4, <3>1 DEF UseRows
    <3>2. CASE load[p] = "reload"
      BY <1>4, <3>2 DEF UseRows
    <3>3. CASE load[p] = "write"
      BY <1>4, <3>3 DEF UseRows
    <3> QED BY <3>1, <3>2, <3>3 DEF RowsTypeOK
  <2>3. ~Gone(p) /\ (Owns(p) <=> load[p] = "write") /\ (Owns(p)' <=> load[p] = "write") /\ (Owns(p) => Inside(p))
    BY <1>0, <2>1, <2>2 DEF Gone, Owns, Inside
  <2> QED BY <1>0, <2>1, <2>2, <2>3, LockStays
<1>5. CASE Aggregate(p) \/ FillPayload(p) \/ LockTimeout(p)
  <2>1. /\ step[p] \in {"aggregate", "fill", "lock"} /\ load' = load
        /\ UNCHANGED <<lockFile, inodes, inode>> /\ overtaken' = overtaken
    BY <1>5 DEF Aggregate, FillPayload, LockTimeout, Fails, lockVars, local, rowsHistory
  <2>2. PICK s \in {"fill", "ended", "lock"} : step' = [step EXCEPT ![p] = s]
    BY <1>5 DEF Aggregate, FillPayload, LockTimeout, Fails
  <2>3. ~Gone(p) /\ ~Owns(p) /\ ~Owns(p)'
    BY <1>0, <2>1, <2>2 DEF Gone, Owns, Inside
  <2> QED BY <1>0, <2>1, <2>2, <2>3, LockStays
<1>6. CASE AppendRow(p)
  <2>1. /\ step[p] = "append" /\ load' = load /\ step' = [step EXCEPT ![p] = "release"]
        /\ UNCHANGED <<lockFile, inodes, inode>> /\ overtaken' = overtaken
    BY <1>6 DEF AppendRow, lockVars
  <2>2. ~Gone(p) /\ Owns(p) /\ Owns(p)' /\ Inside(p)
    BY <1>0, <2>1 DEF Gone, Owns, Inside
  <2> QED BY <1>0, <2>1, <2>2, LockStays
<1>7. CASE Die(p)
  <2>1. /\ step[p] \notin {"ended", "dead"} /\ load' = load /\ step' = [step EXCEPT ![p] = "dead"]
        /\ UNCHANGED <<lockFile, inodes, inode>> /\ overtaken' = overtaken
    BY <1>7 DEF Die, lockVars, local
  <2>2. ~Gone(p) /\ ~Owns(p)'
    BY <1>0, <2>1 DEF Gone, Owns, Inside
  <2> QED BY <1>0, <2>1, <2>2, LockStays
<1>8. CASE ReleaseLock(p)
  BY <1>0, <1>8, ReleaseLockIsOwn DEF ReleaseLock
<1> QED BY <1>1, <1>2, <1>3, <1>4, <1>5, <1>6, <1>7, <1>8,
           MakeLockIsNew, OwnLockIsOwn, InspectLockIsOld, RecheckLockIsSame, RecoverLockIsGone DEF RowsStep

-----------------------------------------------------------------------------
(* The rows, step by step.                                                  *)

(* A step that does not write the rows file disturbs no other run.          *)
LEMMA FileStays ==
    ASSUME RowsTypeOK, FileInv, NEW p \in Runs, OthersStay(p), rowsFile' = rowsFile,
           acked \subseteq acked', acked' \subseteq StoredRows, RunInv(p)'
    PROVE  FileInv'
<1>1. StoredRows' = StoredRows /\ Complete' = Complete /\ (TornTail' <=> TornTail) /\ Intact'
  BY DEF FileInv, StoredRows, Complete, TornTail, Intact
<1>2. Complete \in Nat
  BY FileFacts
<1>3. ASSUME NEW q \in Runs, q # p PROVE RunInv(q)'
  BY <1>1, <1>2, <1>3, OtherRun DEF FileInv, OthersStay
<1> QED BY <1>1, <1>3 DEF FileInv

(* A run that only moves, to a step at which it relies on no more.          *)
LEMMA RunMoves ==
    ASSUME RowsTypeOK, NEW p \in Runs, RunInv(p), rowsFile' = rowsFile, acked' = acked,
           UNCHANGED <<runIdentity, rows, fold>>,
           step'[p] \in {"read", "lock", "own", "recheck", "recover", "fill", "ended", "dead"},
           step'[p] = "read" => load'[p] # "reload",
           step'[p] = "fill" => step[p] = "aggregate",
           result'[p] = "done" => result[p] = "done"
    PROVE  RunInv(p)'
<1>1. StoredRows' = StoredRows /\ OwnRow(p)' = OwnRow(p) /\ Completed(p)' = Completed(p)
  BY DEF StoredRows, OwnRow, Completed
<1> QED BY <1>1 DEF RunInv

(* A row of the run, once loaded, is of a completed fold.                   *)
LEMMA OwnIsCompleted ==
    ASSUME RowsTypeOK, NEW p \in Runs
    PROVE  /\ Completed(p) \subseteq 1..Folds
           /\ OwnRow(p) \in rows[p] => fold[p] \in Completed(p)
<1>1. rows[p] \subseteq FoldRows
  BY DEF RowsTypeOK
<1>2. \A r \in FoldRows : r.fold \in 1..Folds
  BY DEF FoldRows
<1>3. OwnRow(p).fold = fold[p] /\ OwnRow(p).run_identity = runIdentity[p]
  BY DEF OwnRow
<1> QED BY <1>1, <1>2, <1>3 DEF Completed

LEMMA ReadRowsKeeps ==
    ASSUME RowsTypeOK, ProgressInv, FileInv, NEW p \in Runs, ReadRows(p)
    PROVE  FileInv'
<1>1. /\ step[p] = "read" /\ rowsFile' = rowsFile /\ acked' = acked
      /\ UNCHANGED <<load, runIdentity, fold>> /\ OthersStay(p)
  BY OthersKept DEF ReadRows, RowsStep, At, rowsDisk, rowsHistory
<1>2. ~ \E i \in DOMAIN rowsFile : rowsFile[i].form = "damaged"
  <2>1. ASSUME NEW i \in DOMAIN rowsFile PROVE rowsFile[i].form # "damaged"
    <3>1. i \in 1..Len(rowsFile) /\ Len(rowsFile) \in Nat /\ Complete \in 0..Len(rowsFile)
      BY FileFacts
    <3>2. CASE i \in 1..Complete
      BY <3>2 DEF FileInv, Intact
    <3>3. CASE i \notin 1..Complete
      <4>1. TornTail
        BY <3>1, <3>3, FileFacts
      <4>2. i = Len(rowsFile)
        BY <3>1, <3>3, <4>1 DEF Complete
      <4> QED BY <4>1, <4>2, FileFacts
    <3> QED BY <3>2, <3>3
  <2> QED BY <2>1
<1>3. /\ step'[p] = IF TornTail THEN "truncate" ELSE "loaded"
      /\ rows'[p] = StoredRows
      /\ cut'[p] = IF TornTail THEN Len(rowsFile) - 1 ELSE 0
      /\ result' = result
  BY <1>2 DEF ReadRows, RowsTypeOK, To
<1>4. RunInv(p)
  BY DEF FileInv
<1>5. /\ StoredRows' = StoredRows /\ Complete' = Complete /\ (TornTail' <=> TornTail)
      /\ OwnRow(p)' = OwnRow(p)
  BY <1>1 DEF StoredRows, Complete, TornTail, OwnRow
<1>6. Completed(p) \subseteq Completed(p)'
  <2>1. rows[p] \subseteq rows'[p]
    BY <1>3, <1>4 DEF RunInv
  <2> QED BY <1>1, <2>1 DEF Completed
<1>7. TornTail => cut'[p] = Complete
  BY <1>3 DEF Complete
<1>8. Complete \in Nat
  BY FileFacts
<1>9. acked \subseteq StoredRows
  BY DEF FileInv
<1>10. RunInv(p)'
  <2>1. rows'[p] \subseteq StoredRows' /\ 1..(fold'[p] - 1) \subseteq Completed(p)'
    BY <1>1, <1>3, <1>4, <1>5, <1>6 DEF RunInv
  <2>2. /\ step'[p] = "truncate" => cut'[p] = Complete'
        /\ step'[p] = "loaded" => ~TornTail'
        /\ step'[p] \in {"truncate", "loaded"}
    BY <1>3, <1>5, <1>7
  <2>3. load'[p] = "reload" => OwnRow(p)' \in rows'[p]
    BY <1>1, <1>3, <1>4, <1>5, <1>9 DEF RunInv
  <2>4. result'[p] # "done"
    BY <1>1, <1>3 DEF ProgressInv
  <2> QED BY <1>5, <1>8, <2>1, <2>2, <2>3, <2>4 DEF RunInv
<1> QED BY <1>1, <1>9, <1>10, FileStays

LEMMA UseRowsKeeps ==
    ASSUME RowsTypeOK, ProgressInv, FileInv, NEW p \in Runs, UseRows(p)
    PROVE  FileInv'
<1>1. /\ step[p] = "loaded" /\ rowsFile' = rowsFile /\ acked' = acked
      /\ UNCHANGED <<load, runIdentity, rows, result>> /\ OthersStay(p)
  <2>1. load[p] \in {"begin", "write", "reload"}
    BY DEF RowsTypeOK
  <2>2. acked' = acked
    BY <2>1 DEF UseRows
  <2> QED BY <2>2, OthersKept DEF UseRows, RowsStep, At, rowsDisk, Keeps
<1>2. /\ StoredRows' = StoredRows /\ Completed(p)' = Completed(p) /\ (TornTail' <=> TornTail)
  BY <1>1 DEF StoredRows, TornTail, Completed
<1>3. RunInv(p) /\ acked \subseteq StoredRows
  BY DEF FileInv
<1>4. fold[p] =< Folds /\ Folds \in Nat \ {0}
  BY <1>1, FoldsAssumption DEF ProgressInv
<1>5. result[p] # "done"
  BY <1>1 DEF ProgressInv
<1>6. RunInv(p)'
  <2>1. CASE load[p] = "begin"
    <3>1. fold'[p] = NextFold(p, 1) /\ step'[p] = IF fold'[p] > Folds THEN "aggregate" ELSE "lock"
      BY <1>1, <2>1 DEF UseRows, RowsTypeOK, To
    <3>2. NextFold(p, 1) \in 1..(Folds + 1) /\ 1..(NextFold(p, 1) - 1) \subseteq Completed(p)
      BY <1>4, NextFoldIsFirst
    <3>3. step'[p] = "aggregate" => fold'[p] = Folds + 1
      BY <1>4, <3>1, <3>2
    <3> QED BY <1>1, <1>2, <1>3, <1>5, <2>1, <3>1, <3>2, <3>3 DEF RunInv, Inside
  <2>2. CASE load[p] = "reload"
    <3>1. step'[p] = "aggregate" /\ fold' = fold
      BY <1>1, <2>2 DEF UseRows, RowsTypeOK, To
    <3>2. OwnRow(p)' = OwnRow(p)
      BY <1>1, <3>1 DEF OwnRow
    <3> QED BY <1>1, <1>2, <1>3, <1>5, <2>2, <3>1, <3>2 DEF RunInv, Inside
  <2>3. CASE load[p] = "write"
    <3>1. step'[p] = (IF OwnRow(p) \in rows[p] THEN "release" ELSE "append") /\ fold' = fold
      BY <1>1, <2>3 DEF UseRows, RowsTypeOK, To
    <3>2. OwnRow(p)' = OwnRow(p)
      BY <1>1, <3>1 DEF OwnRow
    <3>3. Inside(p)
      BY <1>1, <2>3 DEF Inside
    <3> QED BY <1>1, <1>2, <1>3, <1>5, <2>3, <3>1, <3>2, <3>3 DEF RunInv, Inside
  <2> QED BY <2>1, <2>2, <2>3 DEF RowsTypeOK
<1> QED BY <1>1, <1>3, <1>6, FileStays

LEMMA FillPayloadKeeps ==
    ASSUME RowsTypeOK, ProgressInv, FileInv, NEW p \in Runs, FillPayload(p)
    PROVE  FileInv'
<1>1. /\ step[p] = "fill" /\ rowsFile' = rowsFile /\ acked' = acked
      /\ UNCHANGED <<load, runIdentity, rows>> /\ OthersStay(p)
  BY OthersKept DEF FillPayload, RowsStep, At, Fails, rowsHistory
<1>2. /\ StoredRows' = StoredRows /\ Completed(p)' = Completed(p)
  BY <1>1 DEF StoredRows, Completed
<1>3. RunInv(p) /\ acked \subseteq StoredRows
  BY DEF FileInv
<1>4. /\ Folds \in Nat \ {0} /\ fold[p] \in 1..(Folds + 1) /\ result[p] # "done"
      /\ 1..(fold[p] - 1) \subseteq Completed(p)
      /\ fold[p] = Folds + 1 \/ fold[p] \in Completed(p)
      /\ Completed(p) \subseteq 1..Folds
  BY <1>1, <1>3, FoldsAssumption, OwnIsCompleted DEF ProgressInv, RowsTypeOK, RunInv
<1>5. ASSUME fold[p] =< Folds
      PROVE  /\ NextFold(p, fold[p] + 1) \in (fold[p] + 1)..(Folds + 1)
             /\ 1..(NextFold(p, fold[p] + 1) - 1) \subseteq Completed(p)
  <2>1. fold[p] + 1 \in 1..(Folds + 1)
    BY <1>4, <1>5
  <2>2. /\ NextFold(p, fold[p] + 1) \in (fold[p] + 1)..(Folds + 1)
        /\ (fold[p] + 1)..(NextFold(p, fold[p] + 1) - 1) \subseteq Completed(p)
    BY <2>1, NextFoldIsFirst
  <2> QED BY <1>4, <1>5, <2>2
<1>6. RunInv(p)'
  <2>1. CASE fold[p] =< Folds /\ NextFold(p, fold[p] + 1) =< Folds
    <3>1. step'[p] = "lock" /\ fold'[p] = NextFold(p, fold[p] + 1) /\ result' = result
      BY <1>1, <2>1 DEF FillPayload, RowsTypeOK, To
    <3> QED BY <1>1, <1>2, <1>3, <1>4, <1>5, <2>1, <3>1 DEF RunInv, Inside
  <2>2. CASE ~(fold[p] =< Folds /\ NextFold(p, fold[p] + 1) =< Folds)
    <3>1. step'[p] = "ended" /\ fold' = fold
      BY <1>1, <2>2 DEF FillPayload, Fails, RowsTypeOK, To
    <3>2. 1..Folds \subseteq Completed(p)
      <4>1. CASE fold[p] = Folds + 1
        BY <1>4, <4>1
      <4>2. CASE fold[p] # Folds + 1
        <5>1. fold[p] =< Folds
          BY <1>4, <4>2
        <5>2. NextFold(p, fold[p] + 1) = Folds + 1
          BY <1>4, <1>5, <2>2, <5>1
        <5> QED BY <1>4, <1>5, <5>1, <5>2
      <4> QED BY <4>1, <4>2
    <3>3. Completed(p) = 1..Folds
      BY <1>4, <3>2
    <3> QED BY <1>1, <1>2, <1>3, <3>1, <3>3 DEF RunInv, Inside
  <2> QED BY <2>1, <2>2
<1> QED BY <1>1, <1>3, <1>6, FileStays

LEMMA ReleaseLockKeeps ==
    ASSUME RowsTypeOK, ProgressInv, FileInv, NEW p \in Runs, ReleaseLock(p)
    PROVE  FileInv'
<1>1. /\ step[p] = "release" /\ load[p] = "write" /\ result[p] # "done" /\ rowsFile' = rowsFile
      /\ UNCHANGED <<runIdentity, cut, rows, fold, result>> /\ OthersStay(p)
  BY OthersKept DEF ReleaseLock, RowsStep, At, rowsDisk, Keeps, ProgressInv
<1>2. StoredRows' = StoredRows /\ Completed(p)' = Completed(p) /\ OwnRow(p)' = OwnRow(p)
  BY <1>1 DEF StoredRows, Completed, OwnRow
<1>3. RunInv(p) /\ acked \subseteq StoredRows
  BY DEF FileInv
<1>4. /\ step'[p] = IF result[p] = "none" THEN "read" ELSE "ended"
      /\ acked' = IF result[p] = "none" THEN acked \union {OwnRow(p)} ELSE acked
  BY <1>1 DEF ReleaseLock, RowsTypeOK, To
<1>5. result[p] = "none" => OwnRow(p) \in StoredRows
  BY <1>1, <1>3 DEF RunInv, Inside
<1>6. acked \subseteq acked' /\ acked' \subseteq StoredRows
  BY <1>3, <1>4, <1>5
<1>7. RunInv(p)'
  BY <1>1, <1>2, <1>3, <1>4 DEF RunInv, Inside
<1> QED BY <1>1, <1>6, <1>7, FileStays

(* The steps that leave the rows file, the rows and the folds alone.        *)
LEMMA QuietStepsKeep ==
    ASSUME RowsTypeOK, ProgressInv, FileInv, NEW p \in Runs,
           \/ BeginRun(p) \/ Aggregate(p) \/ MakeLock(p) \/ OwnLock(p) \/ LockTimeout(p)
           \/ InspectLock(p) \/ RecheckLock(p) \/ RecoverLock(p)
           \/ Die(p) /\ UNCHANGED rowsFile
    PROVE  FileInv'
<1>1. OthersStay(p)
  BY OthersKept DEF RowsStep
<1>2. RunInv(p) /\ acked \subseteq StoredRows
  BY DEF FileInv
<1>3. /\ rowsFile' = rowsFile /\ acked' = acked /\ UNCHANGED <<runIdentity, rows, fold>>
      /\ step'[p] \in {"read", "lock", "own", "recheck", "recover", "fill", "ended", "dead"}
      /\ step'[p] = "read" => load'[p] # "reload"
      /\ step'[p] = "fill" => step[p] = "aggregate"
      /\ result'[p] = "done" => result[p] = "done"
  <2> USE DEF RowsTypeOK, At, To
  <2>1. CASE BeginRun(p)
    BY <2>1 DEF BeginRun, ProgressInv, rowsDisk, local, rowsHistory
  <2>2. CASE Aggregate(p) \/ LockTimeout(p)
    BY <2>2 DEF Aggregate, LockTimeout, Fails, rowsDisk, local, rowsHistory
  <2>3. CASE MakeLock(p) \/ OwnLock(p) \/ InspectLock(p)
    BY <2>3 DEF MakeLock, OwnLock, InspectLock, Fails, Keeps, rowsDisk, rowsHistory
  <2>4. CASE RecheckLock(p) \/ RecoverLock(p)
    BY <2>4 DEF RecheckLock, RecoverLock, rowsDisk, local, rowsHistory
  <2>5. CASE Die(p) /\ UNCHANGED rowsFile
    BY <2>5 DEF Die, local
  <2> QED BY <2>1, <2>2, <2>3, <2>4, <2>5
<1>4. RunInv(p)'
  BY <1>2, <1>3, RunMoves
<1> QED BY <1>1, <1>2, <1>3, <1>4, FileStays

(* A cut behind the complete rows; before them it is one of the things that *)
(* disturb the file, and under the lock there is none.                      *)
LEMMA TruncateRowsKeeps ==
    ASSUME RowsTypeOK, ProgressInv, FileInv, NEW p \in Runs, TruncateRows(p), ~unlockedCut'
    PROVE  FileInv'
<1>1. /\ step[p] = "truncate" /\ step'[p] = "loaded" /\ result[p] # "done"
      /\ UNCHANGED <<acked, load, runIdentity, rows, fold, result>> /\ OthersStay(p)
  BY OthersKept DEF TruncateRows, RowsStep, RowsTypeOK, At, To, ProgressInv
<1>2. RunInv(p) /\ Intact /\ acked \subseteq StoredRows
  BY DEF FileInv
<1>3. /\ Len(rowsFile) \in Nat /\ Complete \in 0..Len(rowsFile) /\ cut[p] \in Nat
      /\ DOMAIN rowsFile = 1..Len(rowsFile)
  BY FileFacts DEF RowsTypeOK
<1>4. cut[p] =< Complete
  BY <1>1, <1>2 DEF RunInv
<1>5. cut[p] = Complete
  <2>1. CASE load[p] = "write"
    BY <1>1, <1>2, <2>1 DEF RunInv, Inside
  <2>2. CASE load[p] # "write"
    <3>1. \A i \in 1..Len(rowsFile) : i > cut[p] => rowsFile[i].form \notin {"whole", "bare"}
      BY <1>3, <2>2 DEF TruncateRows
    <3>2. ~(Complete > cut[p])
      BY <1>2, <1>3, <3>1 DEF Intact
    <3> QED BY <1>3, <1>4, <3>2
  <2> QED BY <2>1, <2>2
<1>6. rowsFile' = SubSeq(rowsFile, 1, cut[p]) /\ cut[p] \in Complete..Len(rowsFile)
  BY <1>3, <1>5 DEF TruncateRows
<1>7. Intact' /\ StoredRows' = StoredRows /\ Complete' = Complete /\ ~TornTail'
  BY <1>2, <1>3, <1>5, <1>6, CutTorn
<1>8. ASSUME NEW q \in Runs, q # p PROVE RunInv(q)'
  BY <1>1, <1>3, <1>7, <1>8, OtherRun DEF FileInv, OthersStay
<1>9. RunInv(p)'
  <2>1. OwnRow(p)' = OwnRow(p) /\ Completed(p)' = Completed(p)
    BY <1>1 DEF OwnRow, Completed
  <2> QED BY <1>1, <1>2, <1>7, <2>1 DEF RunInv
<1> QED BY <1>1, <1>2, <1>7, <1>8, <1>9 DEF FileInv

(* The run in the lock writes its row: there is no torn line, nobody else   *)
(* is inside, and a line without newline would count as grown.              *)
LEMMA WriteKeeps ==
    ASSUME RowsTypeOK, ProgressInv, LockInv, FileInv, NEW p \in Runs, AppendRow(p) \/ Die(p),
           NEW form \in {"whole", "bare", "torn"}, step[p] = "append",
           rowsFile' = Written(OwnRow(p), form), Grows, ~grown', ~overtaken,
           step'[p] = "release" /\ result'[p] = "none" => form # "torn"
    PROVE  FileInv'
<1>1. /\ load[p] = "write" /\ fold[p] =< Folds /\ result[p] # "done" /\ Inside(p)
      /\ step'[p] \in {"release", "dead"} /\ result'[p] # "done"
      /\ UNCHANGED <<acked, load, runIdentity, rows, fold, cut>> /\ OthersStay(p)
  BY OthersKept DEF AppendRow, Die, RowsStep, RowsTypeOK, At, To, ProgressInv, Inside, local
<1>2. RunInv(p) /\ Intact /\ acked \subseteq StoredRows
  BY DEF FileInv
<1>3. ~OpenTail
  BY <1>1, <1>2 DEF RunInv, Grows
<1>4. OwnRow(p) \in FoldRows
  BY <1>1, OwnRowIsRow
<1>5. /\ Intact' /\ StoredRows \subseteq StoredRows' /\ Complete =< Complete'
      /\ form # "torn" => OwnRow(p) \in StoredRows'
  BY <1>2, <1>3, <1>4, WrittenBehind
<1>6. Complete' \in Nat
  <2>1. RowsTypeOK'
    BY TypeKept DEF RowsStep
  <2>2. rowsFile' \in Seq(Lines)
    BY <2>1 DEF RowsTypeOK, Lines
  <2>3. rowsFile' # <<>> => Len(rowsFile') - 1 \in Nat
    BY <2>2
  <2> QED BY <2>2, <2>3 DEF Complete, TornTail
<1>7. ASSUME NEW q \in Runs, q # p PROVE RunInv(q)'
  <2>1. ~Inside(q)
    BY <1>1, <1>7 DEF LockInv, Owns
  <2> QED BY <1>1, <1>5, <1>6, <1>7, <2>1, OtherRun DEF FileInv, OthersStay
<1>8. RunInv(p)'
  <2>1. OwnRow(p)' = OwnRow(p) /\ Completed(p)' = Completed(p)
    BY <1>1 DEF OwnRow, Completed
  <2>2. step'[p] = "release" /\ result'[p] = "none" => OwnRow(p) \in StoredRows'
    BY <1>5
  <2> QED BY <1>1, <1>2, <1>5, <2>1, <2>2 DEF RunInv
<1> QED BY <1>1, <1>2, <1>5, <1>7, <1>8 DEF FileInv

LEMMA FileKept ==
    ASSUME RowsInv, NEW p \in Runs, RowsStep(p) \/ Die(p), ~Disturbed'
    PROVE  FileInv'
<1>1. RowsTypeOK /\ ProgressInv /\ LockInv
  BY DEF RowsInv
<1>2. ~unlockedCut' /\ ~overtaken' /\ ~grown'
  BY DEF Disturbed
<1>3. (unlockedCut => unlockedCut') /\ (overtaken => overtaken') /\ (grown => grown')
  <2>1. CASE BeginRun(p) \/ ReadRows(p) \/ UseRows(p) \/ Aggregate(p) \/ FillPayload(p)
    <3>1. UNCHANGED <<unlockedCut, overtaken, grown>>
      BY <2>1 DEF BeginRun, ReadRows, UseRows, Aggregate, FillPayload, rowsHistory
    <3> QED BY <3>1
  <2>2. CASE \/ MakeLock(p) \/ OwnLock(p) \/ LockTimeout(p) \/ InspectLock(p) \/ RecheckLock(p)
             \/ ReleaseLock(p)
    <3>1. UNCHANGED <<unlockedCut, overtaken, grown>>
      BY <2>2 DEF MakeLock, OwnLock, LockTimeout, InspectLock, RecheckLock, ReleaseLock, rowsHistory
    <3> QED BY <3>1
  <2>3. CASE TruncateRows(p)
    <3>1. UNCHANGED <<overtaken, grown>> /\ (unlockedCut => unlockedCut')
      BY <2>3 DEF TruncateRows
    <3> QED BY <3>1
  <2>4. CASE RecoverLock(p)
    <3>1. UNCHANGED <<unlockedCut, grown>> /\ (overtaken => overtaken')
      BY <2>4 DEF RecoverLock
    <3> QED BY <3>1
  <2>5. CASE AppendRow(p) \/ Die(p)
    <3>1. UNCHANGED <<unlockedCut, overtaken>> /\ (grown' = grown \/ Grows)
      BY <2>5 DEF AppendRow, Die
    <3>2. grown => grown'
      <4>1. CASE grown' = grown
        BY <4>1
      <4>2. CASE Grows
        <5> DEFINE more == OpenTail /\ ~TornTail
        <5>1. grown' = (grown \/ more)
          BY <4>2 DEF Grows
        <5> HIDE DEF more
        <5> QED BY <5>1
      <4> QED BY <3>1, <4>1, <4>2
    <3>3. (unlockedCut => unlockedCut') /\ (overtaken => overtaken')
      BY <3>1
    <3> QED BY <3>2, <3>3
  <2> QED BY <2>1, <2>2, <2>3, <2>4, <2>5 DEF RowsStep
<1>4. FileInv /\ ~overtaken
  BY <1>2, <1>3 DEF RowsInv, Disturbed
<1>5. CASE AppendRow(p)
  <2>1. PICK form \in {"whole", "bare", "torn"} :
          /\ rowsFile' = Written(OwnRow(p), form)
          /\ result' = [result EXCEPT ![p] = IF form = "whole" THEN @ ELSE "os"]
    BY <1>5 DEF AppendRow
  <2>2. result'[p] = "none" => form # "torn"
    BY <1>1, <2>1 DEF RowsTypeOK
  <2>3. step[p] = "append" /\ Grows
    BY <1>5 DEF AppendRow, At
  <2> QED BY <1>1, <1>2, <1>4, <1>5, <2>1, <2>2, <2>3, WriteKeeps
<1>6. CASE Die(p) /\ ~UNCHANGED rowsFile
  <2>1. step[p] = "append" /\ Grows /\ step'[p] = "dead"
    BY <1>1, <1>6 DEF Die, At, To, RowsTypeOK
  <2>2. PICK form \in {"bare", "torn"} : rowsFile' = Written(OwnRow(p), form)
    BY <1>6 DEF Die
  <2> QED BY <1>1, <1>2, <1>4, <1>6, <2>1, <2>2, WriteKeeps
<1>7. CASE \/ BeginRun(p) \/ Aggregate(p) \/ MakeLock(p) \/ OwnLock(p) \/ LockTimeout(p)
           \/ InspectLock(p) \/ RecheckLock(p) \/ RecoverLock(p)
           \/ Die(p) /\ UNCHANGED rowsFile
  BY <1>1, <1>4, <1>7, QuietStepsKeep
<1>8. CASE ReadRows(p) \/ UseRows(p) \/ FillPayload(p) \/ ReleaseLock(p)
  BY <1>1, <1>4, <1>8, ReadRowsKeeps, UseRowsKeeps, FillPayloadKeeps, ReleaseLockKeeps
<1>9. CASE TruncateRows(p)
  BY <1>1, <1>2, <1>4, <1>9, TruncateRowsKeeps
<1> QED BY <1>5, <1>6, <1>7, <1>8, <1>9 DEF RowsStep

LEMMA RowsNextInv ==
    ASSUME RowsInv, [RowsNext]_rowsVars
    PROVE  RowsInv'
<1>1. ASSUME NEW p \in Runs, RowsStep(p) \/ Die(p) PROVE RowsInv'
  <2>1. RowsTypeOK' /\ ProgressInv' /\ LockInv'
    BY <1>1, TypeKept, ProgressKept, LockKept DEF RowsInv
  <2>2. ~Disturbed' => FileInv'
    BY <1>1, FileKept
  <2> QED BY <2>1, <2>2 DEF RowsInv
<1>2. CASE LockAges
  <2>1. RowsTypeOK'
    BY <1>2 DEF RowsInv, LockAges, LockFiles, RowsTypeOK, rowsDisk, local, rowsHistory
  <2>2. LockInv'
    BY <1>2, LockAgesAlone DEF RowsInv
  <2>3. ProgressInv'
    BY <1>2 DEF RowsInv, LockAges, ProgressInv, local
  <2>4. /\ StoredRows' = StoredRows /\ Complete' = Complete /\ (TornTail' <=> TornTail)
        /\ (Intact' <=> Intact) /\ acked' = acked /\ (Disturbed' <=> Disturbed)
    BY <1>2 DEF LockAges, StoredRows, Complete, TornTail, Intact, Disturbed, rowsDisk, rowsHistory
  <2>5. \A p \in Runs : (Inside(p)' <=> Inside(p)) /\ OwnRow(p)' = OwnRow(p) /\ Completed(p)' = Completed(p)
    BY <1>2 DEF LockAges, Inside, OwnRow, Completed, local
  <2>6. \A p \in Runs : RunInv(p) => RunInv(p)'
    BY <1>2, <2>4, <2>5 DEF LockAges, RunInv, local
  <2> QED BY <2>1, <2>2, <2>3, <2>4, <2>6 DEF RowsInv, FileInv
<1>3. CASE UNCHANGED rowsVars
  <2>1. UNCHANGED <<rowsFile, payload, lockFile, inodes, step, load, runIdentity, inode, cut, rows, fold, result>>
        /\ UNCHANGED <<acked, overtaken, unlockedCut, grown>>
    BY <1>3 DEF rowsVars, rowsDisk, lockVars, local, rowsHistory
  <2>2. RowsTypeOK' /\ ProgressInv'
    BY <2>1 DEF RowsInv, RowsTypeOK, ProgressInv
  <2>3. LockInv'
    BY <2>1 DEF RowsInv, LockInv, Owns, Inside, Gone
  <2>4. /\ StoredRows' = StoredRows /\ Complete' = Complete /\ (TornTail' <=> TornTail)
        /\ (Intact' <=> Intact) /\ acked' = acked /\ (Disturbed' <=> Disturbed)
    BY <2>1 DEF StoredRows, Complete, TornTail, Intact, Disturbed
  <2>5. \A p \in Runs : (Inside(p)' <=> Inside(p)) /\ OwnRow(p)' = OwnRow(p) /\ Completed(p)' = Completed(p)
    BY <2>1 DEF Inside, OwnRow, Completed
  <2>6. \A p \in Runs : RunInv(p) => RunInv(p)'
    BY <2>1, <2>4, <2>5 DEF RunInv
  <2> QED BY <2>2, <2>3, <2>4, <2>6 DEF RowsInv, FileInv
<1> QED BY <1>1, <1>2, <1>3 DEF RowsNext

LEMMA RowsInvIsSafe ==
    ASSUME RowsInv
    PROVE  RowsAreSafe
<1>1. LockIsExclusive
  <2>1. ASSUME NEW p \in Runs, NEW q \in Runs, Inside(p), Inside(q), p # q PROVE overtaken
    BY <2>1 DEF RowsInv, LockInv, Owns
  <2> QED BY <2>1 DEF LockIsExclusive
<1>2. AcknowledgedRowsSurvive
  BY DEF RowsInv, FileInv, AcknowledgedRowsSurvive
<1>3. FinishedRunsAreComplete
  BY DEF RowsInv, FileInv, RunInv, FinishedRunsAreComplete
<1> QED BY <1>1, <1>2, <1>3 DEF RowsInv, RowsAreSafe

(* Runs that share a rows file keep it whole, however many they are and     *)
(* however they die: the lock is of one of them unless a recovery removed a *)
(* lock file that it had not inspected, and while no load without the lock  *)
(* cut off complete rows and no write grew a line without newline, every    *)
(* row that write_jsonl_row has returned for is in the file and a run that  *)
(* returned has a row for every fold.                                       *)
THEOREM RowsStaySafe == RowsSpec => []RowsAreSafe
<1>1. RowsInit => RowsInv
  BY RowsInitInv
<1>2. RowsInv /\ [RowsNext]_rowsVars => RowsInv'
  BY RowsNextInv
<1>3. RowsInv => RowsAreSafe
  BY RowsInvIsSafe
<1> QED BY <1>1, <1>2, <1>3, PTL DEF RowsSpec

-----------------------------------------------------------------------------
(* The published feature cache.                                             *)

(* Unless a lock file was taken from a builder inside, the builder inside   *)
(* is the one the lock file names, and nobody else touches the pair while   *)
(* it has no manifest.  Whatever was verified stays what the exchange       *)
(* published.                                                               *)
BuilderInv(b) ==
    /\ Holding(b) => lockOwner = b
    /\ at[b] \in {"replace", "manifest"} => manifest = NoBuilder
    /\ at[b] = "manifest" => jsonl = b

PairInv == broken \/ ((manifest # NoBuilder => manifest = jsonl) /\ \A b \in Builders : BuilderInv(b))

ArchivesInv ==
    /\ archive # NoArchive => archive.intact
    /\ \A b \in Builders : parsed[b] # NoArchive => parsed[b].intact

CacheInv == CacheTypeOK /\ PairInv /\ ArchivesInv

LEMMA CacheInitInv ==
    ASSUME CacheInit
    PROVE  CacheInv
<1>1. CacheTypeOK
  <2>1. NoArchive \in Archives
    BY VersionsAssumption DEF NoArchive, Archives
  <2>2. remote \in [version : 1..Versions, parses : BOOLEAN]
    BY VersionsAssumption DEF CacheInit
  <2>3. at \in [Builders -> {"download"}] /\ outcome \in [Builders -> {"none"}]
    BY DEF CacheInit
  <2>4. sha \in [Builders -> 0..Versions]
    BY VersionsAssumption DEF CacheInit
  <2> QED BY <2>1, <2>2, <2>3, <2>4 DEF CacheInit, CacheTypeOK, Steps
<1>2. \A b \in Builders : BuilderInv(b)
  BY DEF CacheInit, BuilderInv, Holding
<1>3. ArchivesInv
  BY DEF CacheInit, ArchivesInv
<1> QED BY <1>1, <1>2, <1>3 DEF CacheInit, CacheInv, PairInv

LEMMA CacheTypeKept ==
    ASSUME CacheTypeOK, NEW b \in Builders, BuilderStep(b) \/ BuilderDies(b)
    PROVE  CacheTypeOK'
<1> USE DEF CacheTypeOK, Moves, Ends, MovesOn, cacheFiles, cacheLock, building
<1>1. CASE CheckArchive(b)
  <2>1. archive.version \in 0..Versions
    BY DEF Archives
  <2> QED BY <1>1, <2>1 DEF CheckArchive, Steps
<1>2. CASE FetchArchive(b)
  <2>1. \A intact \in BOOLEAN : [version |-> remote.version, intact |-> intact] \in Archives
    BY VersionsAssumption DEF Archives
  <2>2. temporary' \in [Builders -> Archives]
    BY <1>2, <2>1 DEF FetchArchive
  <2> QED BY <1>2, <2>2 DEF FetchArchive, Steps
<1>3. CASE VerifyArchive(b)
  <2>1. temporary[b] \in Archives /\ temporary[b].version \in 0..Versions
    BY DEF Archives
  <2>2. NoArchive \in Archives
    BY VersionsAssumption DEF NoArchive, Archives
  <2> QED BY <1>3, <2>1, <2>2 DEF VerifyArchive, Steps
<1>4. CASE ParseArchive(b)
  BY <1>4 DEF ParseArchive, Steps
<1>5. CASE TakeLock(b) \/ MeetLock(b) \/ ReleaseCacheLock(b) \/ LeaveLock(b)
  BY <1>5 DEF TakeLock, MeetLock, ReleaseCacheLock, LeaveLock, GiveBack, Steps
<1>6. CASE BreakLock(b)
  BY <1>6 DEF BreakLock, Steps
<1>7. CASE UnlinkManifest(b) \/ ReplaceRows(b) \/ WriteManifest(b) \/ CleanUp(b)
  BY <1>7 DEF UnlinkManifest, ReplaceRows, WriteManifest, CleanUp, Steps
<1>8. CASE ValidatePair(b) \/ BuilderDies(b)
  BY <1>8 DEF ValidatePair, BuilderDies, Steps
<1> QED BY <1>1, <1>2, <1>3, <1>4, <1>5, <1>6, <1>7, <1>8 DEF BuilderStep

(* Only bytes that match the checksum of the exchange are put in place.     *)
LEMMA ArchivesStayIntact ==
    ASSUME CacheTypeOK, ArchivesInv, NEW b \in Builders, BuilderStep(b) \/ BuilderDies(b)
    PROVE  ArchivesInv'
<1> USE DEF CacheTypeOK, ArchivesInv, cacheFiles, building
<1>1. CASE CheckArchive(b) \/ FetchArchive(b) \/ TakeLock(b) \/ MeetLock(b) \/ BreakLock(b) \/ ValidatePair(b)
  BY <1>1 DEF CheckArchive, FetchArchive, TakeLock, MeetLock, BreakLock, ValidatePair
<1>2. CASE \/ UnlinkManifest(b) \/ ReplaceRows(b) \/ WriteManifest(b) \/ ReleaseCacheLock(b)
           \/ LeaveLock(b) \/ CleanUp(b) \/ BuilderDies(b)
  BY <1>2 DEF UnlinkManifest, ReplaceRows, WriteManifest, ReleaseCacheLock, LeaveLock, CleanUp, BuilderDies
<1>3. CASE VerifyArchive(b)
  BY <1>3 DEF VerifyArchive, Verified
<1>4. CASE ParseArchive(b)
  BY <1>4 DEF ParseArchive
<1> QED BY <1>1, <1>2, <1>3, <1>4 DEF BuilderStep

(* A step that leaves the pair alone, and takes no lock from a builder.     *)
LEMMA OutsideThePair ==
    ASSUME CacheTypeOK, PairInv, NEW b \in Builders, NEW s \in Steps, at' = [at EXCEPT ![b] = s],
           UNCHANGED <<manifest, jsonl>>, broken' = broken,
           s \notin {"replace", "manifest"},
           Holding(b)' => Holding(b),
           \A c \in Builders : c # b /\ lockOwner = c => lockOwner' = c,
           Holding(b)' /\ lockOwner = b => lockOwner' = b
    PROVE  PairInv'
<1>1. \A c \in Builders : c # b => at'[c] = at[c] /\ (Holding(c)' <=> Holding(c))
  BY DEF CacheTypeOK, Holding
<1>2. at'[b] = s
  BY DEF CacheTypeOK
<1>3. ASSUME \A c \in Builders : BuilderInv(c) PROVE \A c \in Builders : BuilderInv(c)'
  <2>1. ASSUME NEW c \in Builders, c # b PROVE BuilderInv(c)'
    BY <1>1, <1>3, <2>1 DEF BuilderInv
  <2>2. BuilderInv(b)'
    BY <1>2, <1>3 DEF BuilderInv
  <2> QED BY <2>1, <2>2
<1> QED BY <1>3 DEF PairInv

LEMMA PairKept ==
    ASSUME CacheTypeOK, PairInv, NEW b \in Builders, BuilderStep(b) \/ BuilderDies(b)
    PROVE  PairInv'
<1> USE DEF CacheTypeOK, Moves, Ends, MovesOn
<1>0. b # NoBuilder
  BY NoBuilderAssumption
<1>1. CASE CheckArchive(b) \/ FetchArchive(b) \/ VerifyArchive(b) \/ ParseArchive(b)
  <2>1. PICK s \in {"parse", "fetch", "ended", "verify", "lock"} : at' = [at EXCEPT ![b] = s]
    BY <1>1 DEF CheckArchive, FetchArchive, VerifyArchive, ParseArchive
  <2>2. UNCHANGED <<manifest, jsonl, lockOwner>> /\ broken' = broken
    BY <1>1 DEF CheckArchive, FetchArchive, VerifyArchive, ParseArchive, cacheFiles, cacheLock
  <2>3. ~Holding(b)' /\ s \in Steps
    BY <2>1 DEF Holding, Steps
  <2> QED BY <2>1, <2>2, <2>3, OutsideThePair
<1>2. CASE MeetLock(b) \/ ValidatePair(b) \/ BuilderDies(b)
  <2>1. PICK s \in {"stale", "ended", "dead"} : at' = [at EXCEPT ![b] = s]
    BY <1>2 DEF MeetLock, ValidatePair, BuilderDies
  <2>2. UNCHANGED <<manifest, jsonl, lockOwner>> /\ broken' = broken
    BY <1>2 DEF MeetLock, ValidatePair, BuilderDies, cacheFiles, cacheLock
  <2>3. ~Holding(b)' /\ s \in Steps
    BY <2>1 DEF Holding, Steps
  <2> QED BY <2>1, <2>2, <2>3, OutsideThePair
<1>3. CASE ReleaseCacheLock(b) \/ LeaveLock(b)
  <2>1. PICK s \in {"validate", "cleanup"} : at' = [at EXCEPT ![b] = s]
    BY <1>3 DEF ReleaseCacheLock, LeaveLock
  <2>2. UNCHANGED <<manifest, jsonl>> /\ broken' = broken
        /\ lockOwner' = IF lockOwner = b THEN NoBuilder ELSE lockOwner
    BY <1>3 DEF ReleaseCacheLock, LeaveLock, GiveBack, cacheFiles
  <2>3. ~Holding(b)' /\ s \in Steps
    BY <2>1 DEF Holding, Steps
  <2> QED BY <2>1, <2>2, <2>3, OutsideThePair
<1>4. CASE TakeLock(b)
  <2>1. /\ lockOwner = NoBuilder /\ lockOwner' = b /\ at'[b] = "unlink"
        /\ UNCHANGED <<manifest, jsonl>> /\ broken' = broken
        /\ \A c \in Builders : c # b => at'[c] = at[c]
    BY <1>4 DEF TakeLock, cacheFiles
  <2>2. ASSUME \A c \in Builders : BuilderInv(c) PROVE \A c \in Builders : BuilderInv(c)'
    <3>1. \A c \in Builders : ~Holding(c)
      BY <2>1, <2>2, NoBuilderAssumption DEF BuilderInv
    <3>2. \A c \in Builders : c # b => ~Holding(c)'
      BY <2>1, <3>1 DEF Holding
    <3> QED BY <2>1, <3>2 DEF BuilderInv, Holding
  <2> QED BY <2>1, <2>2 DEF PairInv
<1>5. CASE BreakLock(b)
  <2>1. /\ lockOwner' = NoBuilder /\ at[b] = "stale" /\ at'[b] = "lock"
        /\ broken' = (broken \/ (lockOwner # NoBuilder /\ Holding(lockOwner)))
        /\ UNCHANGED <<manifest, jsonl>>
        /\ \A c \in Builders : c # b => at'[c] = at[c]
    BY <1>5 DEF BreakLock, cacheFiles
  <2>2. SUFFICES ASSUME ~broken' PROVE PairInv'
    BY DEF PairInv
  <2>3. ~broken /\ ~(lockOwner # NoBuilder /\ Holding(lockOwner))
    BY <2>1, <2>2
  <2>4. \A c \in Builders : ~Holding(c)
    BY <2>3, NoBuilderAssumption DEF PairInv, BuilderInv
  <2>5. \A c \in Builders : ~Holding(c)'
    BY <2>1, <2>4 DEF Holding
  <2>6. \A c \in Builders : BuilderInv(c)'
    BY <2>5 DEF BuilderInv, Holding
  <2> QED BY <2>1, <2>3, <2>6 DEF PairInv
<1>6. CASE CleanUp(b)
  <2>1. /\ manifest' = NoBuilder /\ at'[b] = "ended"
        /\ UNCHANGED <<jsonl, lockOwner>> /\ broken' = broken
        /\ \A c \in Builders : c # b => at'[c] = at[c]
    BY <1>6 DEF CleanUp, cacheLock
  <2>2. \A c \in Builders : BuilderInv(c) => BuilderInv(c)'
    BY <2>1 DEF BuilderInv, Holding
  <2> QED BY <2>1, <2>2 DEF PairInv
<1>7. CASE UnlinkManifest(b) \/ ReplaceRows(b) \/ WriteManifest(b)
  <2>1. /\ Holding(b) /\ UNCHANGED lockOwner /\ broken' = broken
        /\ \A c \in Builders : c # b => at'[c] = at[c]
    BY <1>7 DEF UnlinkManifest, ReplaceRows, WriteManifest, Holding, cacheLock
  <2>2. SUFFICES ASSUME ~broken PROVE PairInv'
    BY <2>1 DEF PairInv
  <2>3. \A c \in Builders : BuilderInv(c)
    BY <2>2 DEF PairInv
  <2>4. \A c \in Builders : c # b => ~Holding(c)
    BY <2>1, <2>3 DEF BuilderInv
  <2>5. \A c \in Builders : c # b => BuilderInv(c)'
    BY <2>1, <2>4 DEF BuilderInv, Holding
  <2>6. lockOwner' = b
    BY <2>1, <2>3 DEF BuilderInv
  <2>7. BuilderInv(b)' /\ (manifest' # NoBuilder => manifest' = jsonl')
    <3>1. CASE UnlinkManifest(b)
      BY <2>2, <2>6, <3>1 DEF UnlinkManifest, BuilderInv, Holding, PairInv
    <3>2. CASE ReplaceRows(b)
      BY <2>2, <2>3, <2>6, <3>2 DEF ReplaceRows, BuilderInv, Holding, PairInv
    <3>3. CASE WriteManifest(b)
      BY <2>2, <2>3, <2>6, <3>3 DEF WriteManifest, BuilderInv, Holding, PairInv
    <3> QED BY <1>7, <3>1, <3>2, <3>3
  <2> QED BY <2>5, <2>7 DEF PairInv
<1> QED BY <1>1, <1>2, <1>3, <1>4, <1>5, <1>6, <1>7 DEF BuilderStep

LEMMA CacheNextInv ==
    ASSUME CacheInv, [CacheNext]_cacheVars
    PROVE  CacheInv'
<1>1. ASSUME NEW b \in Builders, BuilderStep(b) \/ BuilderDies(b) PROVE CacheInv'
  BY <1>1, CacheTypeKept, ArchivesStayIntact, PairKept DEF CacheInv
<1>2. CASE CacheLockAges \/ Republish \/ UNCHANGED cacheVars
  <2>1. UNCHANGED <<archive, jsonl, manifest, lockOwner, at, temporary, sha, parsed, outcome>> /\ broken' = broken
    BY <1>2 DEF CacheLockAges, Republish, cacheVars, cacheFiles, cacheLock, building
  <2>2. remote' \in [version : 1..Versions, parses : BOOLEAN] /\ lockOld' \in BOOLEAN
    <3>1. CASE Republish
      <4>1. remote.version \in 1..Versions /\ Versions \in Nat /\ remote.version < Versions
        BY <3>1, VersionsAssumption DEF Republish, CacheInv, CacheTypeOK
      <4>2. remote.version + 1 \in 1..Versions
        BY <4>1
      <4> QED BY <3>1, <4>2 DEF Republish, CacheInv, CacheTypeOK, cacheLock
    <3>2. CASE CacheLockAges \/ UNCHANGED cacheVars
      BY <3>2 DEF CacheLockAges, CacheInv, CacheTypeOK, cacheVars, cacheLock
    <3> QED BY <1>2, <3>1, <3>2
  <2>3. CacheTypeOK'
    BY <2>1, <2>2 DEF CacheInv, CacheTypeOK
  <2>4. ArchivesInv'
    BY <2>1 DEF CacheInv, ArchivesInv
  <2>5. PairInv'
    BY <2>1 DEF CacheInv, PairInv, BuilderInv, Holding
  <2> QED BY <2>3, <2>4, <2>5 DEF CacheInv
<1> QED BY <1>1, <1>2 DEF CacheNext

(* A manifest describes the rows beside it, and rows and archives are what  *)
(* the exchange published, for any number of builders that fail and die at  *)
(* any step, as long as no lock is taken from a builder that is inside.     *)
THEOREM PublishedPairStaysSound == CacheSpec => []PublishedPairIsSound
<1>1. CacheInit => CacheInv
  BY CacheInitInv
<1>2. CacheInv /\ [CacheNext]_cacheVars => CacheInv'
  BY CacheNextInv
<1>3. CacheInv => PublishedPairIsSound
  BY NoBuilderAssumption DEF CacheInv, PairInv, ArchivesInv, PublishedPairIsSound, CacheTypeOK
<1> QED BY <1>1, <1>2, <1>3, PTL DEF CacheSpec

-----------------------------------------------------------------------------
(* The candle caches.                                                       *)

LoaderStates == {"idle", "locking", "waiting", "checking", "fetching", "saving", "leaving",
                 "failing", "writing", "reading", "returned", "failed", "dead"}

CandleTypeOK ==
    /\ script \in {"combo", "period"} /\ onExchange \in 1..Months
    /\ loader \in [Loaders -> [state : LoaderStates, market : 0..Months, written : Nat, beside : BOOLEAN]]
    /\ periodFile \in [size : Nat, holes : SUBSET Nat, exists : BOOLEAN] /\ periodFile.size <= 2 * Months
    /\ comboFile \in 0..Months /\ comboLock \in BOOLEAN
    /\ fetched \subseteq 1..Months /\ stopped \in BOOLEAN /\ cutShort \in BOOLEAN

(* What a process is about to write was fetched whole, and none of it is    *)
(* written.                                                                 *)
LoaderOK(l) ==
    /\ loader[l].state \in {"locking", "checking", "fetching", "saving"} => loader[l].written = 0
    /\ loader[l].state \in {"saving", "writing"} => loader[l].market \in fetched
    /\ loader[l].state = "writing" => script = "period" /\ loader[l].written <= 2 * loader[l].market

(* There is one owner of the lock, only the owner makes the file, and it    *)
(* does so once.                                                            *)
ComboInv ==
    /\ \A l, k \in Owners : l = k
    /\ Owners # {} => comboLock
    /\ comboFile # NoMarket => comboFile \in fetched
    /\ \A l \in Loaders :
         /\ In(l, {"fetching", "saving"}) => comboFile = NoMarket
         /\ In(l, {"leaving", "returned"}) => loader[l].market = comboFile
         /\ In(l, {"reading", "leaving", "returned"}) => comboFile # NoMarket
         /\ In(l, {"failing"}) => stopped
    /\ ~stopped => (comboLock => Owners # {})
    /\ ~stopped => \A l \in Loaders : In(l, {"waiting"}) => comboFile # NoMarket \/ Owners # {}

(* The end of the file is that of a whole market or the writer that made it *)
(* is still at it.                                                          *)
EndIsKnown ==
    \/ \E months \in fetched : periodFile.size = 2 * months
    \/ \E l \in Writing : loader[l].written = periodFile.size

(* When all write one market: the file is whole, or a writer has everything *)
(* behind it in the file and the holes before it.                           *)
FileFills(months) ==
    /\ periodFile.size <= 2 * months
    /\ \/ periodFile.holes = {} /\ periodFile.size = 2 * months
       \/ \E l \in Writing : /\ loader[l].written <= periodFile.size
                             /\ periodFile.holes \subseteq (loader[l].written + 1)..periodFile.size

PeriodInv ==
    /\ periodFile.exists => fetched # {}
    /\ \A l \in Loaders :
         /\ ~In(l, {"locking", "waiting", "checking", "leaving", "failing"})
         /\ In(l, {"reading", "writing"}) => periodFile.exists
         /\ In(l, {"returned"}) => loader[l].market \in fetched \/ loader[l].beside
    /\ periodFile.exists /\ ~cutShort =>
         EndIsKnown /\ \A months \in 1..Months : fetched = {months} => FileFills(months)

CandleInv ==
    /\ CandleTypeOK
    /\ \A l \in Loaders : LoaderOK(l)
    /\ script = "combo" => ComboInv
    /\ script = "period" => PeriodInv

(* The other processes stay where they are.                                 *)
Alone(l) == \A k \in Loaders \ {l} : loader'[k] = loader[k]

(* The period file stays as good as it is while its writers stay.           *)
FileIsGood ==
    periodFile.exists /\ ~cutShort =>
        EndIsKnown /\ \A months \in 1..Months : fetched = {months} => FileFills(months)

LEMMA PeriodFileStays ==
    ASSUME CandleTypeOK, PeriodInv, UNCHANGED <<periodFile, cutShort>>, fetched \subseteq fetched',
           \A k \in Writing : loader'[k] = loader[k]
    PROVE  FileIsGood'
<1> SUFFICES ASSUME periodFile.exists, ~cutShort
             PROVE  EndIsKnown' /\ \A months \in 1..Months : fetched' = {months} => FileFills(months)'
  BY DEF FileIsGood
<1>1. Writing \subseteq Writing' /\ fetched # {}
  BY DEF Writing, In, PeriodInv
<1>2. EndIsKnown'
  BY <1>1 DEF EndIsKnown, PeriodInv
<1>3. ASSUME NEW months \in 1..Months, fetched' = {months} PROVE FileFills(months)'
  <2>1. fetched = {months}
    BY <1>1, <1>3
  <2>2. FileFills(months)
    BY <2>1 DEF PeriodInv
  <2> QED BY <1>1, <2>2 DEF FileFills
<1> QED BY <1>2, <1>3

LEMMA BeginLoadKeeps ==
    ASSUME MonthsAssumption, CandleInv, NEW l \in Loaders, BeginLoad(l)
    PROVE  CandleInv'
<1> DEFINE start == CASE script = "combo" -> IF comboFile # NoMarket THEN "reading" ELSE "locking"
                      [] script = "period" -> IF periodFile.exists THEN "reading" ELSE "fetching"
           fresh == Fresh(start)
<1>1. /\ script = "combo" => start = IF comboFile # NoMarket THEN "reading" ELSE "locking"
      /\ script = "period" => start = IF periodFile.exists THEN "reading" ELSE "fetching"
      /\ script \in {"combo", "period"}
  BY DEF CandleInv, CandleTypeOK
<1> HIDE DEF start
<1>2. /\ fresh.state = start /\ fresh.market = NoMarket /\ fresh.written = 0
      /\ start \in LoaderStates => fresh \in [state : LoaderStates, market : 0..Months, written : Nat, beside : BOOLEAN]
  BY MonthsAssumption DEF Fresh, NoMarket
<1> HIDE DEF fresh
<1>3. loader' = [loader EXCEPT ![l] = fresh] /\ loader[l].state \in {"idle", "returned", "failed", "dead"}
  BY DEF BeginLoad, start, fresh, In
<1>4. UNCHANGED <<script, onExchange, comboFile, comboLock, periodFile, fetched, stopped, cutShort>>
  BY DEF BeginLoad
<1>5. loader'[l] = fresh /\ Alone(l) /\ start \in {"reading", "locking", "fetching"}
  BY <1>1, <1>3 DEF CandleInv, CandleTypeOK, Alone
<1>6. CandleTypeOK'
  BY <1>2, <1>3, <1>4, <1>5 DEF CandleInv, CandleTypeOK, LoaderStates
<1>7. \A k \in Loaders : LoaderOK(k)'
  BY <1>2, <1>4, <1>5 DEF CandleInv, LoaderOK, Alone
<1>8. script' = "combo" => ComboInv'
  BY <1>1, <1>2, <1>3, <1>4, <1>5 DEF CandleInv, ComboInv, Owners, In, Alone
<1>9. script' = "period" => PeriodInv'
  <2> SUFFICES ASSUME script = "period" PROVE PeriodInv'
    BY <1>4
  <2>1. FileIsGood'
    BY <1>3, <1>4, <1>5, PeriodFileStays DEF CandleInv, Alone, Writing, In
  <2> QED BY <1>1, <1>2, <1>4, <1>5, <2>1 DEF CandleInv, PeriodInv, In, Alone, FileIsGood
<1> QED BY <1>6, <1>7, <1>8, <1>9 DEF CandleInv

(* Steps that only change where a process is: what there is to show of the  *)
(* type, of what it writes, and of the period file.                         *)
LEMMA OnlyItsState ==
    ASSUME CandleInv, NEW l \in Loaders, NEW state \in LoaderStates \ {"saving", "writing"},
           GoesTo(l, state), state \in {"locking", "checking", "fetching"} => loader[l].written = 0,
           UNCHANGED <<script, onExchange, comboFile, periodFile, fetched, cutShort>>,
           comboLock' \in BOOLEAN, stopped' \in BOOLEAN
    PROVE  /\ CandleTypeOK' /\ \A k \in Loaders : LoaderOK(k)'
           /\ loader'[l].state = state /\ loader'[l].market = loader[l].market /\ Alone(l)
           /\ script = "period" /\ loader[l].state # "writing" /\ state \in {"failed", "dead"} => PeriodInv'
<1>1. loader' = [loader EXCEPT ![l].state = state]
  BY DEF GoesTo
<1>2. /\ loader'[l] = [loader[l] EXCEPT !.state = state] /\ Alone(l)
      /\ loader'[l].state = state /\ loader'[l].market = loader[l].market
      /\ loader'[l].written = loader[l].written
  BY <1>1 DEF CandleInv, CandleTypeOK, Alone
<1>3. CandleTypeOK'
  BY <1>1 DEF CandleInv, CandleTypeOK
<1>4. \A k \in Loaders : LoaderOK(k)'
  BY <1>2 DEF CandleInv, LoaderOK, Alone
<1>5. ASSUME script = "period", loader[l].state # "writing", state \in {"failed", "dead"} PROVE PeriodInv'
  <2>1. FileIsGood'
    BY <1>2, <1>5, PeriodFileStays DEF CandleInv, Alone, Writing, In
  <2> QED BY <1>2, <1>5, <2>1 DEF CandleInv, PeriodInv, In, Alone, FileIsGood
<1> QED BY <1>2, <1>3, <1>4, <1>5

LEMMA AcquireLockKeeps ==
    ASSUME CandleInv, NEW l \in Loaders, AcquireLock(l)
    PROVE  CandleInv'
<1> DEFINE state == IF comboLock THEN "waiting" ELSE "checking"
<1>1. /\ loader[l].state = "locking" /\ comboLock' = TRUE /\ GoesTo(l, state)
      /\ state \in LoaderStates \ {"saving", "writing"}
      /\ UNCHANGED <<script, onExchange, comboFile, periodFile, loads, fetched, stopped, cutShort>>
  BY DEF AcquireLock, In, LoaderStates
<1>2. script = "combo"
  BY <1>1 DEF CandleInv, CandleTypeOK, PeriodInv, In
<1> HIDE DEF state
<1>3. /\ CandleTypeOK' /\ \A k \in Loaders : LoaderOK(k)'
      /\ loader'[l].state = state /\ loader'[l].market = loader[l].market /\ Alone(l)
  BY <1>1, OnlyItsState DEF CandleInv, CandleTypeOK, LoaderOK
<1>4. CASE comboLock
  <2>1. loader'[l].state = "waiting"
    BY <1>3, <1>4 DEF state
  <2>2. \A k \in Loaders : k \in Owners' <=> k \in Owners
    BY <1>1, <1>3, <2>1 DEF Owners, In, Alone
  <2>3. Owners' = Owners
    BY <2>2 DEF Owners
  <2> QED BY <1>1, <1>2, <1>3, <1>4, <2>1, <2>3 DEF CandleInv, ComboInv, In, Alone
<1>5. CASE ~comboLock
  <2>1. loader'[l].state = "checking"
    BY <1>3, <1>5 DEF state
  <2>2. Owners = {}
    BY <1>2, <1>5 DEF CandleInv, ComboInv
  <2>3. l \in Owners' /\ \A k \in Owners' : k = l
    BY <1>3, <2>1, <2>2 DEF Owners, In, Alone
  <2> QED BY <1>1, <1>2, <1>3, <2>1, <2>3 DEF CandleInv, ComboInv, In, Alone
<1> QED BY <1>4, <1>5

LEMMA WaitForFileKeeps ==
    ASSUME CandleInv, NEW l \in Loaders, WaitForFile(l)
    PROVE  CandleInv'
<1>1. /\ loader[l].state = "waiting" /\ comboFile # NoMarket /\ GoesTo(l, "reading")
      /\ "reading" \in LoaderStates \ {"saving", "writing"}
      /\ UNCHANGED <<script, onExchange, comboFile, comboLock, periodFile, loads, fetched, stopped, cutShort>>
  BY DEF WaitForFile, In, LoaderStates
<1>2. script = "combo"
  BY <1>1 DEF CandleInv, CandleTypeOK, PeriodInv, In
<1>3. /\ CandleTypeOK' /\ \A k \in Loaders : LoaderOK(k)'
      /\ loader'[l].state = "reading" /\ loader'[l].market = loader[l].market /\ Alone(l)
  BY <1>1, OnlyItsState DEF CandleInv, CandleTypeOK
<1>4. Owners' = Owners
  <2>1. \A k \in Loaders : k \in Owners' <=> k \in Owners
    BY <1>1, <1>3 DEF Owners, In, Alone
  <2> QED BY <2>1 DEF Owners
<1> QED BY <1>1, <1>2, <1>3, <1>4 DEF CandleInv, ComboInv, In, Alone

LEMMA CheckAgainKeeps ==
    ASSUME CandleInv, NEW l \in Loaders, CheckAgain(l)
    PROVE  CandleInv'
<1>1. /\ loader[l].state = "checking"
      /\ UNCHANGED <<script, onExchange, comboFile, comboLock, periodFile, loads, fetched, stopped, cutShort>>
  BY DEF CheckAgain, In
<1>2. script = "combo" /\ l \in Owners
  BY <1>1 DEF CandleInv, CandleTypeOK, PeriodInv, In, Owners
<1>3. CASE comboFile # NoMarket
  <2>1. loader' = [loader EXCEPT ![l].state = "leaving", ![l].market = comboFile]
    BY <1>3 DEF CheckAgain
  <2>2. loader'[l].state = "leaving" /\ loader'[l].market = comboFile /\ Alone(l)
    BY <2>1 DEF CandleInv, CandleTypeOK, Alone
  <2>3. CandleTypeOK'
    BY <1>1, <2>1, ZenonT(30) DEF CandleInv, CandleTypeOK, LoaderStates
  <2>4. \A k \in Loaders : LoaderOK(k)'
    BY <1>1, <2>2 DEF CandleInv, LoaderOK, Alone
  <2>5. Owners' = Owners
    <3>1. \A k \in Loaders : k \in Owners' <=> k \in Owners
      BY <1>1, <2>2 DEF Owners, In, Alone
    <3> QED BY <3>1 DEF Owners
  <2>6. ComboInv'
    BY <1>1, <1>2, <1>3, <2>2, <2>5 DEF CandleInv, ComboInv, In, Alone
  <2> QED BY <1>1, <1>2, <2>3, <2>4, <2>6 DEF CandleInv
<1>4. CASE comboFile = NoMarket
  <2>1. GoesTo(l, "fetching") /\ "fetching" \in LoaderStates \ {"saving", "writing"}
    BY <1>4 DEF CheckAgain, LoaderStates
  <2>2. /\ CandleTypeOK' /\ \A k \in Loaders : LoaderOK(k)'
        /\ loader'[l].state = "fetching" /\ Alone(l)
    BY <1>1, <2>1, OnlyItsState DEF CandleInv, CandleTypeOK, LoaderOK
  <2>3. Owners' = Owners
    <3>1. \A k \in Loaders : k \in Owners' <=> k \in Owners
      BY <1>1, <2>2 DEF Owners, In, Alone
    <3> QED BY <3>1 DEF Owners
  <2>4. ComboInv'
    BY <1>1, <1>2, <1>4, <2>2, <2>3 DEF CandleInv, ComboInv, In, Alone
  <2> QED BY <1>1, <1>2, <2>2, <2>4 DEF CandleInv
<1> QED BY <1>3, <1>4

LEMMA FetchMonthKeeps ==
    ASSUME MonthsAssumption, CandleInv, NEW l \in Loaders, FetchMonth(l)
    PROVE  CandleInv'
<1>1. /\ loader[l].state = "fetching"
      /\ UNCHANGED <<script, onExchange, comboFile, comboLock, periodFile, loads, stopped, cutShort>>
  BY DEF FetchMonth, In
<1>2. CASE loader[l].market < onExchange
  <2>1. loader' = [loader EXCEPT ![l].market = @ + 1] /\ fetched' = fetched
    BY <1>2 DEF FetchMonth
  <2>2. loader'[l].state = "fetching" /\ Alone(l)
    BY <1>1, <2>1 DEF CandleInv, CandleTypeOK, Alone
  <2>3. CandleTypeOK'
    <3>1. loader[l].market + 1 \in 0..Months
      BY <1>2, MonthsAssumption DEF CandleInv, CandleTypeOK
    <3> QED BY <1>1, <2>1, <3>1 DEF CandleInv, CandleTypeOK
  <2>4. \A k \in Loaders : LoaderOK(k)'
    BY <1>1, <2>1, <2>2 DEF CandleInv, LoaderOK, Alone
  <2>5. Owners' = Owners
    <3>1. \A k \in Loaders : k \in Owners' <=> k \in Owners
      BY <1>1, <2>2 DEF Owners, In, Alone
    <3> QED BY <3>1 DEF Owners
  <2>6. script = "combo" => ComboInv'
    BY <1>1, <2>1, <2>2, <2>5 DEF CandleInv, ComboInv, In, Alone
  <2>7. script = "period" => PeriodInv'
    <3>1. script = "period" => FileIsGood'
      BY <1>1, <2>1, <2>2, PeriodFileStays DEF CandleInv, Alone, Writing, In
    <3> QED BY <1>1, <2>1, <2>2, <3>1 DEF CandleInv, PeriodInv, In, Alone, FileIsGood
  <2> QED BY <1>1, <2>3, <2>4, <2>6, <2>7 DEF CandleInv
<1>3. CASE ~(loader[l].market < onExchange)
  <2> DEFINE m == loader[l].market
  <2>1. loader' = [loader EXCEPT ![l].state = "saving"] /\ fetched' = fetched \union {m}
    BY <1>3 DEF FetchMonth, GoesTo
  <2>2. loader'[l].state = "saving" /\ loader'[l].market = m /\ Alone(l) /\ m \in 1..Months
    BY <1>3, <2>1, MonthsAssumption DEF CandleInv, CandleTypeOK, Alone
  <2>3. CandleTypeOK'
    BY <1>1, <2>1, <2>2 DEF CandleInv, CandleTypeOK, LoaderStates
  <2> HIDE DEF m
  <2>4. \A k \in Loaders : LoaderOK(k)'
    BY <1>1, <2>1, <2>2 DEF CandleInv, LoaderOK, Alone
  <2>5. Owners' = Owners
    <3>1. \A k \in Loaders : k \in Owners' <=> k \in Owners
      BY <1>1, <2>2 DEF Owners, In, Alone
    <3> QED BY <3>1 DEF Owners
  <2>6. script = "combo" => ComboInv'
    BY <1>1, <2>1, <2>2, <2>5 DEF CandleInv, ComboInv, In, Alone
  <2>7. script = "period" => PeriodInv'
    <3>1. script = "period" => FileIsGood'
      BY <1>1, <2>1, <2>2, PeriodFileStays DEF CandleInv, Alone, Writing, In
    <3> QED BY <1>1, <2>1, <2>2, <3>1 DEF CandleInv, PeriodInv, In, Alone, FileIsGood
  <2> QED BY <1>1, <2>3, <2>4, <2>6, <2>7 DEF CandleInv
<1> QED BY <1>2, <1>3

LEMMA FetchFailsKeeps ==
    ASSUME CandleInv, NEW l \in Loaders, FetchFails(l)
    PROVE  CandleInv'
<1> DEFINE state == IF script = "combo" THEN "failing" ELSE "failed"
<1>1. /\ loader[l].state = "fetching" /\ GoesTo(l, state) /\ stopped' = TRUE
      /\ state \in LoaderStates \ {"saving", "writing"}
      /\ UNCHANGED <<script, onExchange, comboFile, comboLock, periodFile, loads, fetched, cutShort>>
  BY DEF FetchFails, In, LoaderStates
<1>2. /\ script = "combo" => state = "failing"
      /\ script = "period" => state = "failed"
      /\ script \in {"combo", "period"} /\ state \notin {"locking", "checking", "fetching"}
      /\ comboLock \in BOOLEAN
  BY DEF CandleInv, CandleTypeOK
<1> HIDE DEF state
<1>3. /\ CandleTypeOK' /\ \A k \in Loaders : LoaderOK(k)'
      /\ loader'[l].state = state /\ loader'[l].market = loader[l].market /\ Alone(l)
      /\ script = "period" => PeriodInv'
  BY <1>1, <1>2, OnlyItsState DEF CandleInv, CandleTypeOK, LoaderStates
<1>4. ASSUME script = "combo" PROVE ComboInv'
  <2>1. Owners' = Owners
    <3>1. \A k \in Loaders : k \in Owners' <=> k \in Owners
      BY <1>1, <1>2, <1>3, <1>4 DEF Owners, In, Alone
    <3> QED BY <3>1 DEF Owners
  <2> QED BY <1>1, <1>2, <1>3, <1>4, <2>1 DEF CandleInv, ComboInv, In, Alone
<1> QED BY <1>1, <1>3, <1>4 DEF CandleInv

(* The owner makes the file where there was none.                           *)
LEMMA SaveComboKeeps ==
    ASSUME CandleInv, NEW l \in Loaders, SaveCombo(l)
    PROVE  CandleInv'
<1> DEFINE m == loader[l].market
<1>1. /\ loader[l].state = "saving" /\ script = "combo" /\ comboFile' = m
      /\ loader' = [loader EXCEPT ![l].state = "leaving"]
      /\ UNCHANGED <<script, onExchange, comboLock, periodFile, loads, fetched, stopped, cutShort>>
  BY DEF SaveCombo, In, GoesTo
<1>2. m \in fetched /\ m \in 1..Months /\ m \in 0..Months /\ m # NoMarket
  BY <1>1 DEF CandleInv, LoaderOK, CandleTypeOK, NoMarket
<1>3. loader'[l].state = "leaving" /\ loader'[l].market = m /\ Alone(l)
  BY <1>1 DEF CandleInv, CandleTypeOK, Alone
<1>4. CandleTypeOK'
  BY <1>1, <1>2 DEF CandleInv, CandleTypeOK, LoaderStates
<1> HIDE DEF m
<1>5. \A k \in Loaders : LoaderOK(k)'
  BY <1>1, <1>3 DEF CandleInv, LoaderOK, Alone
<1>6. Owners' = Owners /\ l \in Owners
  <2>1. \A k \in Loaders : k \in Owners' <=> k \in Owners
    BY <1>1, <1>3 DEF Owners, In, Alone
  <2> QED BY <1>1, <2>1 DEF Owners, In
<1>7. comboFile = NoMarket
  BY <1>1 DEF CandleInv, ComboInv, In
<1>8. \A k \in Loaders \ {l} : ~In(k, {"fetching", "saving", "leaving", "returned", "reading"})
  BY <1>1, <1>6, <1>7 DEF CandleInv, ComboInv, In, Owners
<1>9. ComboInv'
  BY <1>1, <1>2, <1>3, <1>6, <1>8 DEF CandleInv, ComboInv, In, Alone
<1> QED BY <1>1, <1>4, <1>5, <1>9 DEF CandleInv

LEMMA UnlockKeeps ==
    ASSUME CandleInv, NEW l \in Loaders, Unlock(l)
    PROVE  CandleInv'
<1> DEFINE state == IF In(l, {"leaving"}) THEN "returned" ELSE "failed"
<1>1. /\ loader[l].state \in {"leaving", "failing"} /\ GoesTo(l, state) /\ comboLock' = FALSE
      /\ state \in LoaderStates \ {"saving", "writing"}
      /\ UNCHANGED <<script, onExchange, comboFile, periodFile, loads, fetched, stopped, cutShort>>
  BY DEF Unlock, In, LoaderStates
<1>2. script = "combo" /\ l \in Owners
  BY <1>1 DEF CandleInv, CandleTypeOK, PeriodInv, In, Owners
<1>3. /\ loader[l].state = "leaving" => state = "returned"
      /\ loader[l].state = "failing" => state = "failed"
  BY DEF In
<1> HIDE DEF state
<1>4. /\ CandleTypeOK' /\ \A k \in Loaders : LoaderOK(k)'
      /\ loader'[l].state = state /\ loader'[l].market = loader[l].market /\ Alone(l)
  BY <1>1, <1>3, OnlyItsState DEF CandleInv, CandleTypeOK
<1>5. Owners' = {}
  BY <1>1, <1>2, <1>3, <1>4 DEF CandleInv, ComboInv, Owners, In, Alone
<1>6. ComboInv'
  BY <1>1, <1>2, <1>3, <1>4, <1>5 DEF CandleInv, ComboInv, In, Alone
<1> QED BY <1>1, <1>2, <1>4, <1>6 DEF CandleInv

(* A truncated file has one writer that has everything before it.           *)
LEMMA OpenPeriodKeeps ==
    ASSUME MonthsAssumption, CandleInv, NEW l \in Loaders, OpenPeriod(l)
    PROVE  CandleInv'
<1>1. /\ loader[l].state = "saving" /\ script = "period"
      /\ periodFile' = [size |-> 0, holes |-> {}, exists |-> TRUE]
      /\ loader' = [loader EXCEPT ![l].state = "writing"]
      /\ UNCHANGED <<script, onExchange, comboFile, comboLock, loads, fetched, stopped, cutShort>>
  BY DEF OpenPeriod, In, GoesTo
<1>2. /\ loader[l].market \in fetched /\ loader[l].written = 0
      /\ loader[l].market \in 1..Months
  BY <1>1 DEF CandleInv, LoaderOK, CandleTypeOK
<1>3. /\ loader'[l].state = "writing" /\ loader'[l].market = loader[l].market
      /\ loader'[l].written = 0 /\ Alone(l)
  BY <1>1, <1>2 DEF CandleInv, CandleTypeOK, Alone
<1>4. periodFile'.size = 0 /\ periodFile'.holes = {} /\ periodFile'.exists
  BY <1>1
<1>5. CandleTypeOK'
  <2>1. periodFile' \in [size : Nat, holes : SUBSET Nat, exists : BOOLEAN]
    BY <1>1
  <2>2. periodFile'.size <= 2 * Months
    BY <1>4, MonthsAssumption DEF CandleInv, CandleTypeOK
  <2> QED BY <1>1, <2>1, <2>2 DEF CandleInv, CandleTypeOK, LoaderStates
<1>6. \A k \in Loaders : LoaderOK(k)'
  BY <1>1, <1>2, <1>3 DEF CandleInv, LoaderOK, Alone
<1>7. l \in Writing'
  BY <1>3 DEF Writing, In
<1>8. EndIsKnown' /\ \A months \in 1..Months : FileFills(months)'
  BY <1>3, <1>4, <1>7 DEF EndIsKnown, FileFills
<1>9. PeriodInv'
  BY <1>1, <1>2, <1>3, <1>4, <1>8 DEF CandleInv, PeriodInv, In, Alone
<1> QED BY <1>1, <1>5, <1>6, <1>9 DEF CandleInv

(* A half that is written fills a hole, or makes the file longer and leaves *)
(* holes that are before the writer who has everything behind it.           *)
LEMMA WriteHalfKeeps ==
    ASSUME MonthsAssumption, CandleInv, NEW l \in Loaders, WriteHalf(l)
    PROVE  CandleInv'
<1> DEFINE m == loader[l].market
           next == loader[l].written + 1
           size == IF next > periodFile.size THEN next ELSE periodFile.size
           holes == (periodFile.holes \union ((periodFile.size + 1)..next)) \ {next}
<1>1. /\ loader[l].state = "writing" /\ script = "period"
      /\ m \in fetched /\ m \in 1..Months /\ next \in Nat \ {0} /\ next <= 2 * m + 1
      /\ UNCHANGED <<script, onExchange, comboFile, comboLock, loads, fetched, stopped, cutShort>>
  BY DEF WriteHalf, In, CandleInv, CandleTypeOK, LoaderOK
<1>2. CASE next > 2 * m
  <2>1. /\ loader' = [loader EXCEPT ![l].state = "returned", ![l].market = m] /\ periodFile' = periodFile
    BY <1>2 DEF WriteHalf, Returns
  <2>2. loader'[l].state = "returned" /\ loader'[l].market = m /\ Alone(l)
    BY <2>1 DEF CandleInv, CandleTypeOK, Alone
  <2>3. CandleTypeOK'
    BY <1>1, <2>1, ZenonT(30) DEF CandleInv, CandleTypeOK, LoaderStates
  <2>4. \A k \in Loaders : LoaderOK(k)'
    BY <1>1, <2>2 DEF CandleInv, LoaderOK, Alone
  <2>5. \A k \in Writing : k # l => k \in Writing' /\ loader'[k] = loader[k]
    BY <2>2 DEF Writing, In, Alone
  <2>6. loader[l].written = 2 * m
    BY <1>1, <1>2 DEF CandleInv, CandleTypeOK
  <2>7. ASSUME periodFile.exists, ~cutShort PROVE EndIsKnown'
    <3>1. EndIsKnown
      BY <1>1, <2>7 DEF CandleInv, PeriodInv
    <3> QED BY <1>1, <2>1, <2>5, <2>6, <3>1 DEF EndIsKnown
  <2>8. ASSUME periodFile.exists, ~cutShort, NEW months \in 1..Months, fetched = {months} PROVE FileFills(months)'
    <3>1. FileFills(months) /\ m = months
      BY <1>1, <2>8 DEF CandleInv, PeriodInv
    <3>2. periodFile.size \in Nat /\ periodFile.holes \subseteq Nat
      BY DEF CandleInv, CandleTypeOK
    <3>3. CASE periodFile.holes = {} /\ periodFile.size = 2 * months
      BY <2>1, <3>1, <3>3 DEF FileFills
    <3>4. ASSUME NEW k \in Writing, loader[k].written <= periodFile.size,
                 periodFile.holes \subseteq (loader[k].written + 1)..periodFile.size
          PROVE  FileFills(months)'
      <4>1. CASE k = l
        <5>1. periodFile.size = 2 * months
          BY <2>6, <3>1, <3>2, <3>4, <4>1 DEF FileFills
        <5>2. periodFile.holes = {}
          BY <2>6, <3>1, <3>4, <4>1, <5>1
        <5> QED BY <2>1, <5>1, <5>2 DEF FileFills
      <4>2. CASE k # l
        BY <2>1, <2>5, <3>1, <3>4, <4>2 DEF FileFills
      <4> QED BY <4>1, <4>2
    <3> QED BY <3>1, <3>3, <3>4 DEF FileFills
  <2>9. PeriodInv'
    <3>1. FileIsGood'
      BY <1>1, <2>1, <2>7, <2>8 DEF FileIsGood
    <3>2. \A k \in Loaders :
            /\ loader'[k].state \notin {"locking", "waiting", "checking", "leaving", "failing"}
            /\ loader'[k].state \in {"reading", "writing"} => periodFile'.exists
            /\ loader'[k].state = "returned" => loader'[k].market \in fetched' \/ loader'[k].beside
      <4> SUFFICES ASSUME NEW k \in Loaders
                   PROVE  /\ loader'[k].state \notin {"locking", "waiting", "checking", "leaving", "failing"}
                          /\ loader'[k].state \in {"reading", "writing"} => periodFile'.exists
                          /\ loader'[k].state = "returned" => loader'[k].market \in fetched' \/ loader'[k].beside
        OBVIOUS
      <4> HIDE DEF m
      <4>1. CASE k = l
        BY <1>1, <2>2, <4>1
      <4>2. CASE k # l
        <5>1. loader'[k] = loader[k]
          BY <2>2, <4>2 DEF Alone
        <5> QED BY <1>1, <2>1, <5>1 DEF CandleInv, PeriodInv, In
      <4> QED BY <4>1, <4>2
    <3>3. periodFile'.exists => fetched' # {}
      BY <1>1
    <3> QED BY <3>1, <3>2, <3>3 DEF PeriodInv, In, FileIsGood
  <2> QED BY <1>1, <2>3, <2>4, <2>9 DEF CandleInv
<1>3. CASE ~(next > 2 * m)
  <2>1. /\ periodFile' = [exists |-> TRUE, size |-> size, holes |-> holes]
        /\ loader' = [loader EXCEPT ![l].written = next]
    BY <1>3 DEF WriteHalf
  <2>2. /\ loader'[l].state = "writing" /\ loader'[l].market = m /\ loader'[l].written = next /\ Alone(l)
    BY <1>1, <2>1 DEF CandleInv, CandleTypeOK, Alone
  <2>3. periodFile.size \in Nat /\ periodFile.holes \subseteq Nat
    BY DEF CandleInv, CandleTypeOK
  <2>4. size \in Nat /\ holes \subseteq Nat /\ size >= next /\ size >= periodFile.size
        /\ (size = next \/ size = periodFile.size)
    BY <1>1, <2>3
  <2>5. next <= periodFile.size => size = periodFile.size /\ holes \subseteq periodFile.holes
    BY <1>1, <2>3
  <2>6. next > periodFile.size => size = next /\ holes \subseteq periodFile.holes \union ((periodFile.size + 1)..(next - 1))
    BY <1>1, <2>3
  <2>7. next \notin holes
    OBVIOUS
  <2>8. periodFile'.size = size /\ periodFile'.holes = holes /\ periodFile'.exists
    BY <2>1
  <2> HIDE DEF size, holes
  <2>9. CandleTypeOK'
    <3>1. periodFile' \in [size : Nat, holes : SUBSET Nat, exists : BOOLEAN]
      BY <2>1, <2>4
    <3>2. size <= 2 * Months
      BY <1>1, <1>3, <2>4, MonthsAssumption DEF CandleInv, CandleTypeOK
    <3> QED BY <1>1, <2>1, <2>8, <3>1, <3>2 DEF CandleInv, CandleTypeOK
  <2> HIDE DEF m
  <2>10. \A k \in Loaders : LoaderOK(k)'
    BY <1>1, <1>3, <2>2 DEF CandleInv, LoaderOK, Alone, m
  <2>11. l \in Writing /\ l \in Writing' /\ \A k \in Writing : k # l => k \in Writing' /\ loader'[k] = loader[k]
    BY <1>1, <2>2 DEF Writing, In, Alone
  <2>12. ASSUME ~cutShort PROVE EndIsKnown'
    <3>1. CASE next > periodFile.size
      BY <2>2, <2>6, <2>8, <2>11, <3>1 DEF EndIsKnown
    <3>2. CASE next <= periodFile.size
      <4>1. EndIsKnown \/ ~periodFile.exists
        BY <1>1, <2>12 DEF CandleInv, PeriodInv
      <4>2. periodFile.exists
        BY <1>1 DEF CandleInv, PeriodInv, In
      <4>3. loader[l].written # periodFile.size
        BY <1>1, <2>3, <3>2 DEF CandleInv, CandleTypeOK
      <4> QED BY <1>1, <2>5, <2>8, <2>11, <3>2, <4>1, <4>2, <4>3 DEF EndIsKnown
    <3> QED BY <1>1, <2>3, <3>1, <3>2
  <2>13. ASSUME ~cutShort, NEW months \in 1..Months, fetched = {months} PROVE FileFills(months)'
    <3>1. FileFills(months) /\ m = months
      BY <1>1, <2>13 DEF CandleInv, PeriodInv, In
    <3>2. size <= 2 * months
      BY <1>1, <1>3, <2>3, <2>4, <3>1 DEF FileFills
    <3>3. CASE periodFile.holes = {} /\ periodFile.size = 2 * months
      <4>1. next <= periodFile.size
        BY <1>1, <1>3, <3>1, <3>3
      <4>2. size = 2 * months /\ holes = {}
        BY <2>5, <3>3, <4>1
      <4> QED BY <2>8, <4>2 DEF FileFills
    <3>4. ASSUME NEW k \in Writing, loader[k].written <= periodFile.size,
                 periodFile.holes \subseteq (loader[k].written + 1)..periodFile.size
          PROVE  FileFills(months)'
      <4> DEFINE wrote == loader[k].written
      <4>1. wrote \in Nat
        BY DEF CandleInv, CandleTypeOK, Writing
      <4>2. CASE k = l
        <5>1. next = wrote + 1
          BY <4>2
        <5>2. CASE next <= periodFile.size
          <6>1. \A i \in holes : i \in (next + 1)..size
            BY <1>1, <2>3, <2>5, <2>7, <3>4, <5>1, <5>2
          <6> QED BY <2>2, <2>4, <2>8, <2>11, <3>2, <6>1 DEF FileFills
        <5>3. CASE next > periodFile.size
          <6>1. periodFile.size = wrote
            BY <1>1, <2>3, <3>4, <4>1, <5>1, <5>3
          <6>2. periodFile.holes = {} /\ (periodFile.size + 1)..(next - 1) = {}
            BY <3>4, <4>1, <5>1, <6>1
          <6>3. holes = {}
            BY <2>6, <5>3, <6>2
          <6> QED BY <2>2, <2>4, <2>8, <2>11, <3>2, <6>3 DEF FileFills
        <5> QED BY <1>1, <2>3, <5>2, <5>3
      <4>3. CASE k # l
        <5>1. k \in Writing' /\ loader'[k].written = wrote
          BY <2>11, <4>3
        <5>2. wrote <= size
          BY <2>3, <2>4, <3>4, <4>1
        <5>3. \A i \in holes : i \in (wrote + 1)..size
          <6>1. CASE next <= periodFile.size
            BY <2>3, <2>5, <3>4, <4>1, <6>1
          <6>2. CASE next > periodFile.size
            BY <1>1, <2>3, <2>6, <3>4, <4>1, <6>2
          <6> QED BY <1>1, <2>3, <6>1, <6>2
        <5> QED BY <2>8, <3>2, <5>1, <5>2, <5>3 DEF FileFills
      <4> QED BY <4>2, <4>3
    <3> QED BY <3>1, <3>3, <3>4 DEF FileFills
  <2>14. PeriodInv'
    BY <1>1, <2>2, <2>8, <2>12, <2>13 DEF CandleInv, PeriodInv, In, Alone
  <2> QED BY <1>1, <2>9, <2>10, <2>14 DEF CandleInv
<1> QED BY <1>2, <1>3

(* What is read is whole, or was read beside a writer.                      *)
LEMMA ReadCandlesKeeps ==
    ASSUME MonthsAssumption, CandleInv, NEW l \in Loaders, ReadCandles(l)
    PROVE  CandleInv'
<1>1. /\ loader[l].state = "reading"
      /\ UNCHANGED <<script, onExchange, comboFile, comboLock, periodFile, loads, fetched, stopped, cutShort>>
  BY DEF ReadCandles, In
<1>2. CASE script = "combo"
  <2>1. loader' = [loader EXCEPT ![l].state = "returned", ![l].market = comboFile]
    BY <1>2 DEF ReadCandles, Returns
  <2>2. loader'[l].state = "returned" /\ loader'[l].market = comboFile /\ Alone(l)
    BY <2>1 DEF CandleInv, CandleTypeOK, Alone
  <2>3. CandleTypeOK'
    BY <1>1, <2>1, ZenonT(30) DEF CandleInv, CandleTypeOK, LoaderStates
  <2>4. \A k \in Loaders : LoaderOK(k)'
    BY <1>1, <2>2 DEF CandleInv, LoaderOK, Alone
  <2>5. Owners' = Owners
    <3>1. \A k \in Loaders : k \in Owners' <=> k \in Owners
      BY <1>1, <2>2 DEF Owners, In, Alone
    <3> QED BY <3>1 DEF Owners
  <2>6. ComboInv'
    BY <1>1, <1>2, <2>2, <2>5 DEF CandleInv, ComboInv, In, Alone
  <2> QED BY <1>1, <1>2, <2>3, <2>4, <2>6 DEF CandleInv
<1>3. CASE script = "period" /\ GoesTo(l, "failed")
  <2>1. /\ CandleTypeOK' /\ \A k \in Loaders : LoaderOK(k)'
        /\ PeriodInv'
    BY <1>1, <1>3, OnlyItsState DEF CandleInv, CandleTypeOK, LoaderStates
  <2> QED BY <1>1, <1>3, <2>1 DEF CandleInv
<1>4. ASSUME script = "period", periodFile.holes = {}, periodFile.size % 2 = 0,
             loader' = [loader EXCEPT ![l].state = "returned",
                                      ![l].market = periodFile.size \div 2,
                                      ![l].beside = Writing # {} \/ cutShort]
      PROVE  CandleInv'
  <2> DEFINE beside == Writing # {} \/ cutShort
  <2>1. /\ loader'[l].state = "returned" /\ loader'[l].market = periodFile.size \div 2
        /\ loader'[l].beside = beside /\ Alone(l)
    BY <1>4 DEF CandleInv, CandleTypeOK, Alone
  <2>2. ~beside => periodFile.size \div 2 \in fetched
    <3> SUFFICES ASSUME ~beside PROVE periodFile.size \div 2 \in fetched
      OBVIOUS
    <3>1. PICK months \in fetched : periodFile.size = 2 * months
      BY <1>1, <1>4 DEF CandleInv, PeriodInv, EndIsKnown, In
    <3>2. months \in Nat
      BY <3>1 DEF CandleInv, CandleTypeOK
    <3>3. periodFile.size \div 2 = months
      BY <3>1, <3>2
    <3> QED BY <3>1, <3>3
  <2>3. PeriodInv'
    <3>1. FileIsGood'
      BY <1>1, <1>4, <2>1, PeriodFileStays DEF CandleInv, Alone, Writing, In
    <3> HIDE DEF beside
    <3>2. \A k \in Loaders :
            /\ loader'[k].state \notin {"locking", "waiting", "checking", "leaving", "failing"}
            /\ loader'[k].state \in {"reading", "writing"} => periodFile'.exists
            /\ loader'[k].state = "returned" => loader'[k].market \in fetched' \/ loader'[k].beside
      <4> SUFFICES ASSUME NEW k \in Loaders
                   PROVE  /\ loader'[k].state \notin {"locking", "waiting", "checking", "leaving", "failing"}
                          /\ loader'[k].state \in {"reading", "writing"} => periodFile'.exists
                          /\ loader'[k].state = "returned" => loader'[k].market \in fetched' \/ loader'[k].beside
        OBVIOUS
      <4>1. CASE k = l
        <5> DEFINE half == periodFile.size \div 2
        <5>1. loader'[l].state = "returned" /\ loader'[l].market = half /\ loader'[l].beside = beside
          BY <2>1
        <5>2. ~beside => half \in fetched
          BY <2>2
        <5> HIDE DEF half, beside
        <5> QED BY <1>1, <4>1, <5>1, <5>2
      <4>2. CASE k # l
        <5>1. loader'[k] = loader[k]
          BY <2>1, <4>2 DEF Alone
        <5>2. /\ loader[k].state \notin {"locking", "waiting", "checking", "leaving", "failing"}
              /\ loader[k].state \in {"reading", "writing"} => periodFile.exists
              /\ loader[k].state = "returned" => loader[k].market \in fetched \/ loader[k].beside
          BY <1>4 DEF CandleInv, PeriodInv, In
        <5> QED BY <1>1, <5>1, <5>2
      <4> QED BY <4>1, <4>2
    <3>3. periodFile'.exists => fetched' # {}
      BY <1>1, <1>4 DEF CandleInv, PeriodInv
    <3> QED BY <3>1, <3>2, <3>3 DEF PeriodInv, In, FileIsGood
  <2>4. \A k \in Loaders : LoaderOK(k)'
    BY <1>1, <2>1 DEF CandleInv, LoaderOK, Alone
  <2>5. CandleTypeOK'
    <3>1. periodFile.size \div 2 \in 0..Months
      BY MonthsAssumption DEF CandleInv, CandleTypeOK
    <3>2. beside \in BOOLEAN
      OBVIOUS
    <3> DEFINE half == periodFile.size \div 2
    <3>3. loader' = [loader EXCEPT ![l].state = "returned", ![l].market = half, ![l].beside = beside]
      BY <1>4
    <3> HIDE DEF beside, half
    <3> DEFINE Records == [state : LoaderStates, market : 0..Months, written : Nat, beside : BOOLEAN]
               old == loader[l]
               new == [old EXCEPT !.state = "returned", !.market = half, !.beside = beside]
    <3>5. old \in Records /\ half \in 0..Months /\ "returned" \in LoaderStates
      BY <3>1 DEF CandleInv, CandleTypeOK, LoaderStates, half
    <3> HIDE DEF old
    <3>6. new \in Records
      BY <3>2, <3>5
    <3>7. loader' = [loader EXCEPT ![l] = new]
      BY <3>3 DEF old
    <3> HIDE DEF new, Records
    <3>8. loader \in [Loaders -> Records]
      BY DEF CandleInv, CandleTypeOK, Records
    <3>9. loader' \in [Loaders -> Records]
      BY <3>6, <3>7, <3>8
    <3>4. loader' \in [Loaders -> [state : LoaderStates, market : 0..Months, written : Nat, beside : BOOLEAN]]
      BY <3>9 DEF Records
    <3> QED BY <1>1, <3>4 DEF CandleInv, CandleTypeOK
  <2> QED BY <1>1, <1>4, <2>3, <2>4, <2>5 DEF CandleInv
<1>5. script \in {"combo", "period"}
  BY DEF CandleInv, CandleTypeOK
<1> QED BY <1>2, <1>3, <1>4, <1>5 DEF ReadCandles

LEMMA LoaderDiesKeeps ==
    ASSUME CandleInv, NEW l \in Loaders, LoaderDies(l)
    PROVE  CandleInv'
<1>1. /\ loader[l].state \notin {"idle", "returned", "failed", "dead"} /\ GoesTo(l, "dead")
      /\ stopped' = (stopped \/ l \in Owners) /\ cutShort' = (cutShort \/ l \in Writing)
      /\ UNCHANGED <<script, onExchange, comboFile, comboLock, periodFile, loads, fetched>>
  BY DEF LoaderDies, In
<1>2. loader' = [loader EXCEPT ![l].state = "dead"]
  BY <1>1 DEF GoesTo
<1>3. loader'[l].state = "dead" /\ Alone(l)
  BY <1>2 DEF CandleInv, CandleTypeOK, Alone
<1>4. CandleTypeOK'
  <2>1. stopped' \in BOOLEAN /\ cutShort' \in BOOLEAN
    BY <1>1
  <2> QED BY <1>1, <1>2, <2>1 DEF CandleInv, CandleTypeOK, LoaderStates
<1>5. \A k \in Loaders : LoaderOK(k)'
  BY <1>1, <1>3 DEF CandleInv, LoaderOK, Alone
<1>6. ASSUME script = "combo" PROVE ComboInv'
  <2>1. Owners' = Owners \ {l}
    <3>1. \A k \in Loaders : k \in Owners' <=> k \in Owners \ {l}
      BY <1>3 DEF Owners, In, Alone
    <3> QED BY <3>1 DEF Owners
  <2>2. CASE l \in Owners
    BY <1>1, <1>3, <1>6, <2>1, <2>2 DEF CandleInv, ComboInv, In, Alone
  <2>3. CASE l \notin Owners
    <3>1. Owners' = Owners /\ stopped' = stopped
      BY <1>1, <2>1, <2>3 DEF CandleInv, CandleTypeOK
    <3> QED BY <1>1, <1>3, <1>6, <3>1 DEF CandleInv, ComboInv, In, Alone
  <2> QED BY <2>2, <2>3
<1>7. ASSUME script = "period" PROVE PeriodInv'
  <2>1. CASE l \in Writing
    <3>1. cutShort' = TRUE
      BY <1>1, <2>1
    <3> QED BY <1>1, <1>3, <1>7, <3>1 DEF CandleInv, PeriodInv, In, Alone
  <2>2. CASE l \notin Writing
    <3>1. cutShort' = cutShort
      BY <1>1, <2>2 DEF CandleInv, CandleTypeOK
    <3>2. FileIsGood'
      BY <1>1, <1>3, <1>7, <2>2, <3>1, PeriodFileStays DEF CandleInv, Alone, Writing
    <3> QED BY <1>1, <1>3, <1>7, <3>2 DEF CandleInv, PeriodInv, In, Alone, FileIsGood
  <2> QED BY <2>1, <2>2
<1> QED BY <1>1, <1>4, <1>5, <1>6, <1>7 DEF CandleInv

LEMMA NobodyLoads ==
    ASSUME MonthsAssumption, CandleInv, MonthIsPublished \/ UNCHANGED candleVars
    PROVE  CandleInv'
<1>1. UNCHANGED <<script, comboFile, comboLock, periodFile, loader, loads, fetched, stopped, cutShort>>
  BY DEF MonthIsPublished, candleVars
<1>2. onExchange' \in 1..Months
  BY MonthsAssumption DEF MonthIsPublished, candleVars, CandleInv, CandleTypeOK
<1>3. CandleTypeOK'
  BY <1>1, <1>2 DEF CandleInv, CandleTypeOK
<1>4. \A k \in Loaders : LoaderOK(k)'
  BY <1>1 DEF CandleInv, LoaderOK
<1>5. Owners' = Owners /\ Writing' = Writing
  BY <1>1 DEF Owners, Writing, In
<1>6. script = "combo" => ComboInv'
  BY <1>1, <1>5 DEF CandleInv, ComboInv, In
<1>7. script = "period" => PeriodInv'
  BY <1>1, <1>5 DEF CandleInv, PeriodInv, In, EndIsKnown, FileFills
<1> QED BY <1>1, <1>3, <1>4, <1>6, <1>7 DEF CandleInv

LEMMA CandlesInitInv ==
    ASSUME MonthsAssumption, CandlesInit
    PROVE  CandleInv
<1>1. \A l \in Loaders : loader[l] = Fresh("idle")
  BY DEF CandlesInit
<1>2. /\ Fresh("idle") \in [state : LoaderStates, market : 0..Months, written : Nat, beside : BOOLEAN]
      /\ Fresh("idle").state = "idle"
  BY MonthsAssumption DEF Fresh, LoaderStates, NoMarket
<1>3. /\ periodFile \in [size : Nat, holes : SUBSET Nat, exists : BOOLEAN]
      /\ periodFile.size <= 2 * Months /\ ~periodFile.exists
  BY MonthsAssumption DEF CandlesInit, NoFile
<1>4. CandleTypeOK
  <2> DEFINE Records == [state : LoaderStates, market : 0..Months, written : Nat, beside : BOOLEAN]
  <2>1. loader = [l \in Loaders |-> Fresh("idle")] /\ Fresh("idle") \in Records
    BY <1>2 DEF CandlesInit
  <2> HIDE DEF Records
  <2>2. loader \in [Loaders -> Records]
    BY <2>1
  <2>3. comboFile \in 0..Months
    BY MonthsAssumption DEF CandlesInit, NoMarket
  <2>4. /\ script \in {"combo", "period"} /\ onExchange \in 1..Months /\ comboLock \in BOOLEAN
        /\ fetched \subseteq 1..Months /\ stopped \in BOOLEAN /\ cutShort \in BOOLEAN
    BY DEF CandlesInit
  <2> QED BY <1>3, <2>2, <2>3, <2>4 DEF CandleTypeOK, Records
<1>5. \A l \in Loaders : LoaderOK(l)
  BY <1>1, <1>2 DEF LoaderOK
<1>6. Owners = {}
  BY <1>1, <1>2 DEF Owners, In
<1>7. ComboInv
  BY <1>1, <1>2, <1>6 DEF CandlesInit, ComboInv, In
<1>8. PeriodInv
  BY <1>1, <1>2, <1>3 DEF PeriodInv, In
<1> QED BY <1>4, <1>5, <1>7, <1>8 DEF CandleInv

LEMMA CandlesAreWhole ==
    ASSUME CandleInv
    PROVE  CandleMarketsAreWhole
<1>1. ComboMarketIsOne
  <2> SUFFICES ASSUME script = "combo"
               PROVE  /\ \A l \in Returned : loader[l].market = comboFile /\ comboFile \in fetched
                      /\ Cardinality(Owners) <= 1
                      /\ Owners # {} => comboLock
    BY DEF ComboMarketIsOne
  <2>1. Cardinality(Owners) <= 1
    <3>1. CASE Owners = {}
      BY <3>1, FS_EmptySet
    <3>2. CASE Owners # {}
      <4>1. PICK l \in Owners : Owners = {l}
        BY <3>2 DEF CandleInv, ComboInv
      <4> QED BY <4>1, FS_Singleton
    <3> QED BY <3>1, <3>2
  <2> QED BY <2>1 DEF CandleInv, ComboInv, Returned, In
<1>2. WaitersAreServed
  BY DEF WaitersAreServed, CandleInv, ComboInv
<1>3. PeriodMarketsAreWhole
  <2> SUFFICES ASSUME script = "period"
               PROVE  /\ \A l \in Returned : loader[l].market \in fetched \/ loader[l].beside
                      /\ periodFile.exists /\ Writing = {} /\ ~cutShort /\ Cardinality(fetched) = 1 =>
                           /\ periodFile.holes = {}
                           /\ \A months \in fetched : periodFile.size = 2 * months
    BY DEF PeriodMarketsAreWhole
  <2>1. \A l \in Returned : loader[l].market \in fetched \/ loader[l].beside
    BY DEF CandleInv, PeriodInv, Returned, In
  <2>2. ASSUME periodFile.exists, Writing = {}, ~cutShort, Cardinality(fetched) = 1
        PROVE  periodFile.holes = {} /\ \A months \in fetched : periodFile.size = 2 * months
    <3>1. IsFiniteSet(fetched)
      <4>1. IsFiniteSet(1..Months) /\ fetched \subseteq 1..Months
        <5>1. 1 \in Int /\ Months \in Int
          BY MonthsAssumption
        <5>2. IsFiniteSet(1..Months)
          BY <5>1, FS_Interval
        <5> QED BY <5>2 DEF CandleInv, CandleTypeOK
      <4> QED BY <4>1, FS_Subset
    <3>2. PICK months : fetched = {months}
      BY <2>2, <3>1, FS_Singleton
    <3>3. months \in 1..Months
      BY <3>2 DEF CandleInv, CandleTypeOK
    <3>4. FileFills(months)
      BY <2>2, <3>2, <3>3 DEF CandleInv, PeriodInv
    <3> QED BY <2>2, <3>2, <3>4 DEF FileFills
  <2> QED BY <2>1, <2>2
<1> QED BY <1>1, <1>2, <1>3 DEF CandleMarketsAreWhole

(* However processes share a candle cache, fail and die: the combo searches *)
(* run on one market that one process fetched whole, nobody waits for a     *)
(* market that nobody fetches while no owner of the lock stops, and a       *)
(* period file is whole once its writers are done.                          *)
THEOREM CandlesStayWhole == CandlesSpec => []CandleMarketsAreWhole
<1>1. CandlesInit => CandleInv
  BY CandlesInitInv, MonthsAssumption
<1>2. CandleInv /\ [CandlesNext]_candleVars => CandleInv'
  BY BeginLoadKeeps, AcquireLockKeeps, WaitForFileKeeps, CheckAgainKeeps, FetchMonthKeeps,
     FetchFailsKeeps, SaveComboKeeps, UnlockKeeps, OpenPeriodKeeps, WriteHalfKeeps,
     ReadCandlesKeeps, LoaderDiesKeeps, NobodyLoads, MonthsAssumption
  DEF CandlesNext
<1>3. CandleInv => CandleMarketsAreWhole
  BY CandlesAreWhole
<1> QED BY <1>1, <1>2, <1>3, PTL DEF CandlesSpec

-----------------------------------------------------------------------------
(* Model and mapping of a runtime.                                          *)

(* What an experiment may write: the cash outcome or a valid model with the *)
(* mapping that was composed of it.                                         *)
Results == {o \in FrozenOutcomes \union {CashOutcome} : o # CashOutcome => ModelIsValid(o.model)}

Names == {"model", "mapping"}

(* A file, damaged or not, still carries the hash of one result.            *)
FileOK(file, name) ==
    \/ file = AbsentFile
    \/ /\ file = [format |-> file.format, kind |-> file.kind, payload |-> file.payload, hash |-> file.hash]
       /\ \E o \in Results : file.kind = FileContent(o, name).kind /\ file.hash = FileContent(o, name).hash

FilesInv ==
    /\ DOMAIN files = Names
    /\ \A name \in Names : FileOK(files[name], name)
    /\ DOMAIN publisher = Publishers
    /\ \A p \in Publishers :
         /\ publisher[p] = [outcome |-> publisher[p].outcome, left |-> publisher[p].left]
         /\ publisher[p].outcome \in Results
         /\ publisher[p].left \in {<<>>, <<"model", "mapping">>, <<"mapping">>}

OfResult(model, settings) ==
    /\ settings.modelPath = "model"
    /\ \E o \in Results : o # CashOutcome /\ model = o.model
    /\ model.symbol = settings.symbol /\ model.schema = settings.schema

(* While no file changes, what was read is what is there.                   *)
Holds(name, content) == files[name].format = "json" /\ files[name].payload = content

RuntimeInv ==
    /\ runtime.state \in {"none", "model", "mapping", "link", "composed", "refused"}
    /\ runtime.state # "none" => runtime.settings \in RuntimeSettings
    /\ runtime.state \in {"mapping", "link", "composed"} => OfResult(runtime.model, runtime.settings)
    /\ runtime.state \in {"link", "composed"} =>
         \E o \in Results : /\ Fits(o, runtime.settings)
                            /\ runtime.model = o.model /\ runtime.mapping = o.mapping
    /\ runtime.state = "composed" => runtime.snapshot = SnapshotOf(runtime.mapping)
    /\ undisturbed /\ runtime.state \in {"mapping", "link"} => Holds("model", runtime.model)
    /\ undisturbed /\ runtime.state = "link" => Holds("mapping", runtime.mapping)
    /\ undisturbed /\ runtime.state = "refused" =>
         ~\E o \in FrozenOutcomes : Fits(o, runtime.settings) /\ \A name \in Names : files[name] = FileContent(o, name)

ArtifactsInv == FilesInv /\ RuntimeInv

-----------------------------------------------------------------------------
(* What the mapping of a result says of its model. *)
LEMMA MappingOfResult ==
    ASSUME NEW o \in FrozenOutcomes, o # CashOutcome
    PROVE  /\ o.mapping.modelHash = o.model
           /\ o.mapping.fingerprintHash = ModelFingerprintHash(o.model)
           /\ o.mapping.clusters = ArtifactHashes(o.model)
           /\ o.mapping.policy = RuntimePolicy(o.model)
           /\ MappingIsValid(o.mapping)
<1> DEFINE m == ComposedMapping(o.model, o.mapping.candidates, o.mapping.provenance, o.mapping.decisions)
<1>1. o.mapping = m /\ MappingIsValid(o.mapping)
  BY ResultsAssumption
<1>2. /\ m.modelHash = o.model /\ m.fingerprintHash = ModelFingerprintHash(o.model)
      /\ m.clusters = ArtifactHashes(o.model) /\ m.policy = RuntimePolicy(o.model)
  BY DEF ComposedMapping, ModelArtifactHash
<1> HIDE DEF m
<1> QED BY <1>1, <1>2

(* A file that can be read is that of a result of its kind.                 *)
LEMMA ReadableIsOfResult ==
    ASSUME NEW name \in Names, FileOK(files[name], name)
    PROVE  /\ Readable(files[name], "regime_model") =>
                name = "model" /\ \E o \in Results : o # CashOutcome /\ files[name].payload = o.model
           /\ Readable(files[name], "strategy_mapping") =>
                name = "mapping" /\ \E o \in Results : o # CashOutcome /\ files[name].payload = o.mapping
<1>1. CASE files[name] = AbsentFile
  BY <1>1 DEF Readable, AbsentFile
<1>2. CASE files[name] # AbsentFile
  <2>1. PICK o \in Results : files[name].kind = FileContent(o, name).kind /\ files[name].hash = FileContent(o, name).hash
    BY <1>2 DEF FileOK
  <2>2. /\ o = CashOutcome => FileContent(o, name).kind = "cash_only"
        /\ o # CashOutcome /\ name = "model" =>
             FileContent(o, name).kind = "regime_model" /\ FileContent(o, name).hash = o.model
        /\ o # CashOutcome /\ name = "mapping" =>
             FileContent(o, name).kind = "strategy_mapping" /\ FileContent(o, name).hash = o.mapping
    BY DEF FileContent, CashOnly, Envelope
  <2> QED BY <2>1, <2>2 DEF Readable, Names
<1> QED BY <1>1, <1>2

(* The files of a result can be read.                                       *)
LEMMA ContentIsReadable ==
    ASSUME NEW o, o # CashOutcome
    PROVE  /\ Readable(FileContent(o, "model"), "regime_model")
           /\ FileContent(o, "model").payload = o.model /\ FileContent(o, "model").format = "json"
           /\ Readable(FileContent(o, "mapping"), "strategy_mapping")
           /\ FileContent(o, "mapping").payload = o.mapping /\ FileContent(o, "mapping").format = "json"
BY DEF FileContent, Envelope, Readable

LEMMA ContentIsOK ==
    ASSUME NEW o \in Results, NEW name \in Names
    PROVE  FileOK(FileContent(o, name), name)
BY DEF FileOK, FileContent, CashOnly, Envelope, Names

LEMMA ArtifactsInitInv ==
    ASSUME ArtifactsInit
    PROVE  ArtifactsInv
<1>1. DOMAIN files = Names /\ \A name \in Names : files[name] = AbsentFile
  BY DEF ArtifactsInit, Names
<1>2. \A p \in Publishers : publisher[p] = Done
  BY DEF ArtifactsInit
<1>3. CashOutcome \in Results
  BY DEF Results
<1>4. FilesInv
  BY <1>1, <1>2, <1>3 DEF ArtifactsInit, FilesInv, FileOK, Done
<1>5. RuntimeInv
  BY DEF ArtifactsInit, RuntimeInv, NoRuntime
<1> QED BY <1>4, <1>5 DEF ArtifactsInv

LEMMA FilesKept ==
    ASSUME FilesInv, RuntimeInv, ArtifactsNext
    PROVE  FilesInv'
<1>1. ASSUME NEW p \in Publishers, Freeze(p) PROVE FilesInv'
  <2>1. PICK o \in FrozenOutcomes :
          /\ o # CashOutcome => ModelIsValid(o.model) /\ LinkIsValid(o.mapping, o.model)
          /\ publisher' = [publisher EXCEPT ![p] = [outcome |-> o, left |-> <<"model", "mapping">>]]
    BY <1>1 DEF Freeze
  <2>2. files' = files /\ o \in Results
    BY <1>1, <2>1 DEF Freeze, Results
  <2>3. /\ DOMAIN publisher' = Publishers
        /\ publisher'[p] = [outcome |-> o, left |-> <<"model", "mapping">>]
        /\ \A q \in Publishers : q # p => publisher'[q] = publisher[q]
    BY <2>1 DEF FilesInv
  <2> QED BY <2>2, <2>3 DEF FilesInv
<1>2. ASSUME NEW p \in Publishers, WriteNext(p) PROVE FilesInv'
  <2> DEFINE w == publisher[p]
  <2>1. /\ w = [outcome |-> w.outcome, left |-> w.left] /\ w.outcome \in Results
        /\ w.left = <<"model", "mapping">> \/ w.left = <<"mapping">>
    BY <1>2 DEF FilesInv, WriteNext
  <2>2. /\ Head(w.left) \in Names
        /\ Len(w.left) = 1 \/ Tail(w.left) = <<"mapping">>
    <3>1. CASE w.left = <<"model", "mapping">>
      <4> DEFINE two == <<"model", "mapping">>
      <4>1. Head(two) = "model" /\ Tail(two) = <<"mapping">>
        OBVIOUS
      <4> HIDE DEF two
      <4> QED BY <3>1, <4>1 DEF Names, two
    <3>2. CASE w.left = <<"mapping">>
      <4> DEFINE one == <<"mapping">>
      <4>1. Head(one) = "mapping" /\ Len(one) = 1
        OBVIOUS
      <4> HIDE DEF one
      <4> QED BY <3>2, <4>1 DEF Names, one
    <3> QED BY <2>1, <3>1, <3>2
  <2>3. /\ files' = [files EXCEPT ![Head(w.left)] = FileContent(w.outcome, Head(w.left))]
        /\ publisher' = [publisher EXCEPT ![p] =
                           IF Len(w.left) = 1 THEN Done
                           ELSE [outcome |-> w.outcome, left |-> Tail(w.left)]]
    BY <1>2 DEF WriteNext
  <2>5. Done = [outcome |-> CashOutcome, left |-> <<>>] /\ CashOutcome \in Results
    BY DEF Done, Results
  <2> HIDE DEF w
  <2>6. /\ DOMAIN publisher' = Publishers
        /\ \A q \in Publishers : q # p => publisher'[q] = publisher[q]
        /\ publisher'[p] = Done \/ publisher'[p] = [outcome |-> w.outcome, left |-> <<"mapping">>]
    BY <2>2, <2>3 DEF FilesInv
  <2>7. /\ publisher'[p] = [outcome |-> publisher'[p].outcome, left |-> publisher'[p].left]
        /\ publisher'[p].outcome \in Results
        /\ publisher'[p].left \in {<<>>, <<"model", "mapping">>, <<"mapping">>}
    BY <2>1, <2>5, <2>6
  <2>8. DOMAIN files' = Names /\ \A name \in Names : FileOK(files'[name], name)
    <3>1. FileOK(FileContent(w.outcome, Head(w.left)), Head(w.left))
      BY <2>1, <2>2, ContentIsOK
    <3>2. /\ DOMAIN files' = Names
          /\ \A name \in Names : files'[name] = IF name = Head(w.left) THEN FileContent(w.outcome, name) ELSE files[name]
      BY <2>2, <2>3 DEF FilesInv
    <3> QED BY <3>1, <3>2 DEF FilesInv
  <2> QED BY <2>6, <2>7, <2>8 DEF FilesInv
<1>3. ASSUME NEW p \in Publishers, PublisherCrash(p) PROVE FilesInv'
  <2>1. files' = files /\ publisher' = [publisher EXCEPT ![p] = Done]
    BY <1>3 DEF PublisherCrash
  <2>2. Done = [outcome |-> CashOutcome, left |-> <<>>] /\ CashOutcome \in Results
    BY DEF Done, Results
  <2>3. /\ DOMAIN publisher' = Publishers /\ publisher'[p] = Done
        /\ \A q \in Publishers : q # p => publisher'[q] = publisher[q]
    BY <2>1 DEF FilesInv
  <2> QED BY <2>1, <2>2, <2>3 DEF FilesInv
<1>4. ASSUME NEW name \in DOMAIN files, Damage(name) PROVE FilesInv'
  <2> DEFINE old == files[name]
  <2>1. /\ name \in Names /\ publisher' = publisher /\ old.format = "json"
        /\ files' = [files EXCEPT ![name] = Truncated(old)] \/ files' = [files EXCEPT ![name] = Altered(old)]
    BY <1>4 DEF Damage, FilesInv
  <2>2. /\ old = [format |-> old.format, kind |-> old.kind, payload |-> old.payload, hash |-> old.hash]
        /\ \E o \in Results : old.kind = FileContent(o, name).kind /\ old.hash = FileContent(o, name).hash
    <3>1. old # AbsentFile
      BY <2>1 DEF AbsentFile
    <3> QED BY <2>1, <3>1 DEF FilesInv, FileOK
  <2> HIDE DEF old
  <2>3. /\ Truncated(old) = [format |-> "malformed", kind |-> old.kind, payload |-> old.payload, hash |-> old.hash]
        /\ Altered(old) = [format |-> old.format, kind |-> old.kind, payload |-> [altered |-> TRUE], hash |-> old.hash]
    <3> DEFINE a == old.format
               b == old.kind
               c == old.payload
               d == old.hash
    <3>1. old = [format |-> a, kind |-> b, payload |-> c, hash |-> d]
      BY <2>2
    <3> HIDE DEF a, b, c, d
    <3>2. Truncated(old) = [format |-> "malformed", kind |-> b, payload |-> c, hash |-> d]
      BY <3>1 DEF Truncated
    <3>3. Altered(old) = [format |-> a, kind |-> b, payload |-> [altered |-> TRUE], hash |-> d]
      <4> DEFINE x == [altered |-> TRUE]
      <4>1. Altered(old) = [old EXCEPT !.payload = x]
        BY DEF Altered
      <4> HIDE DEF x
      <4>2. [old EXCEPT !.payload = x] = [format |-> a, kind |-> b, payload |-> x, hash |-> d]
        BY <3>1
      <4> QED BY <4>1, <4>2 DEF x
    <3> QED BY <3>2, <3>3 DEF a, b, c, d
  <2>4. FileOK(Truncated(old), name) /\ FileOK(Altered(old), name)
    BY <2>2, <2>3 DEF FileOK
  <2>5. /\ DOMAIN files' = Names /\ \A other \in Names : other # name => files'[other] = files[other]
        /\ files'[name] = Truncated(old) \/ files'[name] = Altered(old)
    BY <2>1 DEF FilesInv
  <2> QED BY <2>1, <2>4, <2>5 DEF FilesInv
<1>5. CASE CreateRuntime \/ ReadModel \/ ReadMapping \/ ReadLinkedModel
  <2>1. UNCHANGED <<files, publisher>>
    BY <1>5 DEF CreateRuntime, ReadModel, ReadMapping, ReadLinkedModel
  <2> QED BY <2>1 DEF FilesInv
<1> QED BY <1>1, <1>2, <1>3, <1>4, <1>5 DEF ArtifactsNext

(* A file changes, or none does and the runtime stays as it is.             *)
LEMMA RuntimeStays ==
    ASSUME RuntimeInv, runtime' = runtime, UNCHANGED <<files, undisturbed>> \/ undisturbed' = FALSE
    PROVE  RuntimeInv'
BY DEF RuntimeInv, OfResult, Holds

LEMMA CreateRuntimeKeeps ==
    ASSUME FilesInv, RuntimeInv, CreateRuntime
    PROVE  RuntimeInv'
<1>1. PICK settings \in RuntimeSettings :
        runtime' = [state |-> IF AbsentFile \in {files["model"], files["mapping"]} THEN "refused" ELSE "model",
                    settings |-> settings]
  BY DEF CreateRuntime
<1>2. files' = files
  BY DEF CreateRuntime
<1>3. ASSUME NEW o \in FrozenOutcomes, o # CashOutcome, \A name \in Names : files[name] = FileContent(o, name)
      PROVE  AbsentFile \notin {files["model"], files["mapping"]}
  <2>1. files["model"].format = "json" /\ files["mapping"].format = "json"
    BY <1>3, ContentIsReadable DEF Names
  <2> QED BY <2>1 DEF AbsentFile
<1>4. /\ runtime'.settings = settings /\ runtime'.state \in {"model", "refused"}
      /\ runtime'.state = "refused" => AbsentFile \in {files["model"], files["mapping"]}
  BY <1>1
<1> DEFINE r == runtime'
<1>5. ASSUME NEW o \in FrozenOutcomes, r.state = "refused", Fits(o, r.settings),
             \A name \in Names : files'[name] = FileContent(o, name)
      PROVE  FALSE
  <2>1. o # CashOutcome
    BY <1>5 DEF Fits
  <2> QED BY <1>2, <1>3, <1>4, <1>5, <2>1
<1>6. r.state \in {"none", "model", "mapping", "link", "composed", "refused"} /\ r.settings \in RuntimeSettings
  BY <1>4
<1>7. r.state \notin {"mapping", "link", "composed"}
  BY <1>4
<1> QED BY <1>5, <1>6, <1>7 DEF RuntimeInv

(* A result that fits the settings, and whose files are in place, can be    *)
(* read.                                                                    *)
LEMMA FitCanBeRead ==
    ASSUME FilesInv, NEW o \in FrozenOutcomes, NEW settings, Fits(o, settings),
           \A name \in Names : files[name] = FileContent(o, name)
    PROVE  /\ o # CashOutcome /\ o \in Results
           /\ Readable(files["model"], "regime_model") /\ files["model"].payload = o.model
           /\ Readable(files["mapping"], "strategy_mapping") /\ files["mapping"].payload = o.mapping
           /\ ModelIsValid(o.model)
<1>1. /\ o # CashOutcome
      /\ Readable(files["model"], "regime_model") /\ files["model"].payload = o.model
      /\ Readable(files["mapping"], "strategy_mapping") /\ files["mapping"].payload = o.mapping
  BY ContentIsReadable DEF Fits, Names
<1>2. ModelIsValid(o.model)
  <2>1. FileOK(files["model"], "model") /\ "model" \in Names
    BY DEF FilesInv, Names
  <2>2. PICK q \in Results : q # CashOutcome /\ files["model"].payload = q.model
    BY <1>1, <2>1, ReadableIsOfResult
  <2> QED BY <1>1, <2>2 DEF Results
<1> QED BY <1>1, <1>2 DEF Results

LEMMA ReadModelKeeps ==
    ASSUME FilesInv, RuntimeInv, ReadModel
    PROVE  RuntimeInv'
<1> DEFINE s == runtime.settings
           file == files[s.modelPath]
           ok == /\ Readable(file, "regime_model") /\ ModelIsValid(file.payload)
                 /\ file.payload.symbol = s.symbol /\ file.payload.schema = s.schema
<1>1. /\ runtime.state = "model" /\ s \in RuntimeSettings /\ s.modelPath \in Names
      /\ files' = files /\ undisturbed' = undisturbed
  BY SettingsAssumption DEF ReadModel, RuntimeInv, Names
<1>2. IF ok THEN runtime' = [state |-> "mapping", settings |-> s, model |-> file.payload] ELSE Refuse
  BY DEF ReadModel
<1>3. CASE ok
  <2>1. s.modelPath = "model" /\ \E o \in Results : o # CashOutcome /\ file.payload = o.model
    BY <1>1, <1>3, ReadableIsOfResult DEF FilesInv
  <2>2. OfResult(file.payload, s) /\ Holds("model", file.payload)
    BY <1>3, <2>1 DEF OfResult, Holds, Readable
  <2> HIDE DEF file, s
  <2>3. runtime'.state = "mapping" /\ runtime'.settings = s /\ runtime'.model = file.payload
    BY <1>2, <1>3
  <2> QED BY <1>1, <2>2, <2>3 DEF RuntimeInv, OfResult, Holds
<1>4. CASE ~ok
  <2>1. \A o \in FrozenOutcomes : ~(Fits(o, s) /\ \A name \in Names : files[name] = FileContent(o, name))
    <3> SUFFICES ASSUME NEW o \in FrozenOutcomes, Fits(o, s), \A name \in Names : files[name] = FileContent(o, name)
                 PROVE  FALSE
      OBVIOUS
    <3>1. /\ Readable(files["model"], "regime_model") /\ files["model"].payload = o.model /\ ModelIsValid(o.model)
      BY FitCanBeRead
    <3> QED BY <1>4, <3>1 DEF Fits
  <2> HIDE DEF ok, s
  <2>2. runtime'.state = "refused" /\ runtime'.settings = s
    BY <1>2, <1>4 DEF Refuse, s
  <2> QED BY <1>1, <2>1, <2>2 DEF RuntimeInv
<1> QED BY <1>3, <1>4

(* The model that is read belongs to the settings, and the mapping that is  *)
(* expected after it is that of the same result.                            *)
LEMMA ReadMappingKeeps ==
    ASSUME FilesInv, RuntimeInv, ReadMapping
    PROVE  RuntimeInv'
<1> DEFINE s == runtime.settings
           file == files[s.mappingPath]
           ok == Readable(file, "strategy_mapping") /\ MappingIsExpected(file.payload)
<1>1. /\ runtime.state = "mapping" /\ s \in RuntimeSettings /\ s.mappingPath \in Names
      /\ files' = files /\ undisturbed' = undisturbed
      /\ OfResult(runtime.model, s)
      /\ undisturbed => Holds("model", runtime.model)
  BY SettingsAssumption DEF ReadMapping, RuntimeInv, Names
<1>2. IF ok THEN runtime' = [state |-> "link", settings |-> s, model |-> runtime.model, mapping |-> file.payload] ELSE Refuse
  BY DEF ReadMapping
<1>3. CASE ok
  <2>1. PICK o \in Results : o # CashOutcome /\ file.payload = o.mapping /\ s.mappingPath = "mapping"
    BY <1>1, <1>3, ReadableIsOfResult DEF FilesInv
  <2>2. o \in FrozenOutcomes
    BY <2>1 DEF Results
  <2>3. o.mapping.modelHash = o.model
    BY <2>1, <2>2, MappingOfResult
  <2>4. /\ o.mapping.modelHash = runtime.model
        /\ o.mapping.definition = s.definition /\ o.mapping.universe = s.universe
        /\ o.mapping.provenance = s.provenance
    BY <1>3, <2>1 DEF MappingIsExpected, ModelArtifactHash
  <2>5. Fits(o, s)
    BY <1>1, <2>1, <2>3, <2>4 DEF Fits, OfResult
  <2>6. Holds("mapping", file.payload)
    BY <1>3, <2>1 DEF Holds, Readable
  <2> DEFINE m == runtime.model
             read == file.payload
  <2>7. /\ m = o.model /\ read = o.mapping /\ OfResult(m, s) /\ Holds("mapping", read)
        /\ undisturbed => Holds("model", m)
    BY <1>1, <2>1, <2>3, <2>4, <2>6
  <2>8. runtime' = [state |-> "link", settings |-> s, model |-> m, mapping |-> read]
    BY <1>2, <1>3
  <2> HIDE DEF m, read, s, file, ok
  <2>9. runtime'.state = "link" /\ runtime'.settings = s /\ runtime'.model = m /\ runtime'.mapping = read
    BY <2>8
  <2> QED BY <1>1, <2>5, <2>7, <2>9 DEF RuntimeInv, OfResult, Holds
<1>4. CASE ~ok
  <2>1. ASSUME undisturbed, NEW o \in FrozenOutcomes, Fits(o, s), \A name \in Names : files[name] = FileContent(o, name)
        PROVE  FALSE
    <3>1. /\ files["model"].payload = o.model /\ files["mapping"].payload = o.mapping
          /\ Readable(files["mapping"], "strategy_mapping") /\ o # CashOutcome
      BY <2>1, FitCanBeRead
    <3>2. runtime.model = o.model /\ file.payload = o.mapping /\ Readable(file, "strategy_mapping")
      BY <1>1, <2>1, <3>1 DEF Holds, Fits
    <3>3. /\ o.mapping.modelHash = o.model /\ o.mapping.fingerprintHash = ModelFingerprintHash(o.model)
          /\ MappingIsValid(o.mapping)
      BY <3>1, MappingOfResult
    <3>4. MappingIsExpected(file.payload)
      BY <2>1, <3>2, <3>3 DEF MappingIsExpected, Fits, ModelArtifactHash
    <3> QED BY <1>4, <3>2, <3>4
  <2> HIDE DEF ok, s
  <2>2. runtime'.state = "refused" /\ runtime'.settings = s
    BY <1>2, <1>4 DEF Refuse, s
  <2> QED BY <1>1, <2>1, <2>2 DEF RuntimeInv
<1> QED BY <1>3, <1>4

(* The model that is read again is the one the mapping binds.               *)
LEMMA ReadLinkedModelKeeps ==
    ASSUME FilesInv, RuntimeInv, ReadLinkedModel
    PROVE  RuntimeInv'
<1> DEFINE s == runtime.settings
           m == runtime.model
           g == runtime.mapping
           file == files[s.modelPath]
           ok == /\ Readable(file, "regime_model") /\ LinkIsValid(g, file.payload) /\ LoadedPairIsValid(m, g)
<1>1. /\ runtime.state = "link" /\ s \in RuntimeSettings
      /\ files' = files /\ undisturbed' = undisturbed
      /\ OfResult(m, s)
      /\ undisturbed => Holds("model", m) /\ Holds("mapping", g)
      /\ \E o \in Results : Fits(o, s) /\ m = o.model /\ g = o.mapping
  BY DEF ReadLinkedModel, RuntimeInv
<1>2. IF ok THEN runtime' = [state |-> "composed", settings |-> s, model |-> m, mapping |-> g, snapshot |-> SnapshotOf(g)]
            ELSE Refuse
  BY DEF ReadLinkedModel
<1>3. CASE ok
  <2> HIDE DEF s, m, g, file, ok
  <2>1. /\ runtime'.state = "composed" /\ runtime'.settings = s /\ runtime'.model = m
        /\ runtime'.mapping = g /\ runtime'.snapshot = SnapshotOf(g)
    BY <1>2, <1>3
  <2> QED BY <1>1, <2>1 DEF RuntimeInv, OfResult, Holds
<1>4. CASE ~ok
  <2>1. ASSUME undisturbed, NEW o \in FrozenOutcomes, Fits(o, s), \A name \in Names : files[name] = FileContent(o, name)
        PROVE  FALSE
    <3>1. /\ files["model"].payload = o.model /\ files["mapping"].payload = o.mapping
          /\ Readable(files["model"], "regime_model") /\ o # CashOutcome
      BY <2>1, FitCanBeRead
    <3>2. m = o.model /\ g = o.mapping /\ file.payload = o.model /\ Readable(file, "regime_model")
      BY <1>1, <2>1, <3>1 DEF Holds, Fits
    <3>3. /\ o.mapping.modelHash = o.model /\ o.mapping.fingerprintHash = ModelFingerprintHash(o.model)
          /\ o.mapping.clusters = ArtifactHashes(o.model) /\ o.mapping.policy = RuntimePolicy(o.model)
      BY <3>1, MappingOfResult
    <3>4. RuntimePolicy(o.model).type = o.model.type
      BY DEF RuntimePolicy
    <3>5. LinkIsValid(g, file.payload) /\ LoadedPairIsValid(m, g)
      BY <3>2, <3>3, <3>4 DEF LinkIsValid, LoadedPairIsValid, ModelArtifactHash
    <3> QED BY <1>4, <3>2, <3>5
  <2> HIDE DEF ok, s
  <2>2. runtime'.state = "refused" /\ runtime'.settings = s
    BY <1>2, <1>4 DEF Refuse, s
  <2> QED BY <1>1, <2>1, <2>2 DEF RuntimeInv
<1> QED BY <1>3, <1>4

LEMMA ArtifactsNextInv ==
    ASSUME ArtifactsInv, [ArtifactsNext]_artifactVars
    PROVE  ArtifactsInv'
<1>1. CASE ArtifactsNext
  <2>1. FilesInv'
    BY <1>1, FilesKept DEF ArtifactsInv
  <2>2. CASE \E p \in Publishers : Freeze(p) \/ WriteNext(p) \/ PublisherCrash(p)
    <3>1. runtime' = runtime /\ (UNCHANGED <<files, undisturbed>> \/ undisturbed' = FALSE)
      BY <2>2 DEF Freeze, WriteNext, PublisherCrash
    <3> QED BY <2>1, <3>1, RuntimeStays DEF ArtifactsInv
  <2>3. CASE \E name \in DOMAIN files : Damage(name)
    <3>1. runtime' = runtime /\ undisturbed' = FALSE
      BY <2>3 DEF Damage
    <3> QED BY <2>1, <3>1, RuntimeStays DEF ArtifactsInv
  <2>4. CASE CreateRuntime
    BY <2>1, <2>4, CreateRuntimeKeeps DEF ArtifactsInv
  <2>5. CASE ReadModel
    BY <2>1, <2>5, ReadModelKeeps DEF ArtifactsInv
  <2>6. CASE ReadMapping
    BY <2>1, <2>6, ReadMappingKeeps DEF ArtifactsInv
  <2>7. CASE ReadLinkedModel
    BY <2>1, <2>7, ReadLinkedModelKeeps DEF ArtifactsInv
  <2> QED BY <1>1, <2>2, <2>3, <2>4, <2>5, <2>6, <2>7 DEF ArtifactsNext
<1>2. CASE UNCHANGED artifactVars
  BY <1>2 DEF artifactVars, ArtifactsInv, FilesInv, RuntimeInv, OfResult, Holds
<1> QED BY <1>1, <1>2

LEMMA SoundWhenComposed ==
    ASSUME ArtifactsInv
    PROVE  CompositionIsSound
<1>1. ASSUME runtime.state = "composed"
      PROVE  \E o \in FrozenOutcomes :
               /\ Fits(o, runtime.settings) /\ runtime.model = o.model /\ runtime.mapping = o.mapping
               /\ \A i \in DOMAIN o.mapping.clusters :
                    <<ArtifactHashes(o.model)[i], o.mapping.decisions[i]>> \in runtime.snapshot.strategies
  <2>1. PICK o \in Results : Fits(o, runtime.settings) /\ runtime.model = o.model /\ runtime.mapping = o.mapping
    BY <1>1 DEF ArtifactsInv, RuntimeInv
  <2>2. o \in FrozenOutcomes /\ o # CashOutcome
    BY <2>1 DEF Results, Fits
  <2>3. o.mapping.clusters = ArtifactHashes(o.model)
    BY <2>2, MappingOfResult
  <2>4. runtime.snapshot = SnapshotOf(o.mapping)
    BY <1>1, <2>1 DEF ArtifactsInv, RuntimeInv
  <2>5. runtime.snapshot.strategies =
          {<<o.mapping.clusters[i], o.mapping.decisions[i]>> : i \in DOMAIN o.mapping.clusters}
    BY <2>4 DEF SnapshotOf
  <2> QED BY <2>1, <2>2, <2>3, <2>5
<1>2. ASSUME runtime.state = "refused", undisturbed
      PROVE  ~\E o \in FrozenOutcomes :
                Fits(o, runtime.settings) /\ \A name \in DOMAIN files : files[name] = FileContent(o, name)
  BY <1>2 DEF ArtifactsInv, RuntimeInv, FilesInv
<1> QED BY <1>1, <1>2 DEF CompositionIsSound

(* Whatever the order in which experiments, crashes and damage change the   *)
(* two files while a runtime reads them: a composed runtime runs model and  *)
(* mapping of one frozen result, and a sound publication is not refused.    *)
THEOREM CompositionStaysSound == ArtifactsSpec => []CompositionIsSound
<1>1. ArtifactsInit => ArtifactsInv
  BY ArtifactsInitInv
<1>2. ArtifactsInv /\ [ArtifactsNext]_artifactVars => ArtifactsInv'
  BY ArtifactsNextInv
<1>3. ArtifactsInv => CompositionIsSound
  BY SoundWhenComposed
<1> QED BY <1>1, <1>2, <1>3, PTL DEF ArtifactsSpec
-----------------------------------------------------------------------------
(* The providers of published feature caches.                               *)

AllContents == UNION {Contents[s] : s \in Shards}

Covers(told) == told.start <= RequiredStart /\ End(told) >= RequiredEnd

(* A file that was opened was indexed by a manifest that covers the window. *)
ShardOK(shard) ==
    \E told, content \in AllContents, full \in BOOLEAN :
        /\ Covers(told)
        /\ IndexIsValid(told, content, TargetCount(told, full))
        /\ shard = ShardOf(told, content, TargetCount(told, full))

ReaderOK(r) ==
    /\ reader[r].state \in {"none", "opening", "open", "failed", "closed"}
    /\ reader[r].state = "opening" =>
         /\ reader[r] = [state |-> "opening", verifyFull |-> reader[r].verifyFull,
                         shards |-> reader[r].shards, plan |-> reader[r].plan]
         /\ reader[r].verifyFull \in BOOLEAN
         /\ reader[r].shards \in Seq({reader[r].shards[i] : i \in DOMAIN reader[r].shards})
         /\ reader[r].plan \in Seq([shard : Shards, manifest : {m \in AllContents : Covers(m)}])
         /\ Len(reader[r].shards) < Len(reader[r].plan)
         /\ \A i \in DOMAIN reader[r].shards : ShardOK(reader[r].shards[i])
    /\ reader[r].state = "open" =>
         /\ reader[r] = [state |-> "open", shards |-> reader[r].shards, cache |-> reader[r].cache]
         /\ DOMAIN reader[r].shards = 1..Len(reader[r].shards)
         /\ \A i \in DOMAIN reader[r].shards : ShardOK(reader[r].shards[i])
         /\ reader[r].cache \in Seq({reader[r].cache[i] : i \in DOMAIN reader[r].cache})
         /\ \A i \in DOMAIN reader[r].cache :
              reader[r].cache[i].answer = Merge(reader[r].shards, reader[r].cache[i].asOf)

(* A manifest on disk is that of the rows beside it. *)
DisksOK ==
    /\ rowFile \in [Shards -> AllContents]
    /\ DOMAIN manifestFile = Shards /\ DOMAIN rebuilding = Shards
    /\ \A s \in Shards :
         /\ manifestFile[s] \in {NoContent, rowFile[s]}
         /\ rebuilding[s] \in AllContents \union {NoContent}
         /\ rebuilding[s] # NoContent => manifestFile[s] = NoContent

MemoryOK ==
    /\ memory.state \in {"none", "failed", "validated", "described", "loaded"}
    /\ memory.state \in {"validated", "described"} => memory.shard \in Shards
    /\ memory.state = "described" => (same => memory.manifest = rowFile[memory.shard])
    /\ memory.state = "loaded" =>
         /\ memory.content \in AllContents
         /\ same => memory.hash = memory.content
         /\ \A i \in DOMAIN memory.content.rows :
              FeaturesAreValid(memory.content.rows[i], MeasuredAt(memory.content.start, i))

ProvidersInv ==
    /\ DisksOK /\ MemoryOK
    /\ DOMAIN reader = Readers /\ \A r \in Readers : ReaderOK(r)

-----------------------------------------------------------------------------
(* Minutes.                                                                 *)

LEMMA Stretches ==
    ASSUME NEW a \in Int, NEW b \in Int, a <= b
    PROVE  Minute * a <= Minute * b
<1>1. (b - a) * Minute >= 0
  BY MinuteAssumption
<1> QED BY <1>1, MinuteAssumption

(* The last whole minute of a time.                                         *)
LEMMA LastMinute ==
    ASSUME NEW x \in Int, NEW k \in Int
    PROVE  /\ x \div Minute \in Int
           /\ Minute * (x \div Minute) <= x
           /\ Minute * k <= x <=> k <= x \div Minute
<1> DEFINE q == x \div Minute
<1>1. q \in Int /\ x = Minute * q + (x % Minute) /\ x % Minute \in 0..(Minute - 1)
  BY MinuteAssumption
<1>2. ASSUME k <= q PROVE Minute * k <= x
  BY <1>1, <1>2, Stretches, MinuteAssumption
<1>3. ASSUME Minute * k <= x PROVE k <= q
  <2>1. ASSUME q + 1 <= k PROVE FALSE
    <3>1. Minute * (q + 1) <= Minute * k
      BY <1>1, <2>1, Stretches
    <3>2. Minute * (q + 1) = Minute * q + Minute
      BY <1>1, MinuteAssumption
    <3> HIDE DEF q
    <3> DEFINE mq == Minute * q  mk == Minute * k  rest == x % Minute
    <3>3. mq \in Int /\ mk \in Int /\ rest \in Int /\ Minute \in Int
      BY <1>1, MinuteAssumption
    <3> QED BY <1>1, <1>3, <3>1, <3>2, <3>3
  <2> QED BY <1>1, <2>1
<1>4. Minute * q <= x
  <2> HIDE DEF q
  <2> DEFINE mq == Minute * q  rest == x % Minute
  <2>1. mq \in Int /\ rest \in Int /\ rest >= 0 /\ x = mq + rest
    BY <1>1, MinuteAssumption
  <2> HIDE DEF mq, rest
  <2>2. mq <= x
    BY <2>1
  <2> QED BY <2>2 DEF mq
<1> HIDE DEF q
<1>5. Minute * k <= x <=> k <= q
  BY <1>2, <1>3
<1> QED BY <1>1, <1>4, <1>5 DEF q

LEMMA WholeMinutes ==
    ASSUME NEW x \in Int, x % Minute = 0
    PROVE  x \div Minute \in Int /\ x = Minute * (x \div Minute)
BY MinuteAssumption

LEMMA SameMinute ==
    ASSUME NEW a \in Int, NEW b \in Int, Minute * a = Minute * b
    PROVE  a = b
<1>1. Minute * (a - b) = 0
  BY MinuteAssumption
<1> QED BY <1>1, MinuteAssumption

-----------------------------------------------------------------------------
(* Contents of a cache.                                                     *)

LEMMA ContentIs ==
    ASSUME NEW content \in AllContents
    PROVE  /\ content = [start |-> content.start, sources |-> content.sources,
                         rows |-> content.rows]
           /\ content # NoContent
           /\ content.start \in Int /\ content.start % Minute = 0
           /\ "all" \notin content.sources
           /\ Len(content.rows) \in Nat \ {0}
           /\ DOMAIN content.rows = 1..Len(content.rows)
           /\ content.rows \in Seq({content.rows[i] : i \in DOMAIN content.rows})
           /\ \A i \in 1..Len(content.rows) :
                /\ content.rows[i] = [features |-> content.rows[i].features,
                                      unavailable |-> content.rows[i].unavailable]
                /\ \A f \in content.rows[i].features : f.available \in Int
<1>1. PICK s \in Shards : content \in Contents[s]
  BY DEF AllContents
<1>2. /\ content = [start |-> content.start, sources |-> content.sources,
                    rows |-> content.rows]
      /\ content.start \in Int /\ content.start % Minute = 0
      /\ "all" \notin content.sources
      /\ Len(content.rows) \in Nat \ {0}
      /\ content.rows = [i \in 1..Len(content.rows) |->
                              [features |-> content.rows[i].features,
                               unavailable |-> content.rows[i].unavailable]]
      /\ \A i \in 1..Len(content.rows) : \A f \in content.rows[i].features :
              f.available \in Int
  BY <1>1, ContentsAssumption
<1>3. DOMAIN content.rows = 1..Len(content.rows)
  BY <1>2
<1>4. content.rows \in Seq({content.rows[i] : i \in DOMAIN content.rows})
  <2>1. content.rows \in [1..Len(content.rows) -> {content.rows[i] : i \in DOMAIN content.rows}]
    BY <1>2, <1>3
  <2> QED BY <1>2, <2>1, SeqDef
<1>5. \A i \in 1..Len(content.rows) :
         content.rows[i] = [features |-> content.rows[i].features,
                            unavailable |-> content.rows[i].unavailable]
  BY <1>2
<1>6. content # NoContent
  <2>1. NoContent.rows = <<>>
    BY DEF NoContent
  <2> QED BY <1>2, <2>1
<1> QED BY <1>2, <1>3, <1>4, <1>5, <1>6

(* The minute that a file beginning at start answers with.                  *)
MinuteAt(start, asOf) == (asOf - start) \div Minute

(* The in-memory provider answers with the row of the last whole minute.    *)
LEMMA InMemoryIs ==
    ASSUME NEW content \in AllContents, NEW asOf \in Int,
           NEW i \in Int, i = MinuteAt(content.start, asOf), i <= Len(content.rows)
    PROVE  /\ i < 1 => InMemory(content, asOf) = [values |-> {}, unavailable |-> {}]
           /\ i >= 1 => InMemory(content, asOf) = [values |-> content.rows[i].features,
                                                   unavailable |-> content.rows[i].unavailable]
<1> DEFINE measured == {j \in DOMAIN content.rows : MeasuredAt(content.start, j) <= asOf}
<1>1. measured = {j \in 1..Len(content.rows) : j <= i}
  <2>1. DOMAIN content.rows = 1..Len(content.rows) /\ content.start \in Int
    BY ContentIs
  <2>2. \A j \in Int : MeasuredAt(content.start, j) <= asOf <=> j <= i
    <3> TAKE j \in Int
    <3>1. Minute * j <= asOf - content.start <=> j <= i
      <4>1. asOf - content.start \in Int
        BY <2>1
      <4> QED BY <4>1, LastMinute DEF MinuteAt
    <3>2. Minute * j \in Int
      BY MinuteAssumption
    <3> QED BY <2>1, <3>1, <3>2 DEF MeasuredAt
  <2> QED BY <2>1, <2>2
<1>2. Len(content.rows) \in Nat
  BY ContentIs
<1>3. ASSUME i < 1 PROVE InMemory(content, asOf) = [values |-> {}, unavailable |-> {}]
  <2>1. measured = {}
    BY <1>1, <1>2, <1>3
  <2> QED BY <2>1 DEF InMemory
<1>4. ASSUME i >= 1
      PROVE  InMemory(content, asOf) = [values |-> content.rows[i].features,
                                        unavailable |-> content.rows[i].unavailable]
  <2> DEFINE last == CHOOSE k \in measured : \A j \in measured : j <= k
  <2>1. i \in measured /\ \A j \in measured : j <= i
    BY <1>1, <1>2, <1>4
  <2>2. last \in measured /\ \A j \in measured : j <= last
    BY <2>1
  <2>3. last = i
    <3>1. last \in Int /\ i <= last /\ last <= i
      BY <1>1, <2>1, <2>2
    <3> QED BY <3>1
  <2>4. measured # {}
    BY <2>1
  <2> QED BY <2>3, <2>4 DEF InMemory
<1> QED BY <1>3, <1>4

-----------------------------------------------------------------------------
(* Opened files.                                                            *)

(* An opened file answers with row i, that of the last whole minute; its    *)
(* slice has that row if it was measured in the window, and no row that is  *)
(* not in the file.                                                         *)
AnswersWith(shard, asOf, i) ==
    /\ shard.content \in AllContents /\ shard.start = shard.content.start
    /\ i \in Int /\ i <= Len(shard.content.rows)
    /\ "all" \notin shard.sources
    /\ RowAt(shard, asOf) = IF i < 1 THEN NoRow ELSE shard.content.rows[i]
    /\ i >= 1 =>
         /\ MeasuredAt(shard.start, i) <= asOf
         /\ \A f \in shard.content.rows[i].features : f.available <= asOf
         /\ shard.content.rows[i].unavailable \subseteq shard.sources
         /\ <<MeasuredAt(shard.start, i), shard.content.rows[i]>> \in shard.slice
    /\ \A entry \in shard.slice :
         \E j \in 1..Len(shard.content.rows) :
             entry = <<MeasuredAt(shard.start, j), shard.content.rows[j]>>

LEMMA OpenedShard ==
    ASSUME NEW shard, ShardOK(shard), NEW asOf \in Window
    PROVE  AnswersWith(shard, asOf, MinuteAt(shard.start, asOf))
<1> DEFINE i == MinuteAt(shard.start, asOf)
<1>1. PICK told \in AllContents, content \in AllContents, full \in BOOLEAN :
         /\ Covers(told)
         /\ IndexIsValid(told, content, TargetCount(told, full))
         /\ shard = ShardOf(told, content, TargetCount(told, full))
  BY DEF ShardOK
<1> DEFINE target == TargetCount(told, full)
<1>2. /\ told.start \in Int /\ Len(told.rows) \in Nat /\ told.start % Minute = 0
      /\ "all" \notin told.sources
  BY ContentIs
<1>3. /\ content.start \in Int /\ Len(content.rows) \in Nat
      /\ content.rows \in Seq({content.rows[j] : j \in DOMAIN content.rows})
      /\ DOMAIN content.rows = 1..Len(content.rows)
      /\ \A j \in 1..Len(content.rows) : \A f \in content.rows[j].features : f.available \in Int
  BY ContentIs
<1>4. /\ shard.start = told.start /\ shard.count = Len(told.rows)
      /\ shard.sources = told.sources /\ shard.content = content
      /\ shard.index = SubSeq(content.rows, 1, target)
      /\ shard.slice = SliceOf(told, content, target)
  BY <1>1 DEF ShardOf
<1>5. content.start = told.start /\ target >= 1 /\ target <= Len(content.rows)
  BY <1>1 DEF IndexIsValid
<1>6. asOf \in Int /\ RequiredStart <= asOf /\ asOf <= RequiredEnd
      /\ RequiredStart \in Int /\ RequiredEnd \in Int
  BY WindowAssumption DEF Window
<1> DEFINE whole == (RequiredEnd - told.start) \div Minute
<1>7. whole \in Int /\ i \in Int /\ i <= whole /\ Minute * i <= asOf - told.start
  <2>1. asOf - told.start \in Int /\ RequiredEnd - told.start \in Int
    BY <1>2, <1>6
  <2>2. i \in Int /\ Minute * i <= asOf - told.start
    BY <1>4, <2>1, LastMinute DEF MinuteAt
  <2>3. Minute * i <= RequiredEnd - told.start
    <3>1. Minute * i \in Int
      BY <2>2, MinuteAssumption
    <3> QED BY <1>2, <1>6, <2>2, <3>1
  <2> QED BY <2>1, <2>2, <2>3, LastMinute
<1>8. whole <= Len(told.rows)
  <2>1. RequiredEnd - told.start \in Int
    BY <1>2, <1>6
  <2>2. RequiredEnd <= told.start + Minute * Len(told.rows)
    BY <1>1 DEF Covers, End
  <2>3. Minute * whole <= RequiredEnd - told.start
    BY <2>1, LastMinute
  <2>4. ASSUME Len(told.rows) + 1 <= whole PROVE FALSE
    <3>1. Minute * (Len(told.rows) + 1) <= Minute * whole
      BY <1>2, <1>7, <2>4, Stretches
    <3>2. Minute * (Len(told.rows) + 1) = Minute * Len(told.rows) + Minute
      BY <1>2, MinuteAssumption
    <3> DEFINE a == Minute * Len(told.rows)  b == Minute * whole
    <3>3. a \in Int /\ b \in Int /\ Minute \in Int /\ Minute > 0
      BY <1>2, <1>7, MinuteAssumption
    <3>4. RequiredEnd <= told.start + a /\ b <= RequiredEnd - told.start /\ a + Minute <= b
      BY <2>2, <2>3, <3>1, <3>2
    <3> HIDE DEF a, b
    <3> QED BY <1>2, <1>6, <3>3, <3>4
  <2> QED BY <1>2, <1>7, <2>4
<1>9. target \in Int /\ whole <= target /\ target <= Len(told.rows)
  BY <1>2, <1>7, <1>8 DEF TargetCount
<1>10. i <= target
  BY <1>7, <1>9
<1>11. Len(shard.index) = target /\ \A j \in 1..target : shard.index[j] = content.rows[j]
  <2> DEFINE S == {content.rows[j] : j \in DOMAIN content.rows}
  <2>1. content.rows \in Seq(S) /\ 1 \in 1..(Len(content.rows) + 1) /\ target \in 0..Len(content.rows)
    BY <1>3, <1>5, <1>9
  <2> HIDE DEF S
  <2>2. /\ Len(SubSeq(content.rows, 1, target)) = IF 1 <= target THEN target - 1 + 1 ELSE 0
        /\ \A j \in 1..(target - 1 + 1) : SubSeq(content.rows, 1, target)[j] = content.rows[1 + j - 1]
    BY <2>1, SubSeqProperties
  <2> QED BY <1>3, <1>4, <1>5, <1>9, <2>2
<1>12. RowAt(shard, asOf) = IF i < 1 THEN NoRow ELSE shard.content.rows[i]
  <2>1. CASE i < 1
    BY <2>1 DEF RowAt, MinuteAt
  <2>2. CASE ~(i < 1)
    <3>1. i \in 1..target /\ ~(i > shard.count) /\ ~(i > Len(shard.index))
      BY <1>2, <1>4, <1>7, <1>9, <1>10, <1>11, <2>2
    <3> QED BY <1>4, <1>11, <2>2, <3>1 DEF RowAt, MinuteAt
  <2> QED BY <2>1, <2>2
<1>13. ASSUME i >= 1
       PROVE  /\ MeasuredAt(shard.start, i) <= asOf
              /\ \A f \in shard.content.rows[i].features : f.available <= asOf
              /\ shard.content.rows[i].unavailable \subseteq shard.sources
              /\ <<MeasuredAt(shard.start, i), shard.content.rows[i]>> \in shard.slice
  <2>1. i \in 1..target
    BY <1>7, <1>9, <1>10, <1>13
  <2>2. MeasuredAt(told.start, i) \in Int /\ MeasuredAt(told.start, i) <= asOf
    <3>1. Minute * i \in Int
      BY <1>7, MinuteAssumption
    <3> QED BY <1>2, <1>6, <1>7, <3>1 DEF MeasuredAt
  <2>3. RequiredStart <= MeasuredAt(told.start, i)
    <3> DEFINE a == RequiredStart \div Minute  b == told.start \div Minute
    <3>1. a \in Int /\ b \in Int /\ RequiredStart = Minute * a /\ told.start = Minute * b
      BY <1>2, <1>6, WindowAssumption, WholeMinutes
    <3> HIDE DEF a, b
    <3>2. Minute * (a - b) = RequiredStart - told.start
      BY <3>1, MinuteAssumption
    <3>3. Minute * (a - b) <= asOf - told.start
      BY <1>2, <1>6, <3>2
    <3>4. a - b <= i
      <4>1. asOf - told.start \in Int /\ a - b \in Int
        BY <1>2, <1>6, <3>1
      <4> QED BY <1>4, <3>3, <4>1, LastMinute DEF MinuteAt
    <3>5. Minute * (a - b) <= Minute * i
      BY <1>7, <3>1, <3>4, Stretches
    <3>6. Minute * i \in Int
      BY <1>7, MinuteAssumption
    <3> QED BY <1>2, <1>6, <3>2, <3>5, <3>6 DEF MeasuredAt
  <2>4. \A f \in content.rows[i].features : f.available <= MeasuredAt(told.start, i)
    BY <1>1, <2>1 DEF IndexIsValid
  <2>5. \A f \in content.rows[i].features : f.available \in Int
    <3>1. i \in 1..Len(content.rows)
      BY <1>3, <1>5, <1>9, <2>1
    <3> QED BY <1>3, <3>1
  <2>6. content.rows[i].unavailable \subseteq told.sources
    BY <1>1, <2>1 DEF IndexIsValid
  <2>7. <<MeasuredAt(told.start, i), content.rows[i]>> \in SliceOf(told, content, target)
    <3>1. MeasuredAt(told.start, i) \in Window
      BY <1>6, <2>2, <2>3 DEF Window
    <3> QED BY <2>1, <3>1 DEF SliceOf
  <2> QED BY <1>4, <1>6, <2>2, <2>4, <2>5, <2>6, <2>7
<1>14. \A entry \in shard.slice :
          \E j \in 1..Len(shard.content.rows) :
              entry = <<MeasuredAt(shard.start, j), shard.content.rows[j]>>
  <2>1. 1..target \subseteq 1..Len(content.rows)
    BY <1>3, <1>5, <1>9
  <2> QED BY <1>4, <2>1 DEF SliceOf
<1>15. shard.content \in AllContents /\ shard.start = shard.content.start /\ "all" \notin shard.sources
  BY <1>2, <1>4, <1>5
<1>16. i \in Int /\ i <= Len(shard.content.rows)
  BY <1>3, <1>4, <1>5, <1>7, <1>9, <1>10
<1> QED BY <1>12, <1>13, <1>14, <1>15, <1>16 DEF AnswersWith

(* Two files with the same slice answer alike.                              *)
LEMMA SameSlice ==
    ASSUME NEW one, ShardOK(one), NEW two, ShardOK(two), one.slice = two.slice,
           NEW asOf \in Window
    PROVE  RowAt(one, asOf) = RowAt(two, asOf)
<1> DEFINE i == MinuteAt(one.start, asOf)  k == MinuteAt(two.start, asOf)
<1>1. ASSUME NEW a, ShardOK(a), NEW b, ShardOK(b), a.slice = b.slice,
             MinuteAt(a.start, asOf) >= 1
      PROVE  \E j \in Int :
               /\ 1 <= j /\ j <= MinuteAt(b.start, asOf)
               /\ MeasuredAt(b.start, j) = MeasuredAt(a.start, MinuteAt(a.start, asOf))
               /\ b.content.rows[j] = a.content.rows[MinuteAt(a.start, asOf)]
  <2> DEFINE p == MinuteAt(a.start, asOf)
  <2>1. /\ <<MeasuredAt(a.start, p), a.content.rows[p]>> \in a.slice
        /\ MeasuredAt(a.start, p) <= asOf
    BY <1>1, OpenedShard DEF AnswersWith
  <2>2. /\ b.content \in AllContents /\ b.start = b.content.start
        /\ \A entry \in b.slice :
              \E j \in 1..Len(b.content.rows) :
                  entry = <<MeasuredAt(b.start, j), b.content.rows[j]>>
    BY <1>1, OpenedShard DEF AnswersWith
  <2>3. PICK j \in 1..Len(b.content.rows) :
           <<MeasuredAt(a.start, p), a.content.rows[p]>> = <<MeasuredAt(b.start, j), b.content.rows[j]>>
    BY <1>1, <2>1, <2>2
  <2>4. Len(b.content.rows) \in Nat /\ b.start \in Int
    BY <2>2, ContentIs
  <2>5. MeasuredAt(b.start, j) <= asOf
    BY <2>1, <2>3
  <2>6. j <= MinuteAt(b.start, asOf)
    <3>1. asOf \in Int /\ asOf - b.start \in Int
      BY <2>4, WindowAssumption DEF Window
    <3>2. Minute * j <= asOf - b.start
      <4>1. Minute * j \in Int
        BY <2>4, MinuteAssumption
      <4> QED BY <2>4, <2>5, <3>1, <4>1 DEF MeasuredAt
    <3> QED BY <2>4, <3>1, <3>2, LastMinute DEF MinuteAt
  <2> QED BY <2>3, <2>4, <2>6
<1>2. /\ i \in Int /\ k \in Int /\ one.start \in Int /\ two.start \in Int
      /\ RowAt(one, asOf) = IF i < 1 THEN NoRow ELSE one.content.rows[i]
      /\ RowAt(two, asOf) = IF k < 1 THEN NoRow ELSE two.content.rows[k]
  <2>1. /\ i \in Int /\ one.content \in AllContents /\ one.start = one.content.start
        /\ RowAt(one, asOf) = IF i < 1 THEN NoRow ELSE one.content.rows[i]
    BY OpenedShard DEF AnswersWith
  <2>2. /\ k \in Int /\ two.content \in AllContents /\ two.start = two.content.start
        /\ RowAt(two, asOf) = IF k < 1 THEN NoRow ELSE two.content.rows[k]
    BY OpenedShard DEF AnswersWith
  <2> QED BY <2>1, <2>2, ContentIs
<1>3. CASE i < 1
  <2>1. ~(k >= 1)
    <3>1. ASSUME k >= 1 PROVE \E j \in Int : 1 <= j /\ j <= i
      BY <1>1, <3>1
    <3> QED BY <1>2, <1>3, <3>1
  <2> QED BY <1>2, <1>3, <2>1
<1>4. CASE i >= 1
  <2>1. PICK j \in Int : /\ 1 <= j /\ j <= k
                         /\ MeasuredAt(two.start, j) = MeasuredAt(one.start, i)
                         /\ two.content.rows[j] = one.content.rows[i]
    BY <1>1, <1>4
  <2>2. k >= 1
    BY <1>2, <2>1
  <2>3. PICK h \in Int : /\ 1 <= h /\ h <= i
                         /\ MeasuredAt(one.start, h) = MeasuredAt(two.start, k)
    BY <1>1, <2>2
  <2>4. Minute * j \in Int /\ Minute * i \in Int /\ Minute * h \in Int /\ Minute * k \in Int
    BY <1>2, MinuteAssumption
  <2>5. Minute * j <= Minute * k /\ Minute * h <= Minute * i
    BY <1>2, <2>1, <2>3, Stretches
  <2>6. Minute * j = Minute * k
    BY <1>2, <2>1, <2>3, <2>4, <2>5 DEF MeasuredAt
  <2>7. j = k
    BY <1>2, <2>6, SameMinute
  <2> QED BY <1>2, <1>4, <2>1, <2>2, <2>7
<1> QED BY <1>2, <1>3, <1>4

(* What the opened files of a provider say, the answers of the provider say. *)
LEMMA MergeIsHeld ==
    ASSUME NEW shards, \A i \in DOMAIN shards : ShardOK(shards[i]), NEW asOf \in Window,
           ~Merge(shards, asOf).conflict
    PROVE  /\ Merge(shards, asOf).values = HeldAt(shards, asOf)
           /\ \A f \in Merge(shards, asOf).values : f.available <= asOf
<1> DEFINE found == [i \in DOMAIN shards |-> RowAt(shards[i], asOf)]
           values == UNION {found[i].features : i \in DOMAIN found}
<1>1. Merge(shards, asOf).values = values
  BY DEF Merge
<1>2. \A i \in DOMAIN shards :
         /\ found[i].features = InMemory(shards[i].content, asOf).values
         /\ \A f \in found[i].features : f.available <= asOf
  <2> TAKE i \in DOMAIN shards
  <2> DEFINE k == MinuteAt(shards[i].start, asOf)
  <2>1. /\ shards[i].content \in AllContents /\ shards[i].start = shards[i].content.start
        /\ k \in Int /\ k <= Len(shards[i].content.rows)
        /\ RowAt(shards[i], asOf) = IF k < 1 THEN NoRow ELSE shards[i].content.rows[k]
        /\ k >= 1 => \A f \in shards[i].content.rows[k].features : f.available <= asOf
    BY OpenedShard DEF AnswersWith
  <2>2. asOf \in Int
    BY WindowAssumption DEF Window
  <2>3. /\ k < 1 => InMemory(shards[i].content, asOf) = [values |-> {}, unavailable |-> {}]
        /\ k >= 1 => InMemory(shards[i].content, asOf) =
                        [values |-> shards[i].content.rows[k].features,
                         unavailable |-> shards[i].content.rows[k].unavailable]
    BY <2>1, <2>2, InMemoryIs
  <2> HIDE DEF k
  <2>4. found[i] = RowAt(shards[i], asOf)
    OBVIOUS
  <2> HIDE DEF found
  <2>5. CASE k < 1
    BY <2>1, <2>3, <2>4, <2>5 DEF NoRow
  <2>6. CASE k >= 1
    BY <2>1, <2>3, <2>4, <2>6
  <2> QED BY <2>1, <2>5, <2>6
<1>3. values = HeldAt(shards, asOf)
  BY <1>2 DEF HeldAt
<1>4. \A f \in values : f.available <= asOf
  BY <1>2
<1> QED BY <1>1, <1>3, <1>4

(* What is answered from rows.                                              *)
AnswerOf(found, missing) ==
    LET values == UNION {found[i].features : i \in DOMAIN found}
        conflict == \E f, g \in values : f.name = g.name /\ f # g
    IN  [conflict |-> conflict, values |-> IF conflict THEN {} ELSE values,
         unavailable |-> IF conflict THEN {} ELSE missing \ {f.source : f \in values}]

(* Providers with one identity answer alike.                                *)
LEMMA SameIdentity ==
    ASSUME NEW one, \A i \in DOMAIN one : ShardOK(one[i]),
           NEW two, \A i \in DOMAIN two : ShardOK(two[i]),
           IdentityOf(one) = IdentityOf(two), NEW asOf \in Window
    PROVE  Merge(one, asOf) = Merge(two, asOf)
<1>1. DOMAIN one = DOMAIN two
  BY DEF IdentityOf
<1>2. \A i \in DOMAIN one : one[i].sources = two[i].sources /\ one[i].slice = two[i].slice
  BY <1>1 DEF IdentityOf
<1>3. [i \in DOMAIN one |-> RowAt(one[i], asOf)] = [i \in DOMAIN two |-> RowAt(two[i], asOf)]
  <2>1. \A i \in DOMAIN one : RowAt(one[i], asOf) = RowAt(two[i], asOf)
    BY <1>1, <1>2, SameSlice
  <2> QED BY <1>1, <2>1
<1> DEFINE found == [i \in DOMAIN one |-> RowAt(one[i], asOf)]
           missing(shards) == UNION {IF found[i] = NoRow THEN shards[i].sources
                                     ELSE found[i].unavailable : i \in DOMAIN found}
<1>4. missing(one) = missing(two)
  <2>1. \A i \in DOMAIN found : one[i].sources = two[i].sources
    BY <1>2
  <2> HIDE DEF found
  <2> QED BY <2>1
<1>5. Merge(one, asOf) = AnswerOf(found, missing(one))
  BY DEF Merge, AnswerOf
<1>6. Merge(two, asOf) = AnswerOf(found, missing(two))
  <2> DEFINE others == [i \in DOMAIN two |-> RowAt(two[i], asOf)]
  <2>1. Merge(two, asOf) = AnswerOf(others, UNION {IF others[i] = NoRow THEN two[i].sources
                                     ELSE others[i].unavailable : i \in DOMAIN others})
    BY DEF Merge, AnswerOf
  <2> HIDE DEF found, others
  <2> QED BY <1>3, <2>1 DEF found, others
<1> QED BY <1>4, <1>5, <1>6

(* A provider of one file answers as the in-memory provider of that file.   *)
LEMMA OneFile ==
    ASSUME NEW shards, Len(shards) = 1, DOMAIN shards = 1..1, ShardOK(shards[1]), NEW asOf \in Window,
           \A i \in DOMAIN shards[1].content.rows :
               FeaturesAreValid(shards[1].content.rows[i], MeasuredAt(shards[1].content.start, i)),
           MeasuredAt(shards[1].content.start, 1) <= asOf
    PROVE  /\ Merge(shards, asOf).values = InMemory(shards[1].content, asOf).values
           /\ Merge(shards, asOf).unavailable = InMemory(shards[1].content, asOf).unavailable
<1> DEFINE content == shards[1].content
           k == MinuteAt(shards[1].start, asOf)
           row == content.rows[k]
<1>1. /\ content \in AllContents /\ shards[1].start = content.start
      /\ k \in Int /\ k <= Len(content.rows) /\ "all" \notin shards[1].sources
      /\ RowAt(shards[1], asOf) = IF k < 1 THEN NoRow ELSE row
      /\ k >= 1 => row.unavailable \subseteq shards[1].sources
  BY OpenedShard DEF AnswersWith
<1>2. asOf \in Int /\ content.start \in Int /\ DOMAIN content.rows = 1..Len(content.rows)
      /\ Len(content.rows) \in Nat
  <2>1. asOf \in Int
    BY WindowAssumption DEF Window
  <2> HIDE DEF content
  <2> QED BY <1>1, <2>1, ContentIs
<1>3. k >= 1
  <2>1. Minute * 1 <= asOf - shards[1].start
    BY <1>1, <1>2, MinuteAssumption DEF MeasuredAt
  <2>2. asOf - shards[1].start \in Int
    BY <1>1, <1>2
  <2> QED BY <2>1, <2>2, LastMinute DEF MinuteAt
<1>4. InMemory(content, asOf) = [values |-> row.features, unavailable |-> row.unavailable]
  BY <1>1, <1>2, <1>3, InMemoryIs
<1>5. RowAt(shards[1], asOf) = row
  BY <1>1, <1>3
<1>6. FeaturesAreValid(row, MeasuredAt(content.start, k))
  <2>1. k \in DOMAIN content.rows
    BY <1>1, <1>2, <1>3
  <2> QED BY <2>1
<1>7. row # NoRow
  BY <1>1, <1>3 DEF NoRow
<1> HIDE DEF content, k, row
<1> DEFINE found == [i \in DOMAIN shards |-> RowAt(shards[i], asOf)]
           values == UNION {found[i].features : i \in DOMAIN found}
           missing == UNION {IF found[i] = NoRow THEN shards[i].sources
                             ELSE found[i].unavailable : i \in DOMAIN found}
<1>8. DOMAIN found = {1} /\ found[1] = row
  BY <1>5
<1>9. values = row.features /\ missing = row.unavailable
  <2> HIDE DEF found
  <2> QED BY <1>7, <1>8
<1>10. ~\E f, g \in values : f.name = g.name /\ f # g
  BY <1>6, <1>9 DEF FeaturesAreValid
<1>11. missing \ {f.source : f \in values} = missing
  BY <1>6, <1>9 DEF FeaturesAreValid
<1>12. Merge(shards, asOf).values = values /\ Merge(shards, asOf).unavailable = missing
  BY <1>10, <1>11 DEF Merge
<1> QED BY <1>4, <1>9, <1>12 DEF content

-----------------------------------------------------------------------------
(* Steps.                                                                   *)

LEMMA ReaderStays ==
    ASSUME NEW r, ReaderOK(r), reader'[r] = reader[r]
    PROVE  ReaderOK(r)'
BY DEF ReaderOK

(* All readers but one stay.                                                *)
LEMMA OtherReadersStay ==
    ASSUME ProvidersInv, NEW r \in Readers, NEW new,
           reader' = [reader EXCEPT ![r] = new],
           UNCHANGED <<rowFile, manifestFile, rebuilding, builds, memory, same>>,
           ReaderOK(r)'
    PROVE  ProvidersInv'
<1>1. DisksOK' /\ MemoryOK'
  BY DEF ProvidersInv, DisksOK, MemoryOK
<1>2. DOMAIN reader' = Readers
  BY DEF ProvidersInv
<1>3. \A q \in Readers : ReaderOK(q)'
  <2> TAKE q \in Readers
  <2>1. CASE q = r
    BY <2>1
  <2>2. CASE q # r
    <3>1. reader'[q] = reader[q] /\ ReaderOK(q)
      BY <2>2 DEF ProvidersInv
    <3> QED BY <3>1, ReaderStays
  <2> QED BY <2>1, <2>2
<1> QED BY <1>1, <1>2, <1>3 DEF ProvidersInv

LEMMA ReadersStay ==
    ASSUME ProvidersInv, UNCHANGED reader, DisksOK', MemoryOK'
    PROVE  ProvidersInv'
<1>1. \A r \in Readers : ReaderOK(r)'
  BY ReaderStays DEF ProvidersInv
<1> QED BY <1>1 DEF ProvidersInv

LEMMA ProvidersInitInv ==
    ASSUME ProvidersInit
    PROVE  ProvidersInv
<1>1. DisksOK
  <2>1. \A s \in Shards : rowFile[s] \in AllContents /\ rowFile[s] \in Contents[s]
    BY DEF ProvidersInit, AllContents
  <2> QED BY <2>1 DEF ProvidersInit, DisksOK
<1>2. MemoryOK
  BY DEF ProvidersInit, NoReader, MemoryOK
<1>3. DOMAIN reader = Readers /\ \A r \in Readers : ReaderOK(r)
  BY DEF ProvidersInit, NoReader, ReaderOK
<1> QED BY <1>1, <1>2, <1>3 DEF ProvidersInv

LEMMA RemoveManifestKeeps ==
    ASSUME ProvidersInv, NEW s \in Shards, RemoveManifest(s)
    PROVE  ProvidersInv'
<1>1. PICK content \in Contents[s] \ {rowFile[s]} : rebuilding' = [rebuilding EXCEPT ![s] = content]
  BY DEF RemoveManifest
<1>2. content \in AllContents
  BY <1>1 DEF AllContents
<1>3. DisksOK'
  BY <1>1, <1>2 DEF RemoveManifest, ProvidersInv, DisksOK
<1>4. MemoryOK'
  BY DEF RemoveManifest, ProvidersInv, MemoryOK
<1> QED BY <1>3, <1>4, ReadersStay DEF RemoveManifest

LEMMA ReplaceShardRowsKeeps ==
    ASSUME ProvidersInv, NEW s \in Shards, ReplaceShardRows(s)
    PROVE  ProvidersInv'
<1>1. rebuilding[s] \in AllContents /\ manifestFile[s] = NoContent
  BY DEF ReplaceShardRows, ProvidersInv, DisksOK
<1>2. DisksOK'
  BY <1>1 DEF ReplaceShardRows, ProvidersInv, DisksOK
<1>3. MemoryOK'
  <2>1. memory' = memory /\ (same' => same /\ ~(memory.state \in {"validated", "described"} /\ memory.shard = s))
    BY DEF ReplaceShardRows
  <2>2. \A t \in Shards : t # s => rowFile'[t] = rowFile[t]
    BY DEF ReplaceShardRows, ProvidersInv, DisksOK
  <2> QED BY <2>1, <2>2 DEF ProvidersInv, MemoryOK
<1> QED BY <1>2, <1>3, ReadersStay DEF ReplaceShardRows

LEMMA WriteShardManifestKeeps ==
    ASSUME ProvidersInv, NEW s \in Shards, WriteShardManifest(s)
    PROVE  ProvidersInv'
<1>1. DisksOK'
  BY DEF WriteShardManifest, ProvidersInv, DisksOK
<1>2. MemoryOK'
  BY DEF WriteShardManifest, ProvidersInv, MemoryOK
<1> QED BY <1>1, <1>2, ReadersStay DEF WriteShardManifest

LEMMA ValidateShardKeeps ==
    ASSUME ProvidersInv, NEW s \in Shards, ValidateShard(s)
    PROVE  ProvidersInv'
<1>1. DisksOK'
  BY DEF ValidateShard, ProvidersInv, DisksOK
<1>2. MemoryOK'
  BY DEF ValidateShard, MemoryOK
<1> QED BY <1>1, <1>2, ReadersStay DEF ValidateShard

LEMMA ReadManifestKeeps ==
    ASSUME ProvidersInv, ReadManifest
    PROVE  ProvidersInv'
<1>1. DisksOK'
  BY DEF ReadManifest, ProvidersInv, DisksOK
<1>2. MemoryOK'
  <2>1. memory.shard \in Shards
    BY DEF ReadManifest, ProvidersInv, MemoryOK
  <2>2. manifestFile[memory.shard] \in {NoContent, rowFile[memory.shard]}
    BY <2>1 DEF ProvidersInv, DisksOK
  <2> QED BY <2>1, <2>2 DEF ReadManifest, MemoryOK
<1> QED BY <1>1, <1>2, ReadersStay DEF ReadManifest

LEMMA ReadShardRowsKeeps ==
    ASSUME ProvidersInv, ReadShardRows
    PROVE  ProvidersInv'
<1>1. DisksOK'
  BY DEF ReadShardRows, ProvidersInv, DisksOK
<1> DEFINE content == rowFile[memory.shard]
<1>2. memory.shard \in Shards /\ content \in AllContents
      /\ (same => memory.manifest = content)
  BY DEF ReadShardRows, ProvidersInv, MemoryOK, DisksOK
<1>3. same' = same /\ UNCHANGED reader
      /\ (\/ /\ RowsMatch(memory.manifest, content)
            /\ memory' = [state |-> "loaded", shard |-> memory.shard,
                          hash |-> memory.manifest, content |-> content]
         \/ memory' = [state |-> "failed", shard |-> memory.shard])
  BY DEF ReadShardRows
<1> HIDE DEF content
<1>4. CASE /\ RowsMatch(memory.manifest, content)
           /\ memory' = [state |-> "loaded", shard |-> memory.shard,
                         hash |-> memory.manifest, content |-> content]
  <2>1. \A i \in DOMAIN content.rows :
            FeaturesAreValid(content.rows[i], MeasuredAt(content.start, i))
    BY <1>4 DEF RowsMatch
  <2>2. /\ memory'.state = "loaded" /\ memory'.hash = memory.manifest /\ memory'.content = content
    BY <1>4
  <2>3. MemoryOK'
    BY <1>2, <1>3, <2>1, <2>2 DEF MemoryOK
  <2> QED BY <1>1, <1>3, <2>3, ReadersStay
<1>5. CASE memory' = [state |-> "failed", shard |-> memory.shard]
  <2>1. memory'.state = "failed"
    BY <1>5
  <2>2. MemoryOK'
    BY <2>1 DEF MemoryOK
  <2> QED BY <1>1, <1>3, <2>2, ReadersStay
<1> QED BY <1>3, <1>4, <1>5

(* What is planned covers the window.                                       *)
LEMMA PlanShardsKeeps ==
    ASSUME ProvidersInv, NEW r \in Readers, PlanShards(r)
    PROVE  ProvidersInv'
<1> DEFINE widest == WidestShards(manifestFile)
<1>1. PICK plan \in PlansOf(manifestFile), full \in BOOLEAN :
         reader' = [reader EXCEPT ![r] =
            [state |-> "opening", verifyFull |-> full, shards |-> <<>>,
             plan |-> [i \in DOMAIN plan |->
                         [shard |-> plan[i], manifest |-> manifestFile[plan[i]]]]]]
  BY DEF PlanShards
<1>2. widest # {} /\ widest \subseteq Shards
      /\ \A s \in widest : Covers(manifestFile[s]) /\ manifestFile[s] \in AllContents
  <2>1. widest \subseteq Covering(manifestFile)
    BY DEF WidestShards
  <2>2. \A s \in Covering(manifestFile) : s \in Shards /\ Covers(manifestFile[s])
                                          /\ manifestFile[s] # NoContent
    BY DEF Covering, Covers
  <2>3. \A s \in Shards : manifestFile[s] # NoContent => manifestFile[s] \in AllContents
    BY DEF ProvidersInv, DisksOK
  <2> QED BY <2>1, <2>2, <2>3 DEF PlanShards
<1>3. IsFiniteSet(widest)
  BY <1>2, ShardsAssumption, FS_Subset
<1> DEFINE n == Cardinality(widest)
<1>4. n \in Nat /\ n # 0
  BY <1>2, <1>3, FS_CardinalityType, FS_EmptySet
<1>5. plan \in [1..n -> widest]
  BY <1>1 DEF PlansOf
<1> HIDE DEF n, widest
<1> DEFINE entries == [i \in DOMAIN plan |-> [shard |-> plan[i], manifest |-> manifestFile[plan[i]]]]
           Entries == [shard : Shards, manifest : {m \in AllContents : Covers(m)}]
<1>6. entries \in [1..n -> Entries]
  BY <1>2, <1>5
<1>7. entries \in Seq(Entries) /\ Len(entries) = n
  <2> HIDE DEF entries, Entries
  <2>1. entries \in Seq(Entries)
    BY <1>4, <1>6, SeqDef
  <2>2. DOMAIN entries = 1..n
    BY <1>6
  <2> QED BY <1>4, <2>1, <2>2, LenProperties
<1>8. reader'[r] = [state |-> "opening", verifyFull |-> full, shards |-> <<>>, plan |-> entries]
  BY <1>1 DEF ProvidersInv
<1>9. ReaderOK(r)'
  <2>1. <<>> \in Seq({<<>>[i] : i \in DOMAIN <<>>}) /\ Len(<<>>) = 0 /\ DOMAIN <<>> = {}
    OBVIOUS
  <2> HIDE DEF entries
  <2> QED BY <1>4, <1>7, <1>8, <2>1 DEF ReaderOK
<1> HIDE DEF entries
<1> QED BY <1>1, <1>9, OtherReadersStay DEF PlanShards, entries

LEMMA AppendedElements ==
    ASSUME NEW s, s \in Seq({s[i] : i \in DOMAIN s}), NEW e
    PROVE  /\ Append(s, e) \in Seq({Append(s, e)[i] : i \in DOMAIN Append(s, e)})
           /\ Len(Append(s, e)) = Len(s) + 1 /\ Len(s) \in Nat
           /\ DOMAIN Append(s, e) = 1..(Len(s) + 1)
           /\ DOMAIN s = 1..Len(s)
           /\ \A i \in DOMAIN s : Append(s, e)[i] = s[i]
           /\ Append(s, e)[Len(s) + 1] = e
<1> DEFINE S == {s[i] : i \in DOMAIN s} \union {e}
           t == Append(s, e)
<1>1. s \in Seq(S) /\ e \in S
  <2>1. s \in [1..Len(s) -> {s[i] : i \in DOMAIN s}] /\ Len(s) \in Nat
    BY LenProperties
  <2>2. s \in [1..Len(s) -> S]
    BY <2>1
  <2> QED BY <2>1, <2>2, SeqDef
<1> HIDE DEF S
<1>2. /\ t \in Seq(S) /\ Len(t) = Len(s) + 1
      /\ \A i \in 1..Len(s) : t[i] = s[i]
      /\ t[Len(s) + 1] = e
  BY <1>1, AppendProperties
<1>3. Len(s) \in Nat /\ DOMAIN s = 1..Len(s)
  BY <1>1, LenProperties
<1>4. DOMAIN t = 1..(Len(s) + 1) /\ t \in [1..(Len(s) + 1) -> {t[i] : i \in DOMAIN t}]
  <2>1. t \in [1..Len(t) -> S]
    BY <1>2, LenProperties
  <2> HIDE DEF t
  <2> QED BY <1>2, <2>1
<1>5. t \in Seq({t[i] : i \in DOMAIN t})
  <2> HIDE DEF t
  <2> QED BY <1>3, <1>4, SeqDef
<1> QED BY <1>2, <1>3, <1>4, <1>5

LEMMA OpenShardKeeps ==
    ASSUME ProvidersInv, NEW r \in Readers, OpenShard(r)
    PROVE  ProvidersInv'
<1> DEFINE opened == reader[r].shards
           next == reader[r].plan[Len(opened) + 1]
           content == rowFile[next.shard]
           target == TargetCount(next.manifest, reader[r].verifyFull)
           shards == Append(opened, ShardOf(next.manifest, content, target))
           new == IF ~IndexIsValid(next.manifest, content, target) THEN [state |-> "failed"]
                  ELSE IF Len(shards) < Len(reader[r].plan) THEN [reader[r] EXCEPT !.shards = shards]
                  ELSE [state |-> "open", shards |-> shards, cache |-> <<>>]
<1>1. reader' = [reader EXCEPT ![r] = new] /\ reader'[r] = new
  BY DEF OpenShard, ProvidersInv
<1>2. /\ reader[r].state = "opening" /\ reader[r].verifyFull \in BOOLEAN
      /\ reader[r] = [state |-> "opening", verifyFull |-> reader[r].verifyFull,
                      shards |-> opened, plan |-> reader[r].plan]
      /\ opened \in Seq({opened[i] : i \in DOMAIN opened})
      /\ reader[r].plan \in Seq([shard : Shards, manifest : {m \in AllContents : Covers(m)}])
      /\ Len(opened) < Len(reader[r].plan)
      /\ \A i \in DOMAIN opened : ShardOK(opened[i])
  BY DEF OpenShard, ProvidersInv, ReaderOK
<1>3. next \in [shard : Shards, manifest : {m \in AllContents : Covers(m)}]
  <2>1. Len(opened) \in Nat /\ Len(reader[r].plan) \in Nat
    BY <1>2, LenProperties
  <2>2. Len(opened) + 1 \in 1..Len(reader[r].plan)
    BY <1>2, <2>1
  <2> QED BY <1>2, <2>2, ElementOfSeq
<1>4. content \in AllContents
  BY <1>3 DEF ProvidersInv, DisksOK
<1>5. UNCHANGED <<rowFile, manifestFile, rebuilding, builds, memory, same>>
  BY DEF OpenShard
<1> HIDE DEF opened, next, content, target
<1>6. CASE ~IndexIsValid(next.manifest, content, target)
  <2>1. reader'[r] = [state |-> "failed"]
    BY <1>1, <1>6
  <2>2. reader'[r].state = "failed"
    BY <2>1
  <2>3. ReaderOK(r)'
    BY <2>2 DEF ReaderOK
  <2> HIDE DEF new
  <2> QED BY <1>1, <1>5, <2>3, OtherReadersStay
<1>7. CASE IndexIsValid(next.manifest, content, target)
  <2>1. ShardOK(ShardOf(next.manifest, content, target))
    BY <1>2, <1>3, <1>4, <1>7 DEF ShardOK, target
  <2> DEFINE last == ShardOf(next.manifest, content, target)
  <2> HIDE DEF last
  <2>2. /\ shards \in Seq({shards[i] : i \in DOMAIN shards})
        /\ DOMAIN shards = 1..(Len(opened) + 1) /\ Len(opened) \in Nat
        /\ DOMAIN opened = 1..Len(opened)
        /\ \A i \in DOMAIN opened : shards[i] = opened[i]
        /\ shards[Len(opened) + 1] = last
    BY <1>2, AppendedElements DEF last
  <2>3. \A i \in DOMAIN shards : ShardOK(shards[i])
    <3> HIDE DEF shards
    <3> TAKE i \in DOMAIN shards
    <3>1. CASE i \in DOMAIN opened
      BY <1>2, <2>2, <3>1
    <3>2. CASE i = Len(opened) + 1
      BY <2>1, <2>2, <3>2 DEF last
    <3> QED BY <2>2, <3>1, <3>2
  <2>6. Len(shards) = Len(opened) + 1 /\ DOMAIN shards = 1..Len(shards)
    BY <1>2, AppendedElements DEF last
  <2> HIDE DEF shards
  <2>4. CASE Len(shards) < Len(reader[r].plan)
    <3>1. reader'[r] = [reader[r] EXCEPT !.shards = shards]
      BY <1>1, <1>7, <2>4
    <3>2. reader'[r] = [state |-> "opening", verifyFull |-> reader[r].verifyFull,
                        shards |-> shards, plan |-> reader[r].plan]
      BY <1>2, <3>1
    <3>3. ReaderOK(r)'
      BY <1>2, <2>2, <2>3, <2>4, <3>2 DEF ReaderOK
    <3> HIDE DEF new
    <3> QED BY <1>1, <1>5, <3>3, OtherReadersStay
  <2>5. CASE ~(Len(shards) < Len(reader[r].plan))
    <3>1. reader'[r] = [state |-> "open", shards |-> shards, cache |-> <<>>]
      BY <1>1, <1>7, <2>5
    <3>2. <<>> \in Seq({<<>>[i] : i \in DOMAIN <<>>}) /\ DOMAIN <<>> = {}
      OBVIOUS
    <3>3. ReaderOK(r)'
      BY <2>2, <2>3, <3>1, <3>2, <2>6 DEF ReaderOK
    <3> HIDE DEF new
    <3> QED BY <1>1, <1>5, <3>3, OtherReadersStay
  <2> QED BY <2>4, <2>5
<1> QED BY <1>6, <1>7

LEMMA CloseProviderKeeps ==
    ASSUME ProvidersInv, NEW r \in Readers, CloseProvider(r)
    PROVE  ProvidersInv'
<1>1. reader'[r] = [state |-> "closed"]
  BY DEF CloseProvider, ProvidersInv
<1>2. reader'[r].state = "closed"
  BY <1>1
<1>3. ReaderOK(r)'
  BY <1>2 DEF ReaderOK
<1> QED BY <1>3, OtherReadersStay DEF CloseProvider

(* Kept answers stay right when one of them moves to the end, one is added, *)
(* or the oldest one is dropped.                                            *)
RightAnswers(r, cache) ==
    /\ cache \in Seq({cache[i] : i \in DOMAIN cache})
    /\ \A i \in DOMAIN cache : cache[i].answer = Merge(reader[r].shards, cache[i].asOf)

LEMMA CacheMayBe ==
    ASSUME ProvidersInv, NEW r \in Readers, reader[r].state = "open", NEW cache,
           RightAnswers(r, cache), reader' = [reader EXCEPT ![r].cache = cache],
           UNCHANGED <<rowFile, manifestFile, rebuilding, builds, memory, same>>
    PROVE  ProvidersInv'
<1>1. /\ reader[r] = [state |-> "open", shards |-> reader[r].shards, cache |-> reader[r].cache]
      /\ \A i \in DOMAIN reader[r].shards : ShardOK(reader[r].shards[i])
      /\ DOMAIN reader[r].shards = 1..Len(reader[r].shards)
  BY DEF ProvidersInv, ReaderOK
<1>2. reader' = [reader EXCEPT ![r] = [state |-> "open", shards |-> reader[r].shards, cache |-> cache]]
  <2> DEFINE old == reader[r]
  <2>1. [old EXCEPT !.cache = cache] = [state |-> "open", shards |-> old.shards, cache |-> cache]
    <3> HIDE DEF old
    <3> QED BY <1>1 DEF old
  <2>2. reader' = [reader EXCEPT ![r] = [old EXCEPT !.cache = cache]]
    OBVIOUS
  <2> QED BY <2>1, <2>2
<1>3. reader'[r] = [state |-> "open", shards |-> reader[r].shards, cache |-> cache]
  BY <1>2 DEF ProvidersInv
<1>4. ReaderOK(r)'
  BY <1>1, <1>3 DEF ReaderOK, RightAnswers
<1> QED BY <1>2, <1>4, OtherReadersStay

LEMMA LoadFeaturesKeeps ==
    ASSUME ProvidersInv, NEW r \in Readers, NEW asOf \in Window, LoadFeatures(r, asOf)
    PROVE  ProvidersInv'
<1> DEFINE cache == reader[r].cache
           entry == [asOf |-> asOf, answer |-> Merge(reader[r].shards, asOf)]
           longer == Append(cache, entry)
<1>1. /\ reader[r].state = "open" /\ RightAnswers(r, cache)
      /\ UNCHANGED <<rowFile, manifestFile, rebuilding, builds, memory, same>>
  BY DEF LoadFeatures, ProvidersInv, ReaderOK, RightAnswers
<1> DEFINE S == {e \in {cache[i] : i \in DOMAIN cache} : e.answer = Merge(reader[r].shards, e.asOf)}
<1>2. cache \in Seq(S)
  <2> HIDE DEF cache
  <2>1. cache \in [1..Len(cache) -> {cache[i] : i \in DOMAIN cache}] /\ Len(cache) \in Nat
    BY <1>1, LenProperties DEF RightAnswers
  <2>2. cache \in [1..Len(cache) -> S]
    BY <1>1, <2>1 DEF RightAnswers
  <2> QED BY <2>1, <2>2, SeqDef
<1>3. ASSUME NEW T, \A e \in T : e.answer = Merge(reader[r].shards, e.asOf), NEW c \in Seq(T)
      PROVE  RightAnswers(r, c)
  <2>1. c \in [1..Len(c) -> T] /\ Len(c) \in Nat
    BY LenProperties
  <2>2. c \in [1..Len(c) -> {c[i] : i \in DOMAIN c}]
    BY <2>1
  <2>3. c \in Seq({c[i] : i \in DOMAIN c})
    BY <2>1, <2>2, SeqDef
  <2> QED BY <1>3, <2>1, <2>3 DEF RightAnswers
<1>4. ASSUME NEW i \in DOMAIN cache, reader' = [reader EXCEPT ![r].cache = Append(RemoveAt(cache, i), cache[i])]
      PROVE  ProvidersInv'
  <2> HIDE DEF cache, S
  <2>1. Len(cache) \in Nat /\ i \in 1..Len(cache) /\ cache[i] \in S
    BY <1>2, <1>4, LenProperties, ElementOfSeq
  <2>2. SubSeq(cache, 1, i - 1) \in Seq(S) /\ SubSeq(cache, i + 1, Len(cache)) \in Seq(S)
    <3>1. 1 \in 1..(Len(cache) + 1) /\ i - 1 \in 0..Len(cache)
      BY <2>1
    <3>2. i + 1 \in 1..(Len(cache) + 1) /\ Len(cache) \in 0..Len(cache)
      BY <2>1
    <3> QED BY <1>2, <3>1, <3>2, SubSeqProperties
  <2>3. RemoveAt(cache, i) \in Seq(S)
    BY <2>2, ConcatProperties DEF RemoveAt
  <2>4. Append(RemoveAt(cache, i), cache[i]) \in Seq(S)
    BY <2>1, <2>3, AppendProperties
  <2>5. \A e \in S : e.answer = Merge(reader[r].shards, e.asOf)
    BY DEF S
  <2>6. RightAnswers(r, Append(RemoveAt(cache, i), cache[i]))
    BY <1>3, <2>4, <2>5
  <2> QED BY <1>1, <1>4, <2>6, CacheMayBe
<1>5. ASSUME reader' = [reader EXCEPT ![r].cache = IF Len(longer) > Capacity THEN Tail(longer) ELSE longer]
      PROVE  ProvidersInv'
  <2> DEFINE T == S \union {entry}
             kept == IF Len(longer) > Capacity THEN Tail(longer) ELSE longer
  <2>1. \A e \in T : e.answer = Merge(reader[r].shards, e.asOf)
    OBVIOUS
  <2>2. cache \in Seq(T) /\ entry \in T
    <3> HIDE DEF entry, S, cache
    <3>1. cache \in [1..Len(cache) -> S] /\ Len(cache) \in Nat
      BY <1>2, LenProperties
    <3>2. cache \in [1..Len(cache) -> T]
      BY <3>1
    <3> QED BY <3>1, <3>2, SeqDef
  <2> HIDE DEF T, cache, entry
  <2>3. longer \in Seq(T) /\ longer # <<>>
    BY <2>2, AppendProperties
  <2>4. Tail(longer) \in Seq(T)
    BY <2>3, HeadTailProperties
  <2>5. kept \in Seq(T)
    BY <2>3, <2>4
  <2>6. RightAnswers(r, kept)
    <3> HIDE DEF kept
    <3> QED BY <1>3, <2>1, <2>5
  <2> HIDE DEF kept
  <2> QED BY <1>1, <1>5, <2>6, CacheMayBe DEF kept
<1> QED BY <1>4, <1>5 DEF LoadFeatures

LEMMA NobodyReads ==
    ASSUME ProvidersInv, UNCHANGED providerVars
    PROVE  ProvidersInv'
<1>1. DisksOK' /\ MemoryOK'
  BY DEF ProvidersInv, providerVars, DisksOK, MemoryOK
<1> QED BY <1>1, ReadersStay DEF providerVars

LEMMA AnswersAre ==
    ASSUME ProvidersInv
    PROVE  AnswersAreAsOf
<1>1. \A r \in Open : /\ \A i \in DOMAIN reader[r].shards : ShardOK(reader[r].shards[i])
                      /\ \A i \in DOMAIN reader[r].cache :
                           reader[r].cache[i].answer = Merge(reader[r].shards, reader[r].cache[i].asOf)
  BY DEF Open, ProvidersInv, ReaderOK
<1>2. \A r \in Open, asOf \in Window :
         Merge(reader[r].shards, asOf).conflict \/
           /\ Merge(reader[r].shards, asOf).values = HeldAt(reader[r].shards, asOf)
           /\ \A f \in Merge(reader[r].shards, asOf).values : f.available <= asOf
  BY <1>1, MergeIsHeld
<1>3. \A r, q \in Open :
         IdentityOf(reader[r].shards) = IdentityOf(reader[q].shards) =>
            \A asOf \in Window : Merge(reader[r].shards, asOf) = Merge(reader[q].shards, asOf)
  BY <1>1, SameIdentity
<1>4. ASSUME memory.state = "loaded"
      PROVE  /\ same => memory.hash = memory.content
             /\ \A i \in DOMAIN memory.content.rows :
                  FeaturesAreValid(memory.content.rows[i], MeasuredAt(memory.content.start, i))
  BY <1>4 DEF ProvidersInv, MemoryOK
<1>5. ASSUME memory.state = "loaded", NEW r \in Open,
             Len(reader[r].shards) = 1, reader[r].shards[1].content = memory.content,
             NEW asOf \in Window, MeasuredAt(memory.content.start, 1) <= asOf
      PROVE  /\ Merge(reader[r].shards, asOf).values = InMemory(memory.content, asOf).values
             /\ Merge(reader[r].shards, asOf).unavailable = InMemory(memory.content, asOf).unavailable
  <2>1. DOMAIN reader[r].shards = 1..1
    BY <1>5 DEF Open, ProvidersInv, ReaderOK
  <2>2. ShardOK(reader[r].shards[1])
    BY <1>1, <2>1
  <2> QED BY <1>4, <1>5, <2>1, <2>2, OneFile
<1> QED BY <1>1, <1>2, <1>3, <1>4, <1>5 DEF AnswersAreAsOf

(* However caches are rebuilt while providers are planned, opened, loaded   *)
(* and used: a composite provider answers from the last full minute of the  *)
(* files it opened, also from its cache; equal hashes mean equal answers;   *)
(* and the in-memory provider of a file answers the same.                   *)
THEOREM AnswersStayAsOf == ProvidersSpec => []AnswersAreAsOf
<1>1. ProvidersInit => ProvidersInv
  BY ProvidersInitInv
<1>2. ProvidersInv /\ [ProvidersNext]_providerVars => ProvidersInv'
  BY RemoveManifestKeeps, ReplaceShardRowsKeeps, WriteShardManifestKeeps, ValidateShardKeeps,
     PlanShardsKeeps, OpenShardKeeps, CloseProviderKeeps, LoadFeaturesKeeps,
     ReadManifestKeeps, ReadShardRowsKeeps, NobodyReads
  DEF ProvidersNext
<1>3. ProvidersInv => AnswersAreAsOf
  BY AnswersAre
<1> QED BY <1>1, <1>2, <1>3, PTL DEF ProvidersSpec

-----------------------------------------------------------------------------
(* Trade execution.                                                         *)
(*                                                                          *)
(* What its properties rest on is a lock that nobody releases: the run      *)
(* whose INSERT into signal_logs succeeded owns its signal (OwnersAreAlone) *)
(* and finds the legs that are still ahead of it without an order           *)
(* (LegsAheadAreFree), whatever became of the runs before it.               *)

(* The run of p inserted its signal and has not failed since. *)
OwnsSignal(p) ==
    \/ pc[p] \in {"decide"} \union LegNames
    \/ pc[p] = "record" /\ status[p] # "error"

(* The legs the run of p has not come to. *)
Ahead(p) ==
    {leg \in LegNames : \/ pc[p] \in {"decide", "entry"}
                        \/ pc[p] = "take_profit" /\ leg # "entry"
                        \/ pc[p] = "stop_loss" /\ leg = "stop_loss"}

RunsAreInOrder ==
    \A p \in Processes :
        /\ pc[p] \in {"market", "append"} \/ OwnsSignal(p) => signal_id[p] \in SignalIds
        /\ pc[p] = "record" <=> status[p] # "none"
        /\ pc[p] \in LegNames => direction[p] # "wait"

LogIsKeyed ==
    \A a, b \in signal_logs : a.signal_id = b.signal_id => a = b

OwnersAreLogged ==
    \A p \in Processes : OwnsSignal(p) =>
        /\ [signal_id |-> signal_id[p], direction |-> direction[p]] \in signal_logs
        /\ scheduler_runs[signal_id[p]]["succeeded"] = 0

OwnersAreAlone ==
    \A p, q \in Processes : p # q /\ OwnsSignal(p) /\ OwnsSignal(q) => signal_id[p] # signal_id[q]

LegsAheadAreFree ==
    \A p \in Processes : \A leg \in Ahead(p) : orders[signal_id[p]][leg] = <<>>

OrdersAreLogged ==
    \A s \in SignalIds : \A leg \in LegNames :
        /\ Len(orders[s][leg]) =< 1
        /\ orders[s][leg] # <<>> => Logged(s)

SuccessIsLogged ==
    \A s \in SignalIds :
        /\ scheduler_runs[s]["succeeded"] =< 1
        /\ scheduler_runs[s]["succeeded"] = 1 => Logged(s)

Inv ==
    /\ TypeOK
    /\ RunsAreInOrder
    /\ LogIsKeyed
    /\ OwnersAreLogged
    /\ OwnersAreAlone
    /\ LegsAheadAreFree
    /\ OrdersAreLogged
    /\ SuccessIsLogged
    /\ StatusIsRecorded

-----------------------------------------------------------------------------
LEMMA InitInv == Init => Inv
<1> SUFFICES ASSUME Init PROVE Inv
  OBVIOUS
<1> USE DEF Init
<1>1. TypeOK
  BY RunsAssumption, RetryAssumption DEF TypeOK, LegNames, Directions, Attempts
<1>2. \A p \in Processes : ~OwnsSignal(p) /\ Ahead(p) = {}
  BY DEF OwnsSignal, Ahead, LegNames
<1>3. RunsAreInOrder /\ LogIsKeyed /\ OwnersAreLogged /\ OwnersAreAlone /\ LegsAheadAreFree
  BY <1>2 DEF RunsAreInOrder, LogIsKeyed, OwnersAreLogged, OwnersAreAlone,
              LegsAheadAreFree, LegNames
<1>4. OrdersAreLogged /\ SuccessIsLogged /\ StatusIsRecorded
  BY DEF OrdersAreLogged, SuccessIsLogged, StatusIsRecorded, Outcomes
<1> QED
  BY <1>1, <1>3, <1>4 DEF Inv

(* No success is recorded. *)
SuccessesStay ==
    /\ scheduler_runs' \in [SignalIds -> [Outcomes -> Nat]]
    /\ \A s \in SignalIds : scheduler_runs'[s]["succeeded"] = scheduler_runs[s]["succeeded"]

(* What the tables say stays so in a step that leaves them alone. *)
LEMMA SameTables ==
    ASSUME Inv, UNCHANGED <<signal_logs, orders>>, UNCHANGED scheduler_runs \/ SuccessesStay
    PROVE  LogIsKeyed' /\ OrdersAreLogged' /\ SuccessIsLogged'
<1>1. LogIsKeyed' /\ OrdersAreLogged'
  BY DEF Inv, LogIsKeyed, OrdersAreLogged, Logged
<1>2. SuccessIsLogged'
  BY DEF Inv, SuccessIsLogged, SuccessesStay, Logged
<1> QED
  BY <1>1, <1>2

(* The others own what they owned, while the run of p owns nothing. *)
LEMMA OthersOwn ==
    ASSUME Inv, NEW p \in Processes, ~OwnsSignal(p)', Ahead(p)' = {},
           UNCHANGED <<signal_logs, orders>>, UNCHANGED scheduler_runs \/ SuccessesStay,
           \A q \in Processes \ {p} : /\ OwnsSignal(q)' <=> OwnsSignal(q)
                                      /\ Ahead(q)' = Ahead(q)
                                      /\ signal_id'[q] = signal_id[q]
                                      /\ direction'[q] = direction[q]
    PROVE  OwnersAreLogged' /\ OwnersAreAlone' /\ LegsAheadAreFree'
<1>1. OwnersAreLogged'
  <2> SUFFICES ASSUME NEW q \in Processes, OwnsSignal(q)'
               PROVE  /\ [signal_id |-> signal_id'[q], direction |-> direction'[q]] \in signal_logs
                      /\ scheduler_runs'[signal_id'[q]]["succeeded"] = 0
    BY DEF OwnersAreLogged
  <2>1. OwnsSignal(q) /\ signal_id'[q] = signal_id[q] /\ direction'[q] = direction[q]
    OBVIOUS
  <2>2. /\ [signal_id |-> signal_id[q], direction |-> direction[q]] \in signal_logs
        /\ scheduler_runs'[signal_id[q]]["succeeded"] = 0
    BY <2>1 DEF Inv, OwnersAreLogged, RunsAreInOrder, SuccessesStay
  <2> QED
    BY <2>1, <2>2
<1>2. OwnersAreAlone'
  BY DEF Inv, OwnersAreAlone
<1>3. LegsAheadAreFree'
  BY DEF Inv, LegsAheadAreFree
<1> QED
  BY <1>1, <1>2, <1>3

(* The run of p ends without a trace, or its process dies. *)
LEMMA ForgetInv ==
    ASSUME Inv, NEW p \in Processes, Forget(p),
           UNCHANGED <<signal_logs, orders, started>>, UNCHANGED scheduler_runs \/ SuccessesStay,
           last_status' = last_status \/ last_status' = [last_status EXCEPT ![p] = "none"]
    PROVE  Inv'
<1> USE DEF Inv, Forget, GoTo
<1>1. TypeOK'
  <2>1. last_status' \in [Processes -> Statuses \union {"none"}]
    BY DEF TypeOK
  <2>2. 1 \in 1..Attempts /\ "wait" \in Directions
    BY RetryAssumption DEF Directions, Attempts
  <2> QED
    BY <2>1, <2>2 DEF TypeOK, SuccessesStay
<1>2. ~OwnsSignal(p)' /\ Ahead(p)' = {}
  BY DEF TypeOK, OwnsSignal, Ahead, LegNames
<1>3. \A q \in Processes \ {p} : /\ OwnsSignal(q)' <=> OwnsSignal(q)
                                 /\ Ahead(q)' = Ahead(q)
                                 /\ signal_id'[q] = signal_id[q]
                                 /\ direction'[q] = direction[q]
  BY DEF TypeOK, OwnsSignal, Ahead
<1>4. RunsAreInOrder'
  BY <1>2, <1>3 DEF TypeOK, RunsAreInOrder, LegNames
<1>5. OwnersAreLogged' /\ OwnersAreAlone' /\ LegsAheadAreFree'
  BY <1>2, <1>3, OthersOwn
<1>6. StatusIsRecorded'
  BY DEF TypeOK, StatusIsRecorded, SuccessesStay
<1> QED
  BY <1>1, <1>4, <1>5, <1>6, SameTables

(* The run of p fails: it owns nothing any more. *)
LEMMA FailInv ==
    ASSUME Inv, NEW p \in Processes, pc[p] # "record", EndWith(p, "error"),
           UNCHANGED <<signal_logs, scheduler_runs, orders, signal_id, direction, attempt,
                       last_status, started>>
    PROVE  Inv'
<1> USE DEF Inv, EndWith, GoTo
<1>1. TypeOK'
  BY DEF TypeOK
<1>2. ~OwnsSignal(p)' /\ Ahead(p)' = {}
  BY DEF TypeOK, OwnsSignal, Ahead, LegNames
<1>3. \A q \in Processes \ {p} : /\ OwnsSignal(q)' <=> OwnsSignal(q)
                                 /\ Ahead(q)' = Ahead(q)
  BY DEF TypeOK, OwnsSignal, Ahead
<1>4. RunsAreInOrder'
  BY <1>2, <1>3 DEF TypeOK, RunsAreInOrder, LegNames
<1>5. OwnersAreLogged' /\ OwnersAreAlone' /\ LegsAheadAreFree'
  BY <1>2, <1>3, OthersOwn
<1>6. StatusIsRecorded'
  BY DEF StatusIsRecorded
<1> QED
  BY <1>1, <1>4, <1>5, <1>6, SameTables

-----------------------------------------------------------------------------
LEMMA StartInv ==
    ASSUME Inv, NEW p \in Processes, NEW s \in SignalIds \union {Blank}, Start(p, s)
    PROVE  Inv'
<1> USE DEF Inv, Start, GoTo
<1>1. TypeOK'
  BY RunsAssumption DEF TypeOK
<1>2. /\ ~OwnsSignal(p)' /\ Ahead(p)' = {}
      /\ \A q \in Processes \ {p} : /\ OwnsSignal(q)' <=> OwnsSignal(q)
                                    /\ Ahead(q)' = Ahead(q)
                                    /\ signal_id'[q] = signal_id[q]
  BY DEF TypeOK, OwnsSignal, Ahead, LegNames
<1>3. RunsAreInOrder'
  BY <1>2 DEF TypeOK, RunsAreInOrder, LegNames
<1>4. OwnersAreLogged' /\ OwnersAreAlone' /\ LegsAheadAreFree'
  BY <1>2, OthersOwn
<1>5. StatusIsRecorded'
  BY DEF StatusIsRecorded
<1> QED
  BY <1>1, <1>3, <1>4, <1>5, SameTables

LEMMA BuildCommandInv ==
    ASSUME Inv, NEW p \in Processes, BuildCommand(p)
    PROVE  Inv'
<1> USE DEF BuildCommand
<1>1. CASE EndWith(p, "error")
  BY <1>1, FailInv
<1>2. CASE signal_id[p] # Blank /\ GoTo(p, "market") /\ UNCHANGED status
  <2> USE <1>2 DEF Inv, GoTo
  <2>1. TypeOK'
    BY DEF TypeOK
  <2>2. /\ ~OwnsSignal(p)' /\ Ahead(p)' = {}
        /\ \A q \in Processes \ {p} : /\ OwnsSignal(q)' <=> OwnsSignal(q)
                                      /\ Ahead(q)' = Ahead(q)
    BY DEF TypeOK, RunsAreInOrder, OwnsSignal, Ahead, LegNames
  <2>3. RunsAreInOrder'
    BY <2>2 DEF TypeOK, RunsAreInOrder, LegNames
  <2>4. OwnersAreLogged' /\ OwnersAreAlone' /\ LegsAheadAreFree'
    BY <2>2, OthersOwn
  <2>5. StatusIsRecorded'
    BY DEF StatusIsRecorded
  <2> QED
    BY <2>1, <2>3, <2>4, <2>5, SameTables
<1> QED
  BY <1>1, <1>2

LEMMA GenerateSignalInv ==
    ASSUME Inv, NEW p \in Processes, GenerateSignal(p)
    PROVE  Inv'
<1> USE DEF GenerateSignal
<1>1. CASE EndWith(p, "error") /\ UNCHANGED direction
  BY <1>1, FailInv
<1>2. CASE /\ \E d \in Directions : direction' = [direction EXCEPT ![p] = d]
           /\ GoTo(p, "append")
           /\ UNCHANGED status
  <2> USE <1>2 DEF Inv, GoTo
  <2>1. TypeOK'
    BY DEF TypeOK
  <2>2. /\ ~OwnsSignal(p)' /\ Ahead(p)' = {}
        /\ \A q \in Processes \ {p} : /\ OwnsSignal(q)' <=> OwnsSignal(q)
                                      /\ Ahead(q)' = Ahead(q)
                                      /\ direction'[q] = direction[q]
    BY DEF TypeOK, RunsAreInOrder, OwnsSignal, Ahead, LegNames
  <2>3. RunsAreInOrder'
    BY <2>2 DEF TypeOK, RunsAreInOrder, LegNames
  <2>4. OwnersAreLogged' /\ OwnersAreAlone' /\ LegsAheadAreFree'
    BY <2>2, OthersOwn
  <2>5. StatusIsRecorded'
    BY DEF StatusIsRecorded
  <2> QED
    BY <2>1, <2>3, <2>4, <2>5, SameTables
<1> QED
  BY <1>1, <1>2

(* The INSERT takes the signal: nobody owns it, and it has neither orders nor *)
(* a recorded success, for either would have left it in the log.              *)
LEMMA AppendSignalInv ==
    ASSUME Inv, NEW p \in Processes, AppendSignal(p)
    PROVE  Inv'
<1> USE DEF AppendSignal
<1>1. CASE EndWith(p, "error") /\ UNCHANGED signal_logs
  BY <1>1, FailInv
<1>2. CASE /\ ~Logged(signal_id[p])
           /\ signal_logs' = signal_logs
                 \union {[signal_id |-> signal_id[p], direction |-> direction[p]]}
           /\ GoTo(p, "decide")
           /\ UNCHANGED status
  <2> USE <1>2 DEF Inv, GoTo
  <2> DEFINE s == signal_id[p]
  <2>1. s \in SignalIds /\ direction[p] \in Directions
    BY DEF TypeOK, RunsAreInOrder
  <2>2. TypeOK'
    BY <2>1 DEF TypeOK
  <2>3. /\ OwnsSignal(p)' /\ pc'[p] = "decide"
        /\ \A q \in Processes \ {p} : /\ OwnsSignal(q)' <=> OwnsSignal(q)
                                      /\ Ahead(q)' = Ahead(q)
    BY DEF TypeOK, OwnsSignal, Ahead
  <2>4. RunsAreInOrder'
    BY <2>1, <2>3 DEF TypeOK, RunsAreInOrder, LegNames
  <2>5. LogIsKeyed'
    BY DEF LogIsKeyed, Logged
  <2>6. \A q \in Processes : OwnsSignal(q) => signal_id[q] # s
    BY DEF OwnersAreLogged, Logged
  <2>7. scheduler_runs[s]["succeeded"] = 0
    <3>1. scheduler_runs[s]["succeeded"] \in Nat
      BY <2>1 DEF TypeOK, Outcomes
    <3>2. scheduler_runs[s]["succeeded"] =< 1 /\ scheduler_runs[s]["succeeded"] # 1
      BY <2>1 DEF SuccessIsLogged
    <3> QED
      BY <3>1, <3>2
  <2>8. OwnersAreLogged'
    <3> SUFFICES ASSUME NEW q \in Processes, OwnsSignal(q)'
                 PROVE  /\ [signal_id |-> signal_id[q], direction |-> direction[q]] \in signal_logs'
                        /\ scheduler_runs[signal_id[q]]["succeeded"] = 0
      BY DEF OwnersAreLogged
    <3>1. CASE q = p
      BY <2>7, <3>1
    <3>2. CASE q # p
      BY <2>3, <3>2 DEF OwnersAreLogged
    <3> QED
      BY <3>1, <3>2
  <2>9. OwnersAreAlone'
    BY <2>3, <2>6 DEF OwnersAreAlone
  <2>10. LegsAheadAreFree'
    <3> SUFFICES ASSUME NEW q \in Processes, NEW leg \in Ahead(q)'
                 PROVE  orders[signal_id[q]][leg] = <<>>
      BY DEF LegsAheadAreFree
    <3>1. CASE q = p
      BY <2>1, <3>1 DEF OrdersAreLogged, Ahead
    <3>2. CASE q # p
      BY <2>3, <3>2 DEF LegsAheadAreFree
    <3> QED
      BY <3>1, <3>2
  <2>11. \A t \in SignalIds : Logged(t) => Logged(t)'
    BY DEF Logged
  <2>12. OrdersAreLogged'
    BY <2>11 DEF OrdersAreLogged
  <2>13. SuccessIsLogged'
    BY <2>11 DEF SuccessIsLogged
  <2>14. StatusIsRecorded'
    BY DEF StatusIsRecorded
  <2> QED
    BY <2>2, <2>4, <2>5, <2>8, <2>9, <2>10, <2>12, <2>13, <2>14
<1> QED
  BY <1>1, <1>2

(* A run that goes on to its orders, or ends with a result, keeps its signal. *)
LEMMA OwnersGoOn ==
    ASSUME Inv, NEW p \in Processes, OwnsSignal(p),
           UNCHANGED <<signal_logs, scheduler_runs, signal_id, direction>>,
           \A q \in Processes \ {p} : OwnsSignal(q)' <=> OwnsSignal(q)
    PROVE  OwnersAreLogged' /\ OwnersAreAlone'
<1>1. \A q \in Processes : OwnsSignal(q)' => OwnsSignal(q)
  OBVIOUS
<1>2. OwnersAreLogged'
  <2> SUFFICES ASSUME NEW q \in Processes, OwnsSignal(q)'
               PROVE  /\ [signal_id |-> signal_id[q], direction |-> direction[q]] \in signal_logs
                      /\ scheduler_runs[signal_id[q]]["succeeded"] = 0
    BY DEF OwnersAreLogged
  <2>1. OwnsSignal(q)
    BY <1>1
  <2> QED
    BY <2>1 DEF Inv, OwnersAreLogged
<1>3. OwnersAreAlone'
  BY <1>1 DEF Inv, OwnersAreAlone
<1> QED
  BY <1>2, <1>3

LEMMA DecideInv ==
    ASSUME Inv, NEW p \in Processes, Decide(p)
    PROVE  Inv'
<1> USE DEF Decide
<1>1. CASE EndWith(p, "error")
  BY <1>1, FailInv
<1>2. CASE ~EndWith(p, "error")
  <2> USE <1>2 DEF Inv
  <2>1. \/ GoTo(p, "entry") /\ UNCHANGED status /\ direction[p] # "wait"
        \/ EndWith(p, "skipped")
        \/ EndWith(p, "risk_rejected")
    OBVIOUS
  <2> USE <2>1 DEF EndWith, GoTo
  <2>2. TypeOK'
    <3>1. CASE GoTo(p, "entry") /\ UNCHANGED status
      BY <3>1 DEF TypeOK, Statuses, LegNames, GoTo
    <3>2. ASSUME NEW s \in {"skipped", "risk_rejected"}, EndWith(p, s)
          PROVE  TypeOK'
      <4>1. status' \in [Processes -> Statuses \union {"none", "error"}]
        BY <3>2 DEF TypeOK, Statuses
      <4>2. pc' \in [Processes -> {"idle", "command", "market", "append", "decide", "record"}
                                    \union LegNames]
        BY <3>2 DEF TypeOK
      <4> QED
        BY <3>2, <4>1, <4>2 DEF TypeOK
    <3> QED
      BY <2>1, <3>1, <3>2
  <2>3. /\ OwnsSignal(p)
        /\ Ahead(p)' \subseteq Ahead(p)
        /\ \A q \in Processes \ {p} : /\ OwnsSignal(q)' <=> OwnsSignal(q)
                                      /\ Ahead(q)' = Ahead(q)
    BY DEF TypeOK, OwnsSignal, Ahead, LegNames
  <2>4. RunsAreInOrder'
    <3>1. signal_id[p] \in SignalIds
      BY <2>3 DEF RunsAreInOrder
    <3> QED
      BY <2>3, <3>1 DEF TypeOK, RunsAreInOrder, LegNames
  <2>5. OwnersAreLogged' /\ OwnersAreAlone'
    BY <2>3, OwnersGoOn
  <2>6. LegsAheadAreFree'
    BY <2>3 DEF LegsAheadAreFree
  <2>7. StatusIsRecorded'
    BY DEF StatusIsRecorded
  <2> QED
    BY <2>2, <2>4, <2>5, <2>6, <2>7, SameTables
<1> QED
  BY <1>1, <1>2

-----------------------------------------------------------------------------
(* What a request may do to the orders of its signal. *)
Placed(p, leg) == Accept(p, leg) \/ UNCHANGED orders

LEMMA PlacedOrders ==
    ASSUME Inv, NEW p \in Processes, NEW leg \in LegNames, pc[p] = leg, Placed(p, leg),
           UNCHANGED signal_logs
    PROVE  /\ orders' \in [SignalIds -> [LegNames -> Seq({"long", "short"})]]
           /\ OrdersAreLogged'
           /\ \A s \in SignalIds, l \in LegNames :
                orders'[s][l] = orders[s][l] \/ (s = signal_id[p] /\ l = leg)
<1> DEFINE s == signal_id[p]
           side == Side(leg, direction[p])
<1>1. /\ OwnsSignal(p) /\ leg \in Ahead(p) /\ direction[p] \in {"long", "short"}
      /\ orders \in [SignalIds -> [LegNames -> Seq({"long", "short"})]]
  BY DEF Inv, TypeOK, RunsAreInOrder, OwnsSignal, Ahead, LegNames, Directions
<1>2. /\ s \in SignalIds
      /\ orders[s][leg] = <<>>
      /\ side \in {"long", "short"}
  BY <1>1 DEF Inv, RunsAreInOrder, LegsAheadAreFree, Side, OppositeSide
<1>3. Logged(s)
  BY <1>1 DEF Inv, OwnersAreLogged, Logged
<1>4. \A t \in SignalIds : Logged(t)' <=> Logged(t)
  BY DEF Logged
<1>5. CASE UNCHANGED orders
  <2>1. OrdersAreLogged'
    BY <1>4, <1>5 DEF Inv, OrdersAreLogged
  <2> QED
    BY <1>1, <1>5, <2>1
<1>6. CASE Accept(p, leg)
  <2>1. orders' = [orders EXCEPT ![s][leg] = <<side>>]
    <3>1. Append(orders[s][leg], side) = <<side>>
      BY <1>2
    <3> QED
      BY <1>1, <1>2, <1>6, <3>1 DEF Accept
  <2>2. <<side>> \in Seq({"long", "short"}) /\ Len(<<side>>) = 1
    BY <1>2
  <2>3. orders' \in [SignalIds -> [LegNames -> Seq({"long", "short"})]]
    BY <1>1, <1>2, <2>1, <2>2
  <2>4. \A t \in SignalIds, l \in LegNames :
            orders'[t][l] = IF t = s /\ l = leg THEN <<side>> ELSE orders[t][l]
    BY <1>1, <1>2, <2>1
  <2>5. OrdersAreLogged'
    <3> SUFFICES ASSUME NEW t \in SignalIds, NEW l \in LegNames
                 PROVE  /\ Len(orders'[t][l]) =< 1
                        /\ orders'[t][l] # <<>> => Logged(t)
      BY <1>4 DEF OrdersAreLogged
    <3>1. CASE t = s /\ l = leg
      <4>1. orders'[t][l] = <<side>>
        BY <2>4, <3>1
      <4> QED
        BY <1>3, <2>2, <3>1, <4>1
    <3>2. CASE ~(t = s /\ l = leg)
      BY <2>4, <3>2 DEF Inv, OrdersAreLogged
    <3> QED
      BY <3>1, <3>2
  <2>6. \A t \in SignalIds, l \in LegNames :
            orders'[t][l] = orders[t][l] \/ (t = s /\ l = leg)
    BY <2>4
  <2> QED
    BY <2>3, <2>5, <2>6
<1> QED
  BY <1>5, <1>6 DEF Placed

(* The legs ahead of another run are those of another signal, and the leg of  *)
(* this request is behind the run that made it.                               *)
LEMMA LegsStayFree ==
    ASSUME Inv, NEW p \in Processes, NEW leg \in LegNames, pc[p] = leg, Placed(p, leg),
           UNCHANGED <<signal_logs, signal_id>>,
           Ahead(p)' \subseteq Ahead(p) \ {leg},
           \A q \in Processes \ {p} : Ahead(q)' = Ahead(q)
    PROVE  LegsAheadAreFree'
<1> SUFFICES ASSUME NEW q \in Processes, NEW l \in Ahead(q)'
             PROVE  orders'[signal_id[q]][l] = <<>>
  BY DEF LegsAheadAreFree
<1>1. l \in Ahead(q) /\ (q = p => l # leg)
  OBVIOUS
<1>2. l \in LegNames /\ OwnsSignal(q) /\ OwnsSignal(p)
  BY <1>1 DEF Ahead, OwnsSignal, LegNames
<1>3. /\ signal_id[q] \in SignalIds
      /\ q # p => signal_id[q] # signal_id[p]
  BY <1>2 DEF Inv, RunsAreInOrder, OwnersAreAlone
<1>4. orders'[signal_id[q]][l] = orders[signal_id[q]][l]
  BY <1>1, <1>2, <1>3, PlacedOrders
<1> QED
  BY <1>1, <1>4 DEF Inv, LegsAheadAreFree

(* The run goes on to the next leg, or ends with all three submitted. *)
LEMMA AnsweredInv ==
    ASSUME Inv, NEW p \in Processes, NEW leg \in LegNames, pc[p] = leg, Answered(p, leg),
           UNCHANGED <<signal_logs, scheduler_runs, signal_id, direction, last_status, started>>
    PROVE  Inv'
<1> DEFINE next == CASE leg = "entry" -> "take_profit"
                     [] leg = "take_profit" -> "stop_loss"
                     [] leg = "stop_loss" -> "record"
<1>1. /\ pc' = [pc EXCEPT ![p] = next]
      /\ status' = [status EXCEPT ![p] = IF leg = "stop_loss" THEN "order_submitted" ELSE @]
      /\ attempt' = [attempt EXCEPT ![p] = 1]
      /\ Placed(p, leg)
  BY DEF Answered, Proceed, GoTo, EndWith, LegNames, Placed, Inv, TypeOK
<1>2. TypeOK'
  BY <1>1, PlacedOrders, RetryAssumption DEF Inv, TypeOK, Statuses, LegNames, Attempts
<1>3. /\ OwnsSignal(p)
      /\ Ahead(p)' \subseteq Ahead(p) \ {leg}
      /\ \A q \in Processes \ {p} : /\ OwnsSignal(q)' <=> OwnsSignal(q)
                                    /\ Ahead(q)' = Ahead(q)
  BY <1>1 DEF Inv, TypeOK, OwnsSignal, Ahead, LegNames
<1>4. signal_id[p] \in SignalIds /\ direction[p] # "wait"
  BY <1>3 DEF Inv, RunsAreInOrder
<1>5. RunsAreInOrder'
  BY <1>1, <1>3, <1>4 DEF Inv, TypeOK, RunsAreInOrder, LegNames
<1>6. LogIsKeyed' /\ SuccessIsLogged'
  BY DEF Inv, LogIsKeyed, SuccessIsLogged, Logged
<1>7. OwnersAreLogged' /\ OwnersAreAlone'
  BY <1>3, OwnersGoOn
<1>8. LegsAheadAreFree' /\ OrdersAreLogged'
  BY <1>1, <1>3, LegsStayFree, PlacedOrders
<1>9. StatusIsRecorded'
  BY DEF Inv, StatusIsRecorded
<1> QED
  BY <1>2, <1>5, <1>6, <1>7, <1>8, <1>9 DEF Inv

(* The request is sent again. *)
LEMMA RetryInv ==
    ASSUME Inv, NEW p \in Processes, attempt[p] < Attempts,
           attempt' = [attempt EXCEPT ![p] = @ + 1],
           UNCHANGED <<signal_logs, scheduler_runs, orders, pc, signal_id, direction, status,
                       last_status, started>>
    PROVE  Inv'
<1>1. TypeOK'
  BY RetryAssumption DEF Inv, TypeOK, Attempts
<1>2. \A q \in Processes : (OwnsSignal(q)' <=> OwnsSignal(q)) /\ Ahead(q)' = Ahead(q)
  BY DEF OwnsSignal, Ahead
<1>3. RunsAreInOrder' /\ LegsAheadAreFree' /\ StatusIsRecorded'
  BY <1>2 DEF Inv, RunsAreInOrder, LegsAheadAreFree, StatusIsRecorded
<1>4. OwnersAreLogged' /\ OwnersAreAlone'
  BY <1>2 DEF Inv, OwnersAreLogged, OwnersAreAlone
<1> QED
  BY <1>1, <1>3, <1>4, SameTables DEF Inv

(* The run fails after a request that may have placed an order. *)
LEMMA AmbiguousInv ==
    ASSUME Inv, NEW p \in Processes, NEW leg \in LegNames, pc[p] = leg, Ambiguous(p, leg),
           UNCHANGED <<signal_logs, scheduler_runs, signal_id, direction, last_status, started>>
    PROVE  Inv'
<1> USE DEF Ambiguous, EndWith, GoTo
<1>1. Placed(p, leg)
  BY DEF Placed
<1>2. TypeOK'
  BY <1>1, PlacedOrders DEF Inv, TypeOK
<1>3. /\ ~OwnsSignal(p)' /\ Ahead(p)' = {}
      /\ Ahead(p)' \subseteq Ahead(p) \ {leg}
      /\ \A q \in Processes \ {p} : /\ OwnsSignal(q)' <=> OwnsSignal(q)
                                    /\ Ahead(q)' = Ahead(q)
  BY DEF Inv, TypeOK, OwnsSignal, Ahead, LegNames
<1>4. RunsAreInOrder'
  BY <1>3 DEF Inv, TypeOK, RunsAreInOrder, LegNames
<1>5. LogIsKeyed' /\ SuccessIsLogged'
  BY DEF Inv, LogIsKeyed, SuccessIsLogged, Logged
<1>6. OwnersAreLogged' /\ OwnersAreAlone'
  <2>1. OwnsSignal(p)
    BY DEF OwnsSignal
  <2> QED
    BY <2>1, <1>3, OwnersGoOn
<1>7. LegsAheadAreFree' /\ OrdersAreLogged'
  BY <1>1, <1>3, LegsStayFree, PlacedOrders
<1>8. StatusIsRecorded'
  BY DEF Inv, StatusIsRecorded
<1> QED
  BY <1>2, <1>4, <1>5, <1>6, <1>7, <1>8 DEF Inv

LEMMA SubmitOrderInv ==
    ASSUME Inv, NEW p \in Processes, NEW leg \in LegNames, SubmitOrder(p, leg)
    PROVE  Inv'
<1> USE DEF SubmitOrder
<1>1. CASE Answered(p, leg)
  BY <1>1, AnsweredInv
<1>2. CASE NotExecuted(p, leg)
  <2>1. CASE attempt[p] < Attempts
    BY <1>2, <2>1, RetryInv DEF NotExecuted
  <2>2. CASE ~(attempt[p] < Attempts)
    <3>1. pc[p] # "record"
      BY DEF LegNames
    <3> QED
      BY <1>2, <2>2, <3>1, FailInv DEF NotExecuted
  <2> QED
    BY <2>1, <2>2
<1>3. CASE Ambiguous(p, leg)
  BY <1>3, AmbiguousInv
<1> QED
  BY <1>1, <1>2, <1>3

-----------------------------------------------------------------------------
(* A run that owns its signal records its success once: the signal is logged, *)
(* and no other run can come to own it.                                       *)
LEMMA SucceedInv ==
    ASSUME Inv, NEW p \in Processes, pc[p] = "record", status[p] # "error", signal_id[p] # Blank,
           scheduler_runs' = [scheduler_runs EXCEPT ![signal_id[p]]["succeeded"] = @ + 1],
           last_status' = [last_status EXCEPT ![p] = status[p]],
           Forget(p),
           UNCHANGED <<signal_logs, orders, started>>
    PROVE  Inv'
<1> DEFINE s == signal_id[p]
<1> USE DEF Forget, GoTo
<1>1. /\ OwnsSignal(p) /\ s \in SignalIds
      /\ status[p] \in Statuses
  BY DEF Inv, TypeOK, OwnsSignal, RunsAreInOrder
<1>2. /\ scheduler_runs \in [SignalIds -> [Outcomes -> Nat]]
      /\ scheduler_runs[s]["succeeded"] = 0
      /\ Logged(s)
  BY <1>1 DEF Inv, TypeOK, OwnersAreLogged, Logged
<1>3. /\ scheduler_runs' \in [SignalIds -> [Outcomes -> Nat]]
      /\ scheduler_runs'[s]["succeeded"] = 1
      /\ \A t \in SignalIds \ {s} : scheduler_runs'[t] = scheduler_runs[t]
  BY <1>1, <1>2 DEF Outcomes
<1> HIDE DEF s
<1>4. TypeOK'
  BY <1>1, <1>3, RetryAssumption DEF Inv, TypeOK, Directions, Attempts
<1>5. /\ ~OwnsSignal(p)' /\ Ahead(p)' = {}
      /\ \A q \in Processes \ {p} : /\ OwnsSignal(q)' <=> OwnsSignal(q)
                                    /\ Ahead(q)' = Ahead(q)
                                    /\ signal_id'[q] = signal_id[q]
                                    /\ direction'[q] = direction[q]
  BY DEF Inv, TypeOK, OwnsSignal, Ahead, LegNames
<1>6. RunsAreInOrder'
  BY <1>5 DEF Inv, TypeOK, RunsAreInOrder, LegNames
<1>7. LogIsKeyed' /\ OrdersAreLogged'
  BY DEF Inv, LogIsKeyed, OrdersAreLogged, Logged
<1>8. OwnersAreLogged'
  <2> SUFFICES ASSUME NEW q \in Processes, OwnsSignal(q)'
               PROVE  /\ [signal_id |-> signal_id'[q], direction |-> direction'[q]] \in signal_logs
                      /\ scheduler_runs'[signal_id'[q]]["succeeded"] = 0
    BY DEF OwnersAreLogged
  <2>1. /\ q # p /\ OwnsSignal(q)
        /\ signal_id'[q] = signal_id[q] /\ direction'[q] = direction[q]
    BY <1>5
  <2>2. signal_id[q] \in SignalIds \ {s}
    BY <1>1, <2>1 DEF Inv, RunsAreInOrder, OwnersAreAlone, s
  <2>3. /\ [signal_id |-> signal_id[q], direction |-> direction[q]] \in signal_logs
        /\ scheduler_runs[signal_id[q]]["succeeded"] = 0
    BY <2>1 DEF Inv, OwnersAreLogged
  <2>4. scheduler_runs'[signal_id[q]] = scheduler_runs[signal_id[q]]
    BY <1>3, <2>2
  <2> QED
    BY <2>1, <2>3, <2>4
<1>9. OwnersAreAlone'
  BY <1>5 DEF Inv, OwnersAreAlone
<1>10. LegsAheadAreFree'
  BY <1>5 DEF Inv, LegsAheadAreFree
<1>11. SuccessIsLogged'
  <2> SUFFICES ASSUME NEW t \in SignalIds
               PROVE  /\ scheduler_runs'[t]["succeeded"] =< 1
                      /\ scheduler_runs'[t]["succeeded"] = 1 => Logged(t)
    BY DEF SuccessIsLogged, Logged
  <2>1. CASE t = s
    BY <1>2, <1>3, <2>1
  <2>2. CASE t # s
    BY <1>3, <2>2 DEF Inv, SuccessIsLogged
  <2> QED
    BY <2>1, <2>2
<1>12. StatusIsRecorded'
  <2>1. scheduler_runs'[s]["succeeded"] > 0
    BY <1>3
  <2> QED
    BY <1>1, <2>1 DEF StatusIsRecorded
<1> QED
  BY <1>4, <1>6, <1>7, <1>8, <1>9, <1>10, <1>11, <1>12 DEF Inv

LEMMA RecordInv ==
    ASSUME Inv, NEW p \in Processes, Record(p)
    PROVE  Inv'
<1> USE DEF Record
<1>1. CASE UNCHANGED <<scheduler_runs, last_status>>
  BY <1>1, ForgetInv
<1>2. CASE /\ signal_id[p] # Blank /\ status[p] = "error"
           /\ scheduler_runs' = [scheduler_runs EXCEPT ![signal_id[p]]["failed"] = @ + 1]
           /\ last_status' = [last_status EXCEPT ![p] = @]
  <2> DEFINE s == signal_id[p]
  <2>1. s \in SignalIds /\ scheduler_runs \in [SignalIds -> [Outcomes -> Nat]]
    BY <1>2 DEF Inv, TypeOK
  <2>2. /\ scheduler_runs' \in [SignalIds -> [Outcomes -> Nat]]
        /\ \A t \in SignalIds : scheduler_runs'[t]["succeeded"] = scheduler_runs[t]["succeeded"]
    BY <1>2, <2>1 DEF Outcomes
  <2>3. last_status' = last_status
    BY <1>2 DEF Inv, TypeOK
  <2> QED
    BY <1>2, <2>2, <2>3, ForgetInv DEF SuccessesStay
<1>3. CASE /\ signal_id[p] # Blank /\ status[p] # "error"
           /\ scheduler_runs' = [scheduler_runs EXCEPT ![signal_id[p]]["succeeded"] = @ + 1]
           /\ last_status' = [last_status EXCEPT ![p] = status[p]]
  BY <1>3, SucceedInv
<1> QED
  BY <1>1, <1>2, <1>3

LEMMA NextInv == Inv /\ [Next]_vars => Inv'
<1> SUFFICES ASSUME Inv, [Next]_vars PROVE Inv'
  OBVIOUS
<1>1. ASSUME NEW p \in Processes, NEW s \in SignalIds \union {Blank}, Start(p, s) PROVE Inv'
  BY <1>1, StartInv
<1>2. ASSUME NEW p \in Processes, RunStep(p) PROVE Inv'
  BY <1>2, BuildCommandInv, GenerateSignalInv, AppendSignalInv, DecideInv, SubmitOrderInv, RecordInv
  DEF RunStep
<1>3. ASSUME NEW p \in Processes, Crash(p) PROVE Inv'
  BY <1>3, ForgetInv DEF Crash
<1>4. CASE UNCHANGED vars
  <2>1. \A q \in Processes : (OwnsSignal(q)' <=> OwnsSignal(q)) /\ Ahead(q)' = Ahead(q)
    BY <1>4 DEF vars, run, OwnsSignal, Ahead
  <2>2. TypeOK' /\ RunsAreInOrder' /\ LegsAheadAreFree' /\ StatusIsRecorded'
    BY <1>4, <2>1 DEF vars, run, Inv, TypeOK, RunsAreInOrder, LegsAheadAreFree, StatusIsRecorded
  <2>3. OwnersAreLogged' /\ OwnersAreAlone'
    BY <1>4, <2>1 DEF vars, run, Inv, OwnersAreLogged, OwnersAreAlone
  <2> QED
    BY <1>4, <2>2, <2>3, SameTables DEF vars, Inv
<1> QED
  BY <1>1, <1>2, <1>3, <1>4 DEF Next

(* The conjuncts of RunsAreExclusive, from the invariant. *)
LEMMA InvIsExclusive == Inv => RunsAreExclusive
<1> SUFFICES ASSUME Inv PROVE RunsAreExclusive
  OBVIOUS
<1>1. OrdersAreExclusive
  BY DEF Inv, OwnersAreAlone, OwnsSignal, OrdersAreExclusive
<1>2. OneOrderPerClientId
  BY DEF Inv, OrdersAreLogged, OneOrderPerClientId
<1>3. OneSuccessPerSignal
  BY DEF Inv, SuccessIsLogged, OrdersAreLogged, OneSuccessPerSignal, LegNames
<1> QED
  BY <1>1, <1>2, <1>3 DEF Inv, RunsAreExclusive

(* RunsAreExclusive, for any number of concurrent runs of                     *)
(* run_trade_execution_once, any number of retries and any crashes.           *)
THEOREM ExclusiveRuns == Spec => []RunsAreExclusive
<1>1. Spec => []Inv
  BY InitInv, NextInv, PTL DEF Spec
<1> QED
  BY <1>1, InvIsExclusive, PTL

-----------------------------------------------------------------------------
(* Every step is one of SignalOrders, or changes neither the log nor the orders. *)

LEMMA AbstractSides ==
    ASSUME NEW leg \in LegNames, NEW d \in {"long", "short"}
    PROVE  Sequential!Side(leg, d) = Side(leg, d)
<1> DEFINE Agrees(side) == side = d <=> leg = "entry"
<1>1. Side(leg, d) \in {"long", "short"} /\ Agrees(Side(leg, d))
  BY DEF Side, OppositeSide
<1>2. \A side \in {"long", "short"} : Agrees(side) => side = Side(leg, d)
  BY DEF Side, OppositeSide
<1>3. Sequential!Side(leg, d) = CHOOSE side \in {"long", "short"} : Agrees(side)
  BY DEF Sequential!Side
<1> HIDE DEF Agrees
<1>4. /\ Sequential!Side(leg, d) \in {"long", "short"}
      /\ Agrees(Sequential!Side(leg, d))
  BY <1>1, <1>3, Zenon
<1> QED
  BY <1>2, <1>4

LEMMA AbstractLegs ==
    /\ DOMAIN Sequential!Legs = 1..3
    /\ Sequential!Legs[1] = "entry"
    /\ Sequential!Legs[2] = "take_profit"
    /\ Sequential!Legs[3] = "stop_loss"
    /\ {Sequential!Legs[i] : i \in DOMAIN Sequential!Legs} = LegNames
BY DEF Sequential!Legs, LegNames

LEMMA AppendIsLog ==
    ASSUME Inv, NEW p \in Processes, AppendSignal(p)
    PROVE  Sequential!Next \/ UNCHANGED <<signal_logs, orders>>
<1>1. CASE UNCHANGED signal_logs
  BY <1>1 DEF AppendSignal
<1>2. CASE /\ ~Logged(signal_id[p])
           /\ signal_logs' = signal_logs
                 \union {[signal_id |-> signal_id[p], direction |-> direction[p]]}
  <2>1. signal_id[p] \in SignalIds /\ direction[p] \in Directions
    BY DEF Inv, TypeOK, RunsAreInOrder, AppendSignal
  <2>2. Sequential!Log(signal_id[p], direction[p])
    BY <1>2 DEF Sequential!Log, AppendSignal, Logged
  <2> QED
    BY <2>1, <2>2 DEF Sequential!Next
<1> QED
  BY <1>1, <1>2 DEF AppendSignal

LEMMA SubmitIsPlace ==
    ASSUME Inv, NEW p \in Processes, NEW leg \in LegNames, SubmitOrder(p, leg)
    PROVE  Sequential!Next \/ UNCHANGED <<signal_logs, orders>>
<1> DEFINE s == signal_id[p]
           log == [signal_id |-> s, direction |-> direction[p]]
<1>1. UNCHANGED signal_logs /\ (Accept(p, leg) \/ UNCHANGED orders)
  BY DEF SubmitOrder, Answered, NotExecuted, Ambiguous
<1>2. CASE UNCHANGED orders
  BY <1>1, <1>2
<1>3. CASE Accept(p, leg)
  <2>1. OwnsSignal(p) /\ pc[p] = leg /\ direction[p] \in {"long", "short"}
    BY DEF Inv, TypeOK, RunsAreInOrder, OwnsSignal, Directions, SubmitOrder
  <2>2. s \in SignalIds /\ log \in signal_logs
    BY <2>1 DEF Inv, RunsAreInOrder, OwnersAreLogged
  <2>3. PICK i \in 1..3 : Sequential!Legs[i] = leg
    BY AbstractLegs DEF LegNames
  <2>4. \A j \in 1..3 : j >= i => Sequential!Legs[j] \in Ahead(p)
    BY <2>1, <2>3, AbstractLegs DEF Ahead, LegNames
  <2>5. \A j \in 1..3 : j >= i => orders[s][Sequential!Legs[j]] = <<>>
    BY <2>4 DEF Inv, LegsAheadAreFree
  <2>6. orders' = [orders EXCEPT ![s][leg] = <<Sequential!Side(leg, direction[p])>>]
    <3>1. orders[s][leg] = <<>>
      BY <2>3, <2>5
    <3>2. Append(orders[s][leg], Side(leg, direction[p])) = <<Side(leg, direction[p])>>
      BY <3>1
    <3>3. orders' = [orders EXCEPT ![s][leg] = Append(orders[s][leg], Side(leg, direction[p]))]
      BY <1>3, <2>2 DEF Accept, Inv, TypeOK
    <3> QED
      BY <2>1, <3>2, <3>3, AbstractSides
  <2>7. Sequential!Place(s, i)
    BY <1>1, <2>1, <2>2, <2>3, <2>5, <2>6, AbstractLegs DEF Sequential!Place
  <2> QED
    BY <2>2, <2>7, AbstractLegs DEF Sequential!Next
<1> QED
  BY <1>1, <1>2, <1>3

LEMMA StepsAreSequential ==
    Inv /\ [Next]_vars => [Sequential!Next]_(Sequential!vars)
<1> SUFFICES ASSUME Inv, [Next]_vars
             PROVE  Sequential!Next \/ UNCHANGED <<signal_logs, orders>>
  BY DEF Sequential!vars
<1>1. ASSUME NEW p \in Processes, NEW s \in SignalIds \union {Blank}, Start(p, s)
      PROVE  UNCHANGED <<signal_logs, orders>>
  BY <1>1 DEF Start
<1>2. ASSUME NEW p \in Processes, BuildCommand(p) \/ GenerateSignal(p) \/ Decide(p) \/ Record(p)
      PROVE  UNCHANGED <<signal_logs, orders>>
  BY <1>2 DEF BuildCommand, GenerateSignal, Decide, Record
<1>3. ASSUME NEW p \in Processes, Crash(p) PROVE UNCHANGED <<signal_logs, orders>>
  BY <1>3 DEF Crash
<1>4. CASE UNCHANGED vars
  BY <1>4 DEF vars
<1> QED
  BY <1>1, <1>2, <1>3, <1>4, AppendIsLog, SubmitIsPlace DEF Next, RunStep

(* Trade execution implements SignalOrders: whatever runs, retries, failures  *)
(* and crashes there are, a signal is logged once and then given its orders   *)
(* in sequence, each leg once and on the side of the logged direction.        *)
THEOREM TradesOnce == Spec => SignalsAreTradedOnce
<1>1. Init => Sequential!Init
  BY AbstractLegs DEF Init, Sequential!Init
<1>2. Spec => []Inv
  BY InitInv, NextInv, PTL DEF Spec
<1>3. Spec => Sequential!Spec
  BY <1>1, <1>2, StepsAreSequential, PTL DEF Spec, Sequential!Spec
<1> QED
  BY <1>3 DEF SignalsAreTradedOnce

=============================================================================
