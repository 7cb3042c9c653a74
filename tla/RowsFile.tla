------------------------------ MODULE RowsFile ------------------------------
(***************************************************************************)
(* incremental_walk_forward_runner: runs that share one JSONL file of      *)
(* finished folds, so that a run resumes where another one stopped.        *)
(*                                                                         *)
(* A run loads the rows, replays every fold that is not among them,        *)
(* appends its row, loads the rows again and writes an aggregate of them.  *)
(* Only the append holds the lock, a file made with O_EXCL that names its  *)
(* owner and is removed for an owner that is dead; the other loads hold    *)
(* nothing.  A load that finds a last line that is not JSON copies it      *)
(* to a quarantine file and cuts the rows file where the line began.       *)
(*                                                                         *)
(* A process is one run, so a pid is never used twice.  A row is the run   *)
(* identity and the fold: the replay of a fold is a function of them.  The *)
(* file is the sequence of its lines and an offset a number of lines.  The *)
(* quarantine file is not part of the state.                               *)
(***************************************************************************)
EXTENDS Naturals, Sequences, SequencesExt

CONSTANTS
    Runs,          \* the processes
    NoRun,
    RunIdentities,
    Folds          \* how many folds a run has

ASSUME FoldsAssumption == Folds \in Nat \ {0}
ASSUME NoRunAssumption == NoRun \notin Runs

FoldRows == [run_identity : RunIdentities, fold : 1..Folds]

(* A lock file: its inode, its maker, whether the maker's metadata is in it, *)
(* and whether it was last modified stale_seconds ago.                       *)
LockFiles == [inode : Nat, owner : Runs \union {NoRun}, written : BOOLEAN, old : BOOLEAN]
NoLock == [inode |-> 0, owner |-> NoRun, written |-> FALSE, old |-> FALSE]

(* A line is a row with its newline, a row that lacks only the newline, the  *)
(* begin of a row, or two writes in one line.                                *)
Forms == {"whole", "bare", "torn", "damaged"}

VARIABLES
    rowsFile,      \* lines: see Forms
    payload,       \* the aggregate at the payload path, or "part" or "none"
    lockFile,
    inodes,        \* how many lock files were made
    step,          \* where a run is
    load,          \* the load it is in: at its begin, of an append, or after one
    runIdentity,
    inode,         \* of the lock file it made, or is inspecting
    cut,           \* offset of the torn line its load found
    rows,          \* the rows its last load returned
    fold,          \* the fold it is at
    result,        \* how the run ended
    acked,         \* history: rows that write_jsonl_row returned for
    overtaken,     \* history: a recovery removed a lock file it had not inspected
    unlockedCut,   \* history: a load without the lock cut off complete rows
    grown          \* history: a write grew a line that lacked only its newline

rowsDisk == <<rowsFile, payload>>
lockVars == <<lockFile, inodes>>
local == <<load, runIdentity, inode, cut, rows, fold, result>>
rowsHistory == <<acked, overtaken, unlockedCut, grown>>
rowsVars == <<rowsDisk, lockVars, step, local, rowsHistory>>

RowsTypeOK ==
    /\ rowsFile \in Seq([row : FoldRows, form : Forms])
    /\ payload \in {<<"none">>, <<"part">>} \union {<<"rows", s>> : s \in SUBSET FoldRows}
    /\ lockFile \in LockFiles
    /\ inodes \in Nat
    /\ step \in [Runs -> {"begin", "read", "truncate", "loaded", "lock", "own", "recheck",
                          "recover", "append", "release", "aggregate", "fill", "ended",
                          "dead"}]
    /\ load \in [Runs -> {"begin", "write", "reload"}]
    /\ runIdentity \in [Runs -> RunIdentities]
    /\ inode \in [Runs -> Nat]
    /\ cut \in [Runs -> Nat]
    /\ rows \in [Runs -> SUBSET FoldRows]
    /\ fold \in [Runs -> 1..(Folds + 1)]
    /\ result \in [Runs -> {"none", "done", "timeout", "os", "gap", "damaged"}]
    /\ acked \subseteq FoldRows
    /\ overtaken \in BOOLEAN
    /\ unlockedCut \in BOOLEAN
    /\ grown \in BOOLEAN

RowsInit ==
    /\ rowsFile = <<>>
    /\ payload = <<"none">>
    /\ lockFile = NoLock
    /\ inodes = 0
    /\ step = [p \in Runs |-> "begin"]
    /\ load = [p \in Runs |-> "begin"]
    /\ runIdentity \in [Runs -> RunIdentities]
    /\ inode = [p \in Runs |-> 0]
    /\ cut = [p \in Runs |-> 0]
    /\ rows = [p \in Runs |-> {}]
    /\ fold = [p \in Runs |-> 1]
    /\ result = [p \in Runs |-> "none"]
    /\ acked = {}
    /\ overtaken = FALSE
    /\ unlockedCut = FALSE
    /\ grown = FALSE

-----------------------------------------------------------------------------
OwnRow(p) == [run_identity |-> runIdentity[p], fold |-> fold[p]]

StoredRows ==
    {rowsFile[i].row : i \in {j \in DOMAIN rowsFile : rowsFile[j].form \in {"whole", "bare"}}}

TornTail == rowsFile # <<>> /\ Last(rowsFile).form = "torn"

OpenTail == rowsFile # <<>> /\ Last(rowsFile).form \in {"torn", "bare"}

(* The file with a line written at its end: behind a line without newline    *)
(* the two are one line that is not JSON.                                    *)
Written(r, form) ==
    IF OpenTail
    THEN Append(Front(rowsFile), [row |-> r, form |-> IF form = "whole" THEN "damaged" ELSE "torn"])
    ELSE Append(rowsFile, [row |-> r, form |-> form])

Grows == grown' = (grown \/ (OpenTail /\ ~TornTail))

At(p, s) == step[p] = s
To(p, s) == step' = [step EXCEPT ![p] = s]

(* The rest of the run, when it goes on. *)
Keeps == UNCHANGED <<runIdentity, result>>

(* The exception that ends a run. *)
Fails(p, error) ==
    /\ To(p, "ended")
    /\ result' = [result EXCEPT ![p] = error]
    /\ UNCHANGED <<load, runIdentity, inode, cut, rows, fold>>

BeginRun(p) ==
    /\ At(p, "begin")
    /\ To(p, "read")
    /\ UNCHANGED <<rowsDisk, lockVars, local, rowsHistory>>

(* load_jsonl_rows, up to the recovery of a torn line.  A damaged line      *)
(* raises, out of the with block when the load is the one of an append.      *)
ReadRows(p) ==
    /\ At(p, "read")
    /\ IF \E i \in DOMAIN rowsFile : rowsFile[i].form = "damaged"
       THEN /\ To(p, IF load[p] = "write" THEN "release" ELSE "ended")
            /\ result' = [result EXCEPT ![p] = "damaged"]
            /\ UNCHANGED <<rows, cut>>
       ELSE /\ To(p, IF TornTail THEN "truncate" ELSE "loaded")
            /\ rows' = [rows EXCEPT ![p] = StoredRows]
            /\ cut' = [cut EXCEPT ![p] = IF TornTail THEN Len(rowsFile) - 1 ELSE 0]
            /\ UNCHANGED result
    /\ UNCHANGED <<rowsDisk, lockVars, load, runIdentity, inode, fold, rowsHistory>>

(* output.truncate(offset): whatever is behind the offset by now goes, and a *)
(* file that has become shorter is filled up with zero bytes.                *)
TruncateRows(p) ==
    /\ At(p, "truncate")
    /\ rowsFile' = IF cut[p] <= Len(rowsFile)
                   THEN SubSeq(rowsFile, 1, cut[p])
                   ELSE Written(OwnRow(p), "torn")
    /\ unlockedCut' = (unlockedCut \/ (load[p] # "write" /\ \E i \in DOMAIN rowsFile :
                                         i > cut[p] /\ rowsFile[i].form \in {"whole", "bare"}))
    /\ cut' = [cut EXCEPT ![p] = 0]
    /\ To(p, "loaded")
    /\ UNCHANGED <<payload, lockVars, load, runIdentity, inode, rows, fold, result>>
    /\ UNCHANGED <<acked, overtaken, grown>>

-----------------------------------------------------------------------------
(* run_incremental_walk_forward *)

(* completed_keys of the run, in the rows of its last load. *)
Completed(p) == {r.fold : r \in {q \in rows[p] : q.run_identity = runIdentity[p]}}

(* The first fold from f on that is not completed. *)
NextFold(p, f) ==
    LET open == (f..Folds) \ Completed(p)
    IN  IF open = {} THEN Folds + 1 ELSE CHOOSE n \in open : \A m \in open : n <= m

(* What the run does with the rows it has loaded: it replays the next fold   *)
(* and appends its row, aggregates, or, under the lock, compares its row     *)
(* with the one of the same key.                                             *)
UseRows(p) ==
    /\ At(p, "loaded")
    /\ CASE load[p] = "begin" ->
              /\ fold' = [fold EXCEPT ![p] = NextFold(p, 1)]
              /\ To(p, IF fold'[p] > Folds THEN "aggregate" ELSE "lock")
              /\ UNCHANGED acked
         [] load[p] = "reload" -> To(p, "aggregate") /\ UNCHANGED <<fold, acked>>
         [] load[p] = "write" ->
              /\ To(p, IF OwnRow(p) \in rows[p] THEN "release" ELSE "append")
              /\ UNCHANGED <<fold, acked>>
    /\ UNCHANGED <<rowsDisk, lockVars, load, inode, cut, rows, overtaken, unlockedCut, grown>>
    /\ Keeps

(* _validated_fold_boundaries: the folds of the run have no gap. *)
NoGap(p) == \A i, j \in Completed(p) : \A k \in i..j : k \in Completed(p)

(* aggregate_incremental_rows, and _write_payloads opening the file. *)
Aggregate(p) ==
    /\ At(p, "aggregate")
    /\ IF NoGap(p)
       THEN To(p, "fill") /\ payload' = <<"part">> /\ UNCHANGED local
       ELSE Fails(p, "gap") /\ UNCHANGED payload
    /\ UNCHANGED <<rowsFile, lockVars, rowsHistory>>

(* The aggregate is written, and the run goes on or returns it. *)
FillPayload(p) ==
    LET next == NextFold(p, fold[p] + 1) IN
    /\ At(p, "fill")
    /\ payload' = <<"rows", {r \in rows[p] : r.run_identity = runIdentity[p]}>>
    /\ IF fold[p] <= Folds /\ next <= Folds
       THEN /\ To(p, "lock")
            /\ fold' = [fold EXCEPT ![p] = next]
            /\ UNCHANGED <<load, runIdentity, inode, cut, rows, result>>
       ELSE Fails(p, "done")
    /\ UNCHANGED <<rowsFile, lockVars, rowsHistory>>

-----------------------------------------------------------------------------
(* _rows_file_lock *)

MakeLock(p) ==
    /\ At(p, "lock")
    /\ lockFile = NoLock
    /\ lockFile' = [inode |-> inodes + 1, owner |-> p, written |-> FALSE, old |-> FALSE]
    /\ inodes' = inodes + 1
    /\ inode' = [inode EXCEPT ![p] = inodes + 1]
    /\ To(p, "own")
    /\ UNCHANGED <<rowsDisk, load, cut, rows, fold, rowsHistory>> /\ Keeps

(* The owner is written through the descriptor, into the file that was made, *)
(* or the write fails and the file stays as it is.                           *)
OwnLock(p) ==
    /\ At(p, "own")
    /\ \/ /\ lockFile' = IF lockFile.inode = inode[p]
                         THEN [lockFile EXCEPT !.written = TRUE] ELSE lockFile
          /\ To(p, "read")
          /\ load' = [load EXCEPT ![p] = "write"]
          /\ UNCHANGED <<inode, cut, rows, fold>> /\ Keeps
       \/ Fails(p, "os") /\ UNCHANGED lockFile
    /\ UNCHANGED <<rowsDisk, inodes, rowsHistory>>

(* The deadline passes while another lock file is there. *)
LockTimeout(p) ==
    /\ At(p, "lock")
    /\ lockFile # NoLock
    /\ Fails(p, "timeout")
    /\ UNCHANGED <<rowsDisk, lockVars, rowsHistory>>

(* Variant: whether the owner is alive is not looked at. *)
RecoverableWhenOwned(l) == l.written \/ l.old

(* Whether a lock file may be removed: its owner is dead, or nobody has      *)
(* written an owner for stale_seconds.                                       *)
Recoverable(l) == IF l.written THEN At(l.owner, "dead") \/ At(l.owner, "ended") ELSE l.old

(* _recover_rows_file_lock_if_stale, up to its decision. *)
InspectLock(p) ==
    /\ At(p, "lock")
    /\ lockFile # NoLock
    /\ Recoverable(lockFile)
    /\ inode' = [inode EXCEPT ![p] = lockFile.inode]
    /\ To(p, "recheck")
    /\ UNCHANGED <<rowsDisk, lockVars, load, cut, rows, fold, rowsHistory>> /\ Keeps

(* The inode and the bytes are those it inspected, or it leaves the file. *)
RecheckLock(p) ==
    /\ At(p, "recheck")
    /\ To(p, IF lockFile.inode = inode[p] /\ Recoverable(lockFile) THEN "recover" ELSE "lock")
    /\ UNCHANGED <<rowsDisk, lockVars, local, rowsHistory>>

(* unlink removes the file that is at the path by now. *)
RecoverLock(p) ==
    /\ At(p, "recover")
    /\ lockFile' = NoLock
    /\ overtaken' = (overtaken \/ lockFile.inode \notin {0, inode[p]})
    /\ To(p, "lock")
    /\ UNCHANGED <<rowsDisk, inodes, local, acked, unlockedCut, grown>>

(* AppendOnlyEvidenceLedger.append behind its duplicate check: the line is   *)
(* written whole, or cut short, which raises.                                *)
AppendRow(p) ==
    /\ At(p, "append")
    /\ Grows
    /\ \E form \in {"whole", "bare", "torn"} :
         /\ rowsFile' = Written(OwnRow(p), form)
         /\ result' = [result EXCEPT ![p] = IF form = "whole" THEN @ ELSE "os"]
    /\ To(p, "release")
    /\ UNCHANGED <<payload, lockVars, load, runIdentity, inode, cut, rows, fold>>
    /\ UNCHANGED <<acked, overtaken, unlockedCut>>

(* _cleanup_owned_rows_file_lock: only the file that the run made.  The      *)
(* run then loads the rows again, or the error of the append ends it.        *)
ReleaseLock(p) ==
    /\ At(p, "release")
    /\ lockFile' = IF lockFile.inode = inode[p] THEN NoLock ELSE lockFile
    /\ IF result[p] = "none"
       THEN /\ To(p, "read")
            /\ load' = [load EXCEPT ![p] = "reload"]
            /\ acked' = acked \union {OwnRow(p)}
       ELSE To(p, "ended") /\ UNCHANGED <<load, acked>>
    /\ UNCHANGED <<rowsDisk, inodes, inode, cut, rows, fold, overtaken, unlockedCut, grown>> /\ Keeps

-----------------------------------------------------------------------------
(* A process dies.  A write that it was in is cut short. *)
Die(p) ==
    /\ step[p] \notin {"begin", "ended", "dead"}
    /\ To(p, "dead")
    /\ \/ UNCHANGED <<rowsFile, grown>>
       \/ /\ At(p, "append")
          /\ \E form \in {"bare", "torn"} : rowsFile' = Written(OwnRow(p), form)
          /\ Grows
    /\ UNCHANGED <<payload, lockVars, local, acked, overtaken, unlockedCut>>

(* A lock file without owner grows old.  A live run takes less than          *)
(* stale_seconds from making the file to writing its owner.                  *)
LockAges ==
    /\ lockFile # NoLock
    /\ ~lockFile.written /\ ~lockFile.old
    /\ step[lockFile.owner] # "own"
    /\ lockFile' = [lockFile EXCEPT !.old = TRUE]
    /\ UNCHANGED <<rowsDisk, inodes, step, local, rowsHistory>>

RowsStep(p) ==
    \/ BeginRun(p) \/ ReadRows(p) \/ TruncateRows(p) \/ UseRows(p)
    \/ Aggregate(p) \/ FillPayload(p)
    \/ MakeLock(p) \/ OwnLock(p) \/ LockTimeout(p)
    \/ InspectLock(p) \/ RecheckLock(p) \/ RecoverLock(p)
    \/ AppendRow(p) \/ ReleaseLock(p)

RowsNext == (\E p \in Runs : RowsStep(p) \/ Die(p)) \/ LockAges

RowsSpec == RowsInit /\ [][RowsNext]_rowsVars

-----------------------------------------------------------------------------
Inside(p) == load[p] = "write" /\ step[p] \in {"read", "truncate", "loaded", "append", "release"}

LockIsExclusive == \A p, q \in Runs : Inside(p) /\ Inside(q) /\ p # q => overtaken

(* What may lose rows. *)
Disturbed == unlockedCut \/ overtaken \/ grown

AcknowledgedRowsSurvive == acked \subseteq StoredRows \/ Disturbed

FinishedRunsAreComplete ==
    \A p \in Runs :
        result[p] = "done" /\ At(p, "ended") => Completed(p) = 1..Folds \/ Disturbed

(* Runs that share a rows file keep it whole.  The lock is of one run: two   *)
(* are between taking and releasing it only after a recovery whose unlink    *)
(* met another lock file than the one it had inspected, which needs a dead   *)
(* owner and two recoveries.  A row that write_jsonl_row has returned for    *)
(* stays in the file, and a run that returns has aggregated a row for every  *)
(* fold, its own or one it resumed from.  Only three things can lose a row:  *)
(* two runs inside the lock, a load without the lock that cuts the file where*)
(* a torn line was before the row took its place, and an append behind a row *)
(* that lacks its newline, which load_jsonl_rows takes for a whole one.      *)
RowsAreSafe == RowsTypeOK /\ LockIsExclusive /\ AcknowledgedRowsSurvive /\ FinishedRunsAreComplete
=============================================================================
