--------------------------- MODULE EvidenceLedger ---------------------------
(***************************************************************************)
(* AppendOnlyEvidenceLedger, used by run_daily_strategy_evidence in several *)
(* processes over one JSONL file.                                          *)
(*                                                                         *)
(* A run loads the ledger, takes over the evidence it finds, and for every *)
(* other candidate replays the day and appends a row.  Loading and         *)
(* appending hold an advisory lock that the operating system gives back    *)
(* when its holder dies.  A write that is cut short leaves a last line     *)
(* without newline; the next holder of the lock copies it to a quarantine  *)
(* file and cuts it off.  A process keeps an index of the rows and parses  *)
(* only what was added behind the part it has verified.                    *)
(*                                                                         *)
(* The file is the sequence of its lines, an offset is a number of lines,  *)
(* and a file that does not exist is an empty one.  The evidence of a row  *)
(* is an opaque payload, and the quarantine file of a torn line is named   *)
(* by it, which is what the name's digest does.                            *)
(***************************************************************************)
EXTENDS Naturals, Sequences, SequencesExt

CONSTANTS
    Processes,
    None,
    Identities,    \* digests of run identities
    Candidates,    \* how many candidates the manifest lists
    Payloads,      \* what a replay may yield
    MaxRuns,       \* bound: runs started
    MaxFiles       \* bound: ledger files, each in the place of the one before

ASSUME CandidatesAssumption == Candidates \in Nat
ASSUME BoundsAssumption == MaxRuns \in Nat /\ MaxFiles \in Nat \ {0}
ASSUME NoneAssumption == None \notin Processes

Rows == [run_identity : Identities, candidate : 1..Candidates, payload : Payloads]

(* A line that ends in a newline, one that does not, or two in one. *)
Lines == [row : Rows, form : {"line", "torn", "merged"}]

VARIABLES
    file,           \* the lines of the ledger
    inode,          \* which file is at the path
    quarantine,     \* for each torn line: no file, an unfinished one, or a copy
    holder,         \* who has the advisory lock
    pc, op,         \* where a process is, and for which ledger operation
    identity,       \* of the run
    loaded,         \* by_key: the rows the run loaded
    candidate,      \* the entry the run is at
    row,            \* the row being appended, or None
    raw,            \* the torn line being recovered, or None
    ledger,         \* the ledger object: its rows, verified offset and file identity
    outcome,        \* what ended the last run of the process
    started,        \* how many runs were started
    acknowledged    \* history: the rows reported as evidence of a run

disk == <<file, inode, quarantine>>
run == <<identity, loaded, candidate, row, raw>>
vars == <<disk, holder, pc, op, run, ledger, outcome, started, acknowledged>>

Fresh == [rows |-> {}, offset |-> 0, inode |-> 0]

TypeOK ==
    /\ file \in Seq(Lines)
    /\ inode \in 1..MaxFiles
    /\ quarantine \in [Rows -> {"none", "part", "whole"}]
    /\ holder \in Processes \union {None}
    /\ pc \in [Processes -> {"idle", "lock", "sync", "quarantine", "fill", "truncate",
                             "loaded", "next", "check", "write", "publish"}]
    /\ op \in [Processes -> {"load", "append"}]
    /\ identity \in [Processes -> Identities \union {None}]
    /\ loaded \in [Processes -> SUBSET Rows]
    /\ candidate \in [Processes -> 1..(Candidates + 1)]
    /\ row \in [Processes -> Rows \union {None}]
    /\ raw \in [Processes -> Rows \union {None}]
    /\ ledger \in [Processes -> [rows : SUBSET Rows, offset : Nat, inode : 0..MaxFiles]]
    /\ outcome \in [Processes -> {None, "done", "timeout", "damaged", "quarantine",
                                  "identity", "conflict", "os", "replay"}]
    /\ started \in 0..MaxRuns
    /\ acknowledged \subseteq Rows

Init ==
    /\ file = <<>>
    /\ inode = 1
    /\ quarantine = [r \in Rows |-> "none"]
    /\ holder = None
    /\ pc = [p \in Processes |-> "idle"]
    /\ op = [p \in Processes |-> "load"]
    /\ identity = [p \in Processes |-> None]
    /\ loaded = [p \in Processes |-> {}]
    /\ candidate = [p \in Processes |-> 1]
    /\ row = [p \in Processes |-> None]
    /\ raw = [p \in Processes |-> None]
    /\ ledger = [p \in Processes |-> Fresh]
    /\ outcome = [p \in Processes |-> None]
    /\ started = 0
    /\ acknowledged = {}

-----------------------------------------------------------------------------
SameKey(q, r) == q.run_identity = r.run_identity /\ q.candidate = r.candidate

OneIdentity(rows) == \A q, r \in rows : q.run_identity = r.run_identity

(* Leaving the with block. *)
Release(p) == holder' = IF holder = p THEN None ELSE holder

GoTo(p, step) == pc' = [pc EXCEPT ![p] = step]

(* An exception leaves the ledger operation and the run. *)
EndRun(p, error) ==
    /\ GoTo(p, "idle")
    /\ op' = [op EXCEPT ![p] = "load"]
    /\ loaded' = [loaded EXCEPT ![p] = {}]
    /\ candidate' = [candidate EXCEPT ![p] = 1]
    /\ row' = [row EXCEPT ![p] = None]
    /\ raw' = [raw EXCEPT ![p] = None]
    /\ outcome' = [outcome EXCEPT ![p] = error]
    /\ identity' = [identity EXCEPT ![p] = None]
    /\ Release(p)

(* The row is evidence of the run, and the run turns to the next candidate. *)
Take(p, r) ==
    /\ acknowledged' = acknowledged \union {r}
    /\ candidate' = [candidate EXCEPT ![p] = @ + 1]
    /\ row' = [row EXCEPT ![p] = None]
    /\ GoTo(p, "next")
    /\ UNCHANGED <<op, identity, loaded, raw, outcome>>

Proceed(p, step) == GoTo(p, step) /\ UNCHANGED <<op, run, outcome>>

(* Goes on with l as the torn line to recover. *)
ProceedWith(p, step, l) ==
    /\ GoTo(p, step)
    /\ raw' = [raw EXCEPT ![p] = l]
    /\ UNCHANGED <<op, identity, loaded, candidate, row, outcome>>

-----------------------------------------------------------------------------
StartRun(p, id) ==
    /\ pc[p] = "idle"
    /\ started < MaxRuns
    /\ started' = started + 1
    /\ GoTo(p, "lock")
    /\ identity' = [identity EXCEPT ![p] = id]
    /\ outcome' = [outcome EXCEPT ![p] = None]
    /\ UNCHANGED <<disk, holder, op, loaded, candidate, row, raw, ledger, acknowledged>>

(* Variant: a load does not take the lock. *)
AcquireAppendsOnly(p) ==
    /\ pc[p] = "lock"
    /\ op[p] = "load" \/ holder = None
    /\ holder' = IF op[p] = "load" THEN holder ELSE p
    /\ Proceed(p, "sync")
    /\ UNCHANGED <<disk, ledger, started, acknowledged>>

(* evidence_file_lock: flock, tried until the deadline, and the metadata     *)
(* written by the holder, which may fail.                                    *)
Acquire(p) ==
    /\ pc[p] = "lock"
    /\ \/ holder = None /\ holder' = p /\ Proceed(p, "sync")
       \/ holder = None /\ EndRun(p, "os")
       \/ holder # None /\ EndRun(p, "timeout")
    /\ UNCHANGED <<disk, ledger, started, acknowledged>>

Torn == file # <<>> /\ Last(file).form = "torn"

(* The lines in front of a torn one. *)
Ended == IF Torn THEN Front(file) ELSE file

(* Variant: the identity of the file is not compared. *)
RebuildsShorterOnly(l) == l.inode = 0 \/ Len(file) < l.offset

(* The index is of another file, or of more than there is. *)
Rebuilds(l) == l.inode # inode \/ Len(file) < l.offset

(* The index that parsing starts from. *)
From(l) == IF Rebuilds(l) THEN Fresh ELSE l

(* The lines behind the verified offset, up to line i. *)
Behind(l, i) == (From(l).offset + 1)..i

RowsUpTo(l, i) == From(l).rows \union {file[j].row : j \in Behind(l, i)}

(* The lines that raise: not JSON, or another row for a key of the index. *)
BadLines(l) ==
    {i \in Behind(l, Len(Ended)) :
        \/ file[i].form # "line"
        \/ \E r \in RowsUpTo(l, i) : SameKey(r, file[i].row) /\ r # file[i].row}

(* _parse_from_offset_unlocked: the index covers the lines in front of the   *)
(* first bad one.  The identity of the file is noted later.                  *)
Parsed(l) ==
    LET end == IF BadLines(l) = {} THEN Len(Ended) ELSE Min(BadLines(l)) - 1
    IN  [From(l) EXCEPT !.rows = RowsUpTo(l, end), !.offset = end]

(* Where an operation goes on that has synchronised its index. *)
Synced(p) == IF op[p] = "load" THEN "loaded" ELSE "check"

(* The end of the parse: rows of two runs raise, otherwise the index is of   *)
(* the file at the path.                                                     *)
FinishSync(p, index) ==
    IF OneIdentity(index.rows)
    THEN /\ ledger' = [ledger EXCEPT ![p] = [index EXCEPT !.inode = inode]]
         /\ ProceedWith(p, Synced(p), None)
         /\ UNCHANGED holder
    ELSE ledger' = [ledger EXCEPT ![p] = index] /\ EndRun(p, "damaged")

(* _sync_index_unlocked, up to the recovery of a torn line.  Nothing is      *)
(* parsed when the file ends where the index does.                           *)
Sync(p) ==
    LET l == ledger[p] IN
    /\ pc[p] = "sync"
    /\ IF ~Rebuilds(l) /\ Len(file) = l.offset
       THEN Proceed(p, Synced(p)) /\ UNCHANGED <<ledger, holder>>
       ELSE IF BadLines(l) # {}
       THEN ledger' = [ledger EXCEPT ![p] = Parsed(l)] /\ EndRun(p, "damaged")
       ELSE IF Torn
       THEN /\ ledger' = [ledger EXCEPT ![p] = Parsed(l)]
            /\ ProceedWith(p, "quarantine", Last(file).row)
            /\ UNCHANGED holder
       ELSE FinishSync(p, Parsed(l))
    /\ UNCHANGED <<disk, started, acknowledged>>

-----------------------------------------------------------------------------
(* _recover_truncated_frame *)

Quarantined(p, state) == [quarantine EXCEPT ![raw[p]] = state]

(* Variant: an existing quarantine file is taken for a copy. *)
OpenQuarantineUnchecked(p) ==
    /\ pc[p] = "quarantine"
    /\ IF quarantine[raw[p]] = "none"
       THEN quarantine' = Quarantined(p, "part") /\ Proceed(p, "fill")
       ELSE UNCHANGED quarantine /\ Proceed(p, "truncate")
    /\ UNCHANGED <<file, inode, holder, ledger, started, acknowledged>>

(* os.open with O_EXCL.  An existing quarantine file must hold the same      *)
(* bytes.                                                                    *)
OpenQuarantine(p) ==
    LET existing == quarantine[raw[p]] IN
    /\ pc[p] = "quarantine"
    /\ \/ /\ existing = "none"
          /\ quarantine' = Quarantined(p, "part")
          /\ Proceed(p, "fill")
          /\ UNCHANGED holder
       \/ existing = "whole" /\ Proceed(p, "truncate") /\ UNCHANGED <<quarantine, holder>>
       \/ existing = "part" /\ EndRun(p, "quarantine") /\ UNCHANGED quarantine
       \/ EndRun(p, "os") /\ UNCHANGED quarantine
    /\ UNCHANGED <<file, inode, ledger, started, acknowledged>>

(* The bytes are written and synced, or an error removes the file again. *)
FillQuarantine(p) ==
    /\ pc[p] = "fill"
    /\ \/ quarantine' = Quarantined(p, "whole") /\ Proceed(p, "truncate") /\ UNCHANGED holder
       \/ quarantine' = Quarantined(p, "none") /\ EndRun(p, "os")
    /\ UNCHANGED <<file, inode, ledger, started, acknowledged>>

(* The ledger is cut at the offset of the torn line, where the parse ends. *)
Truncate(p) ==
    /\ pc[p] = "truncate"
    /\ \/ /\ file' = SubSeq(file, 1, ledger[p].offset)
          /\ FinishSync(p, ledger[p])
       \/ EndRun(p, "os") /\ UNCHANGED <<file, ledger>>
    /\ UNCHANGED <<inode, quarantine, started, acknowledged>>

-----------------------------------------------------------------------------
(* load returns: the run goes on when the ledger is empty or its own.  The   *)
(* code looks at the first row; the rows of an index have one identity.      *)
Loaded(p) ==
    LET rows == ledger[p].rows IN
    /\ pc[p] = "loaded"
    /\ IF \A r \in rows : r.run_identity = identity[p]
       THEN /\ loaded' = [loaded EXCEPT ![p] = rows]
            /\ GoTo(p, "next")
            /\ Release(p)
            /\ UNCHANGED <<op, identity, candidate, row, raw, outcome>>
       ELSE EndRun(p, "identity")
    /\ UNCHANGED <<disk, ledger, started, acknowledged>>

RowOf(p, payload) ==
    [run_identity |-> identity[p], candidate |-> candidate[p], payload |-> payload]

(* The loop over the selected entries: a loaded row is taken over, otherwise *)
(* the day is replayed, which may raise.                                     *)
NextCandidate(p) ==
    LET resumed == {r \in loaded[p] : r.candidate = candidate[p]} IN
    /\ pc[p] = "next"
    /\ IF candidate[p] > Candidates
       THEN EndRun(p, "done") /\ UNCHANGED acknowledged
       ELSE \/ \E r \in resumed : Take(p, r) /\ UNCHANGED holder
            \/ /\ resumed = {}
               /\ \E payload \in Payloads :
                    row' = [row EXCEPT ![p] = RowOf(p, payload)]
               /\ op' = [op EXCEPT ![p] = "append"]
               /\ GoTo(p, "lock")
               /\ UNCHANGED <<holder, identity, loaded, candidate, raw, outcome,
                              acknowledged>>
            \/ resumed = {} /\ EndRun(p, "replay") /\ UNCHANGED acknowledged
    /\ UNCHANGED <<disk, ledger, started>>

(* append, up to the write: a row that is there already is not written. *)
Check(p) ==
    LET rows == ledger[p].rows
        existing == {r \in rows : SameKey(r, row[p])}
    IN
    /\ pc[p] = "check"
    /\ IF \E r \in rows : r.run_identity # identity[p]
       THEN EndRun(p, "identity") /\ UNCHANGED acknowledged
       ELSE IF existing = {}
       THEN Proceed(p, "write") /\ UNCHANGED <<holder, acknowledged>>
       ELSE IF row[p] \in existing
       THEN Take(p, row[p]) /\ Release(p)
       ELSE EndRun(p, "conflict") /\ UNCHANGED acknowledged
    /\ UNCHANGED <<disk, ledger, started>>

(* What O_APPEND does to the lines: bytes that follow a line without newline *)
(* become part of it.                                                        *)
Written(line) ==
    IF Torn THEN Append(Ended, [Last(file) EXCEPT !.form = "merged"])
    ELSE Append(file, line)

(* os.write and os.fsync.  The write may fail, or stop short; the sync may   *)
(* fail when the line is complete.                                           *)
WriteRow(p) ==
    /\ pc[p] = "write"
    /\ \/ file' = Written([row |-> row[p], form |-> "line"]) /\ Proceed(p, "publish")
            /\ UNCHANGED holder
       \/ \E form \in {"line", "torn"} :
            file' = Written([row |-> row[p], form |-> form]) /\ EndRun(p, "os")
       \/ EndRun(p, "os") /\ UNCHANGED file
    /\ UNCHANGED <<inode, quarantine, ledger, started, acknowledged>>

(* The index takes the row, and append returns True. *)
Publish(p) ==
    /\ pc[p] = "publish"
    /\ ledger' = [ledger EXCEPT ![p] =
            [rows |-> @.rows \union {row[p]}, offset |-> Len(file), inode |-> inode]]
    /\ Take(p, row[p])
    /\ Release(p)
    /\ UNCHANGED <<disk, started>>

(* The process dies, or ends; the system gives back its lock. *)
Crash(p) ==
    /\ ledger' = [ledger EXCEPT ![p] = Fresh]
    /\ EndRun(p, None)
    /\ UNCHANGED <<disk, started, acknowledged>>

(* Between runs somebody moves the ledger away, as a run without --resume    *)
(* requires; the ledger objects of living processes do not notice.           *)
Replace ==
    /\ \A p \in Processes : pc[p] = "idle"
    /\ inode < MaxFiles
    /\ inode' = inode + 1
    /\ file' = <<>>
    /\ acknowledged' = {}
    /\ UNCHANGED <<quarantine, holder, pc, op, run, ledger, outcome, started>>

Next ==
    \/ \E p \in Processes :
        \/ \E id \in Identities : StartRun(p, id)
        \/ Acquire(p) \/ Sync(p)
        \/ OpenQuarantine(p) \/ FillQuarantine(p) \/ Truncate(p)
        \/ Loaded(p) \/ NextCandidate(p) \/ Check(p) \/ WriteRow(p) \/ Publish(p)
        \/ Crash(p)
    \/ Replace

Spec == Init /\ [][Next]_vars

-----------------------------------------------------------------------------
(* Properties *)

Stored == {file[i].row : i \in {j \in DOMAIN file : file[j].form = "line"}}

(* Evidence that a run has reported is a complete line of the ledger and stays *)
(* one, although other processes append, recover torn lines and die.           *)
AcknowledgedRowsAreStored == acknowledged \subseteq Stored

(* No key is in the ledger twice, no two runs mix their rows, and no row was   *)
(* written behind a torn line: the ledger can always be parsed.                *)
LedgerIsConsistent ==
    /\ \A i \in DOMAIN file : file[i].form # "merged"
    /\ \A i, j \in DOMAIN file : i # j /\ file[j].form = "line" /\ file[i].form = "line"
        => /\ ~SameKey(file[i].row, file[j].row)
           /\ file[i].row.run_identity = file[j].row.run_identity

(* Whoever decides on the strength of the index sees the ledger as it is: the  *)
(* index was not overtaken by another process nor by another file.             *)
IndexIsExact ==
    \A p \in Processes :
        pc[p] \in {"loaded", "check", "write"} =>
            /\ ledger[p].rows = Stored
            /\ ledger[p].offset = Len(file)

(* Runs that share a ledger keep it readable, and each acts on what it says.   *)
LedgerIsSound == TypeOK /\ LedgerIsConsistent /\ IndexIsExact

(* The bytes of a torn line are not lost: they leave the ledger only when a    *)
(* quarantine file holds all of them, and such a file is never touched again.  *)
TornBytesAreKept ==
    [][/\ (Torn /\ inode' = inode /\ file' # file) => quarantine[Last(file).row] = "whole"
       /\ \A r \in Rows : quarantine[r] = "whole" => quarantine'[r] = "whole"]_vars

(* "recovers_truncated_tail": a ledger that ends in a torn line can be loaded; *)
(* no load is refused because of what an earlier recovery left behind.         *)
TornTailsAreRecovered == \A p \in Processes : outcome[p] # "quarantine"

(* For TLC: processes and payloads play no roles of their own. *)
Symmetry == Permutations(Processes) \union Permutations(Payloads)
=============================================================================
