------------------------ MODULE EvidenceLedger_proofs ------------------------
(***************************************************************************)
(* The safety of the evidence ledger, for any number of processes, runs,   *)
(* candidates and payloads, and any sequence of deaths and replacements.   *)
(*                                                                         *)
(* Two facts carry the ledger.  The steps between taking and giving back   *)
(* the lock are of one process, so nobody changes the file between its     *)
(* parse and its write; and an index of the file at the path covers a      *)
(* prefix of its complete lines (IndexesArePrefixes), which no later step  *)
(* takes away: a recovery cuts off the torn line only.                     *)
(***************************************************************************)
EXTENDS EvidenceLedger, TLAPS

(* Files as values: the complete lines are those in front of a torn one. *)
TornIn(f) == f # <<>> /\ f[Len(f)].form = "torn"
EndOf(f) == IF TornIn(f) THEN Len(f) - 1 ELSE Len(f)
RowsIn(f, n) == {f[j].row : j \in 1..n}
StoredIn(f) == {f[i].row : i \in {j \in DOMAIN f : f[j].form = "line"}}

Shape(f) ==
    /\ \A i \in 1..EndOf(f) : f[i].form = "line"
    /\ \A i, j \in 1..EndOf(f) :
        i # j => /\ ~SameKey(f[i].row, f[j].row)
                 /\ f[i].row.run_identity = f[j].row.run_identity

IndexOf(f, l) == l.offset =< EndOf(f) /\ l.rows = RowsIn(f, l.offset)

LEMMA FileNames ==
    /\ Torn <=> TornIn(file)
    /\ Stored = StoredIn(file)
BY DEF Torn, TornIn, Last, Stored, StoredIn

LEMMA EndType ==
    ASSUME NEW f \in Seq(Lines)
    PROVE  /\ EndOf(f) \in Nat
           /\ DOMAIN f = 1..Len(f)
           /\ TornIn(f) => Len(f) = EndOf(f) + 1 /\ f[Len(f)] \in Lines
           /\ ~TornIn(f) => Len(f) = EndOf(f)
<1>1. Len(f) \in Nat /\ (f # <<>> => Len(f) > 0) /\ DOMAIN f = 1..Len(f)
  OBVIOUS
<1>2. TornIn(f) => f # <<>>
  BY DEF TornIn
<1>3. TornIn(f) => Len(f) \in 1..Len(f)
  BY <1>1, <1>2
<1>4. TornIn(f) => f[Len(f)] \in Lines
  BY <1>3
<1>5. CASE TornIn(f)
  <2>1. EndOf(f) = Len(f) - 1 /\ Len(f) > 0
    BY <1>1, <1>2, <1>5 DEF EndOf
  <2> QED
    BY <1>1, <1>4, <1>5, <2>1
<1>6. CASE ~TornIn(f)
  <2>1. EndOf(f) = Len(f)
    BY <1>6 DEF EndOf
  <2> QED
    BY <1>1, <1>6, <2>1
<1> QED
  BY <1>5, <1>6

LEMMA EndedIs ==
    ASSUME file \in Seq(Lines)
    PROVE  Len(Ended) = EndOf(file)
<1>1. Len(file) \in Nat /\ EndOf(file) \in Nat
  BY EndType
<1>2. CASE Torn
  <2>1. Len(file) - 1 \in Nat /\ Len(file) - 1 = EndOf(file)
    BY <1>2, EndType, FileNames DEF EndOf
  <2>2. Ended = SubSeq(file, 1, Len(file) - 1)
    BY <1>2 DEF Ended, Front
  <2> QED
    BY <2>1, <2>2
<1>3. CASE ~Torn
  BY <1>3, EndType, FileNames DEF Ended
<1> QED
  BY <1>2, <1>3

(* The complete lines of a file in shape are the lines up to its end. *)
LEMMA StoredRows ==
    ASSUME NEW f \in Seq(Lines), Shape(f)
    PROVE  StoredIn(f) = RowsIn(f, EndOf(f))
<1>1. /\ EndOf(f) \in Nat /\ DOMAIN f = 1..Len(f)
      /\ Len(f) = EndOf(f) \/ (TornIn(f) /\ Len(f) = EndOf(f) + 1)
  BY EndType
<1>2. \A i \in 1..EndOf(f) : i \in DOMAIN f /\ f[i].form = "line"
  BY <1>1 DEF Shape
<1>3. \A i \in DOMAIN f : f[i].form = "line" => i \in 1..EndOf(f)
  <2> SUFFICES ASSUME NEW i \in 1..Len(f), f[i].form = "line"
               PROVE  i \in 1..EndOf(f)
    BY <1>1
  <2>1. CASE TornIn(f)
    <3>1. i # Len(f) /\ Len(f) = EndOf(f) + 1
      BY <2>1, EndType DEF TornIn
    <3> QED
      BY <1>1, <3>1
  <2>2. CASE ~TornIn(f)
    <3>1. Len(f) = EndOf(f)
      BY <2>2, EndType
    <3> QED
      BY <3>1
  <2> QED
    BY <2>1, <2>2
<1> QED
  BY <1>2, <1>3 DEF StoredIn, RowsIn

(* A complete line of a new key behind a file without torn tail, or a torn    *)
(* one, takes no line away.                                                   *)
LEMMA GrowingFile ==
    ASSUME NEW f \in Seq(Lines), Shape(f), ~TornIn(f), NEW line \in Lines,
           line.form \in {"line", "torn"}, NEW g, g = Append(f, line),
           line.form = "line" =>
                \A r \in StoredIn(f) :
                    ~SameKey(r, line.row) /\ r.run_identity = line.row.run_identity
    PROVE  /\ g \in Seq(Lines) /\ Shape(g)
           /\ Len(g) = Len(f) + 1 /\ g[Len(f) + 1] = line
           /\ line.form = "line" => ~TornIn(g) /\ EndOf(g) = EndOf(f) + 1
           /\ line.form = "torn" => TornIn(g) /\ EndOf(g) = EndOf(f)
           /\ \A n \in 0..EndOf(f) : RowsIn(g, n) = RowsIn(f, n)
           /\ StoredIn(f) \subseteq StoredIn(g)
<1>1. EndOf(f) = Len(f) /\ Len(f) \in Nat /\ DOMAIN f = 1..Len(f)
  BY EndType
<1>2. /\ g \in Seq(Lines) /\ Len(g) = Len(f) + 1 /\ DOMAIN g = 1..(Len(f) + 1)
      /\ g[Len(f) + 1] = line
      /\ \A i \in 1..Len(f) : g[i] = f[i]
  OBVIOUS
<1>3. g # <<>>
  BY <1>1, <1>2
<1>4. TornIn(g) <=> line.form = "torn"
  BY <1>2, <1>3 DEF TornIn
<1>5. /\ line.form = "line" => ~TornIn(g) /\ EndOf(g) = EndOf(f) + 1
      /\ line.form = "torn" => TornIn(g) /\ EndOf(g) = EndOf(f)
  <2>1. CASE TornIn(g)
    <3>1. EndOf(g) = Len(g) - 1 /\ line.form = "torn"
      BY <1>4, <2>1 DEF EndOf
    <3> QED
      BY <1>1, <1>2, <2>1, <3>1
  <2>2. CASE ~TornIn(g)
    <3>1. EndOf(g) = Len(g) /\ line.form # "torn"
      BY <1>4, <2>2 DEF EndOf
    <3> QED
      BY <1>1, <1>2, <2>2, <3>1
  <2> QED
    BY <2>1, <2>2
<1>6. \A n \in 0..EndOf(f) : RowsIn(g, n) = RowsIn(f, n)
  BY <1>1, <1>2 DEF RowsIn
<1>7. \A i \in 1..EndOf(f) : f[i].row \in StoredIn(f)
  BY <1>1 DEF StoredIn, Shape
<1>8. Shape(g)
  <2>1. CASE line.form = "torn"
    BY <1>1, <1>2, <1>5, <2>1 DEF Shape
  <2>2. CASE line.form = "line"
    <3>1. \A i \in 1..EndOf(g) : i = Len(f) + 1 \/ i \in 1..EndOf(f)
      BY <1>1, <1>5, <2>2
    <3>2. \A i \in 1..EndOf(f) :
            /\ ~SameKey(f[i].row, line.row) /\ ~SameKey(line.row, f[i].row)
            /\ f[i].row.run_identity = line.row.run_identity
      BY <1>7, <2>2 DEF SameKey
    <3>3. \A i \in 1..EndOf(g) : g[i].form = "line"
      BY <1>1, <1>2, <2>2, <3>1 DEF Shape
    <3>4. \A i, j \in 1..EndOf(g) :
            i # j => /\ ~SameKey(g[i].row, g[j].row)
                     /\ g[i].row.run_identity = g[j].row.run_identity
      <4> SUFFICES ASSUME NEW i \in 1..EndOf(g), NEW j \in 1..EndOf(g), i # j
                   PROVE  /\ ~SameKey(g[i].row, g[j].row)
                          /\ g[i].row.run_identity = g[j].row.run_identity
        OBVIOUS
      <4>1. CASE i \in 1..EndOf(f) /\ j \in 1..EndOf(f)
        BY <1>1, <1>2, <4>1 DEF Shape
      <4>2. CASE i = Len(f) + 1 /\ j \in 1..EndOf(f)
        BY <1>1, <1>2, <3>2, <4>2
      <4>3. CASE j = Len(f) + 1 /\ i \in 1..EndOf(f)
        BY <1>1, <1>2, <3>2, <4>3
      <4> QED
        BY <3>1, <4>1, <4>2, <4>3
    <3> QED
      BY <3>3, <3>4 DEF Shape
  <2> QED
    BY <2>1, <2>2
<1>9. StoredIn(f) \subseteq StoredIn(g)
  <2>1. \A i \in 1..EndOf(f) : i \in 1..EndOf(g)
    BY <1>1, <1>5
  <2>2. RowsIn(f, EndOf(f)) \subseteq RowsIn(g, EndOf(g))
    BY <1>1, <1>2, <2>1 DEF RowsIn
  <2> QED
    BY <1>2, <1>8, <2>2, StoredRows
<1> QED
  BY <1>2, <1>5, <1>6, <1>8, <1>9

(* Cutting off the torn line leaves the complete ones. *)
LEMMA CutFile ==
    ASSUME NEW f \in Seq(Lines), Shape(f), NEW g, g = SubSeq(f, 1, EndOf(f))
    PROVE  /\ g \in Seq(Lines) /\ Shape(g) /\ ~TornIn(g)
           /\ Len(g) = EndOf(f) /\ EndOf(g) = EndOf(f)
           /\ \A n \in 0..EndOf(f) : RowsIn(g, n) = RowsIn(f, n)
           /\ StoredIn(g) = StoredIn(f)
<1>1. /\ EndOf(f) \in Nat /\ EndOf(f) =< Len(f) /\ Len(f) \in Nat /\ DOMAIN f = 1..Len(f)
  BY EndType
<1>2. /\ g \in Seq(Lines) /\ Len(g) = EndOf(f) /\ DOMAIN g = 1..EndOf(f)
      /\ \A i \in 1..EndOf(f) : g[i] = f[i]
  BY <1>1
<1>3. ~TornIn(g)
  <2>1. g # <<>> => Len(g) \in 1..EndOf(f)
    BY <1>1, <1>2
  <2> QED
    BY <1>2, <2>1 DEF TornIn, Shape
<1>4. EndOf(g) = EndOf(f)
  BY <1>2, <1>3 DEF EndOf
<1>5. \A n \in 0..EndOf(f) : RowsIn(g, n) = RowsIn(f, n)
  BY <1>1, <1>2 DEF RowsIn
<1>6. Shape(g)
  BY <1>2, <1>4 DEF Shape
<1>7. StoredIn(f) = RowsIn(f, EndOf(f))
  BY StoredRows
<1>8. StoredIn(g) = RowsIn(g, EndOf(g))
  <2>1. g \in Seq(Lines)
    BY <1>2
  <2> HIDE <1>2
  <2> QED
    BY <2>1, <1>6, StoredRows
<1> QED
  BY <1>1, <1>2, <1>3, <1>4, <1>5, <1>6, <1>7, <1>8

-----------------------------------------------------------------------------
(* The inductive invariant *)

Inside == {"sync", "quarantine", "fill", "truncate", "loaded", "check", "write", "publish"}

Outcomes == {None, "done", "timeout", "damaged", "quarantine", "identity", "conflict",
             "os", "replay"}

LockIsHeld == \A p \in Processes : pc[p] \in Inside <=> holder = p

(* An index of the file at the path covers a prefix of its complete lines. *)
IndexesArePrefixes ==
    \A p \in Processes :
        /\ ledger[p].inode =< inode
        /\ ledger[p].inode = inode => IndexOf(file, ledger[p])

(* What a run has in hand is its own, and what it loaded is in the file. *)
RunOK(p) ==
    /\ pc[p] = "idle" => loaded[p] = {} /\ op[p] = "load"
    /\ pc[p] # "idle" => identity[p] \in Identities
    /\ pc[p] = "loaded" => op[p] = "load"
    /\ pc[p] \in {"check", "write", "publish"} => op[p] = "append"
    /\ pc[p] \in Inside \union {"lock"} /\ op[p] = "append" =>
        /\ row[p] \in Rows /\ row[p].run_identity = identity[p]
        /\ candidate[p] \in 1..Candidates

RunsAreOK == \A p \in Processes : RunOK(p)

EvidenceIsStored ==
    /\ acknowledged \subseteq Stored
    /\ \A p \in Processes : loaded[p] \subseteq Stored

(* What the holder of the lock knows about the file. *)
StageOK(p) ==
    /\ pc[p] \in {"quarantine", "fill", "truncate"} =>
        /\ TornIn(file) /\ raw[p] \in Rows /\ raw[p] = file[Len(file)].row
        /\ IndexOf(file, ledger[p]) /\ ledger[p].offset = EndOf(file)
    /\ pc[p] = "fill" => quarantine[raw[p]] = "part"
    /\ pc[p] = "truncate" => quarantine[raw[p]] = "whole"
    /\ pc[p] \in {"loaded", "check", "write"} =>
        /\ ~TornIn(file) /\ ledger[p].inode = inode /\ ledger[p].offset = EndOf(file)
    /\ pc[p] = "write" =>
        \A r \in ledger[p].rows : ~SameKey(r, row[p]) /\ r.run_identity = identity[p]
    /\ pc[p] = "publish" =>
        /\ ~TornIn(file) /\ ledger[p].inode = inode /\ EndOf(file) = ledger[p].offset + 1
        /\ file[Len(file)].row = row[p]

StagesAreOK == \A p \in Processes : StageOK(p)

Inv ==
    /\ TypeOK
    /\ LockIsHeld
    /\ Shape(file)
    /\ IndexesArePrefixes
    /\ RunsAreOK
    /\ EvidenceIsStored
    /\ StagesAreOK

(* The invariant has the three state properties of the run. *)
LEMMA InvImplies == Inv => AcknowledgedRowsAreStored /\ LedgerIsSound
<1> SUFFICES ASSUME Inv PROVE AcknowledgedRowsAreStored /\ LedgerIsSound
  OBVIOUS
<1>1. /\ file \in Seq(Lines) /\ Shape(file)
      /\ Stored = RowsIn(file, EndOf(file))
  BY StoredRows, FileNames DEF Inv, TypeOK
<1>2. /\ EndOf(file) \in Nat /\ DOMAIN file = 1..Len(file)
      /\ TornIn(file) => Len(file) = EndOf(file) + 1
      /\ ~TornIn(file) => Len(file) = EndOf(file)
  BY <1>1, EndType
<1>3. AcknowledgedRowsAreStored
  BY DEF Inv, EvidenceIsStored, AcknowledgedRowsAreStored
<1>4. \A i \in DOMAIN file : i \in 1..EndOf(file) \/ (i = Len(file) /\ file[i].form = "torn")
  BY <1>2 DEF TornIn
<1>5. LedgerIsConsistent
  BY <1>1, <1>4 DEF LedgerIsConsistent, Shape
<1>6. IndexIsExact
  BY <1>1, <1>2 DEF Inv, StagesAreOK, StageOK, IndexesArePrefixes, IndexOf, IndexIsExact
<1> QED
  BY <1>3, <1>5, <1>6 DEF LedgerIsSound, Inv

LEMMA InitInv == Init => Inv
<1> SUFFICES ASSUME Init PROVE Inv
  OBVIOUS
<1> USE DEF Init
<1>1. TypeOK
  BY BoundsAssumption, CandidatesAssumption DEF TypeOK, Fresh
<1>2. file = <<>> /\ ~TornIn(file) /\ EndOf(file) = 0
  BY DEF TornIn, EndOf
<1>3. Shape(file)
  BY <1>2 DEF Shape
<1>4. LockIsHeld
  BY NoneAssumption DEF LockIsHeld, Inside
<1>5. IndexesArePrefixes
  BY DEF IndexesArePrefixes, Fresh
<1>6. RunsAreOK
  BY DEF RunsAreOK, RunOK, Inside
<1>7. EvidenceIsStored /\ StagesAreOK
  BY DEF EvidenceIsStored, StagesAreOK, StageOK
<1> QED
  BY <1>1, <1>3, <1>4, <1>5, <1>6, <1>7 DEF Inv

-----------------------------------------------------------------------------
(* What the disk and the indexes must be like after a step of p *)
DiskOK ==
    /\ file \in Seq(Lines) /\ Shape(file)
    /\ quarantine \in [Rows -> {"none", "part", "whole"}]
    /\ ledger \in [Processes -> [rows : SUBSET Rows, offset : Nat, inode : 0..MaxFiles]]
    /\ IndexesArePrefixes

(* The others see no difference, or none of them holds the lock. *)
OthersAside(p) ==
    \/ UNCHANGED disk /\ \A q \in Processes \ {p} : ledger'[q] = ledger[q]
    \/ holder = p

LEMMA DiskFromInv == Inv => DiskOK
BY DEF Inv, TypeOK, DiskOK

(* A step of p keeps what the others know. *)
LEMMA OthersStages ==
    ASSUME Inv, NEW p \in Processes, OthersAside(p), NEW q \in Processes, q # p,
           pc'[q] = pc[q], row'[q] = row[q], raw'[q] = raw[q], identity'[q] = identity[q]
    PROVE  StageOK(q)'
<1>1. CASE holder = p
  <2>1. pc[q] \notin Inside
    BY <1>1 DEF Inv, LockIsHeld
  <2> QED
    BY <2>1 DEF StageOK, Inside
<1>2. CASE UNCHANGED disk /\ ledger'[q] = ledger[q]
  BY <1>2 DEF Inv, StagesAreOK, StageOK, disk
<1> QED
  BY <1>1, <1>2 DEF OthersAside

(* A run ends with an error, with its last candidate or with its process. *)
LEMMA EndRunInv ==
    ASSUME Inv, NEW p \in Processes, NEW error \in Outcomes, EndRun(p, error),
           UNCHANGED <<inode, started, acknowledged>>,
           DiskOK', OthersAside(p), Stored \subseteq Stored'
    PROVE  Inv'
<1> USE DEF EndRun, GoTo, Release
<1>1. /\ pc' = [pc EXCEPT ![p] = "idle"] /\ op' = [op EXCEPT ![p] = "load"]
      /\ loaded' = [loaded EXCEPT ![p] = {}]
  OBVIOUS
<1>2. TypeOK'
  <2>1. /\ candidate' \in [Processes -> 1..(Candidates + 1)]
        /\ outcome' \in [Processes -> Outcomes]
        /\ holder' \in Processes \union {None}
    BY CandidatesAssumption DEF Inv, TypeOK, Outcomes
  <2>2. /\ identity' \in [Processes -> Identities \union {None}]
        /\ loaded' \in [Processes -> SUBSET Rows]
        /\ row' \in [Processes -> Rows \union {None}]
        /\ raw' \in [Processes -> Rows \union {None}]
    BY DEF Inv, TypeOK
  <2> QED
    BY <2>1, <2>2 DEF Inv, TypeOK, DiskOK, Outcomes
<1>3. LockIsHeld'
  BY NoneAssumption DEF Inv, TypeOK, LockIsHeld, Inside
<1>4. RunsAreOK'
  BY DEF Inv, TypeOK, RunsAreOK, RunOK, Inside
<1>5. EvidenceIsStored'
  BY DEF Inv, TypeOK, EvidenceIsStored
<1>6. StagesAreOK'
  <2>1. StageOK(p)'
    BY DEF Inv, TypeOK, StageOK
  <2>2. ASSUME NEW q \in Processes, q # p
        PROVE  StageOK(q)'
    BY <2>2, OthersStages DEF Inv, TypeOK
  <2> QED
    BY <2>1, <2>2 DEF StagesAreOK
<1> QED
  BY <1>2, <1>3, <1>4, <1>5, <1>6 DEF Inv, DiskOK

LEMMA EndRunQuietly ==
    ASSUME Inv, NEW p \in Processes, NEW error \in Outcomes, EndRun(p, error),
           UNCHANGED <<disk, started, acknowledged, ledger>>
    PROVE  Inv'
<1>1. DiskOK' /\ OthersAside(p) /\ Stored \subseteq Stored'
  BY DiskFromInv DEF DiskOK, IndexesArePrefixes, OthersAside, disk, Stored
<1> QED
  BY <1>1, EndRunInv DEF disk

(* The holder of the lock goes on to another step under it. *)
LEMMA GoOnInv ==
    ASSUME Inv, NEW p \in Processes, holder = p, UNCHANGED holder,
           NEW step \in Inside, GoTo(p, step),
           UNCHANGED <<op, identity, loaded, candidate, row, outcome, inode, started,
                       acknowledged>>,
           raw' = raw \/ (\E l \in Rows \union {None} : raw' = [raw EXCEPT ![p] = l]),
           step = "loaded" => op[p] = "load",
           step \in {"check", "write", "publish"} => op[p] = "append",
           DiskOK', Stored \subseteq Stored', StageOK(p)'
    PROVE  Inv'
<1> USE DEF GoTo
<1>0. pc[p] \in Inside /\ \A q \in Processes \ {p} : pc[q] \notin Inside
  BY DEF Inv, LockIsHeld
<1>1. raw' \in [Processes -> Rows \union {None}] /\ \A q \in Processes \ {p} : raw'[q] = raw[q]
  BY DEF Inv, TypeOK
<1>2. TypeOK'
  BY <1>1 DEF Inv, TypeOK, DiskOK, Inside
<1>3. LockIsHeld'
  BY DEF Inv, TypeOK, LockIsHeld
<1>4. RunsAreOK'
  BY <1>0 DEF Inv, TypeOK, RunsAreOK, RunOK, Inside
<1>5. EvidenceIsStored'
  BY DEF Inv, TypeOK, EvidenceIsStored
<1>6. StagesAreOK'
  <2>1. ASSUME NEW q \in Processes, q # p
        PROVE  StageOK(q)'
    BY <1>1, <2>1, OthersStages DEF OthersAside, Inv, TypeOK
  <2> QED
    BY <2>1 DEF StagesAreOK
<1> QED
  BY <1>2, <1>3, <1>4, <1>5, <1>6 DEF Inv, DiskOK

-----------------------------------------------------------------------------
(* The steps *)

LEMMA StartRunInv ==
    ASSUME Inv, NEW p \in Processes, NEW id \in Identities, StartRun(p, id)
    PROVE  Inv'
<1> USE DEF StartRun, GoTo
<1>1. TypeOK'
  BY BoundsAssumption DEF Inv, TypeOK, disk
<1>2. LockIsHeld'
  BY DEF Inv, TypeOK, LockIsHeld, Inside
<1>3. Shape(file)' /\ IndexesArePrefixes' /\ EvidenceIsStored'
  BY DEF Inv, IndexesArePrefixes, EvidenceIsStored, Stored, disk
<1>4. RunsAreOK'
  BY DEF Inv, TypeOK, RunsAreOK, RunOK, Inside
<1>5. StagesAreOK'
  BY DEF Inv, TypeOK, StagesAreOK, StageOK, disk
<1> QED
  BY <1>1, <1>2, <1>3, <1>4, <1>5 DEF Inv

LEMMA AcquireInv ==
    ASSUME Inv, NEW p \in Processes, Acquire(p)
    PROVE  Inv'
<1>1. CASE \E error \in {"os", "timeout"} : EndRun(p, error)
  BY <1>1, EndRunQuietly DEF Acquire, Outcomes, disk
<1>2. CASE holder = None /\ holder' = p /\ Proceed(p, "sync")
  <2> USE <1>2 DEF Acquire, Proceed, GoTo, run
  <2>1. TypeOK'
    BY DEF Inv, TypeOK, disk
  <2>2. LockIsHeld'
    BY NoneAssumption DEF Inv, TypeOK, LockIsHeld, Inside
  <2>3. Shape(file)' /\ IndexesArePrefixes' /\ EvidenceIsStored'
    BY DEF Inv, IndexesArePrefixes, EvidenceIsStored, Stored, disk
  <2>4. RunsAreOK'
    BY DEF Inv, TypeOK, RunsAreOK, RunOK, Inside
  <2>5. StagesAreOK'
    BY DEF Inv, TypeOK, StagesAreOK, StageOK, disk
  <2> QED
    BY <2>1, <2>2, <2>3, <2>4, <2>5 DEF Inv
<1> QED
  BY <1>1, <1>2 DEF Acquire

(* The parse of a ledger in shape meets no bad line, and its index covers     *)
(* the complete lines.                                                        *)
LEMMA ParseIsComplete ==
    ASSUME Inv, NEW p \in Processes
    PROVE  /\ BadLines(ledger[p]) = {}
           /\ Parsed(ledger[p]).rows = RowsIn(file, EndOf(file))
           /\ Parsed(ledger[p]).offset = EndOf(file)
           /\ Parsed(ledger[p]).inode \in 0..MaxFiles
           /\ Parsed(ledger[p]).inode =< inode
           /\ OneIdentity(RowsIn(file, EndOf(file)))
<1> DEFINE l == ledger[p]
           f == From(l)
           n == EndOf(file)
<1>1. /\ file \in Seq(Lines) /\ n \in Nat /\ Len(file) \in Nat /\ n =< Len(file)
      /\ Len(Ended) = n
      /\ inode \in 1..MaxFiles
      /\ l \in [rows : SUBSET Rows, offset : Nat, inode : 0..MaxFiles]
  BY EndType, EndedIs DEF Inv, TypeOK
<1>2. /\ f \in [rows : SUBSET Rows, offset : Nat, inode : 0..MaxFiles]
      /\ f.offset =< n /\ f.rows = RowsIn(file, f.offset)
      /\ f.inode =< inode
  <2>1. CASE Rebuilds(l)
    <3>1. f = Fresh
      BY <2>1 DEF From
    <3>2. RowsIn(file, 0) = {}
      BY DEF RowsIn
    <3> QED
      BY <1>1, <3>1, <3>2, BoundsAssumption DEF Fresh
  <2>2. CASE ~Rebuilds(l)
    <3>1. f = l /\ l.inode = inode
      BY <2>2 DEF From, Rebuilds
    <3> QED
      BY <1>1, <3>1 DEF Inv, IndexesArePrefixes, IndexOf
  <2> QED
    BY <2>1, <2>2
<1> HIDE DEF f, n
<1>3. \A i \in (f.offset + 1)..n : RowsUpTo(l, i) = RowsIn(file, i)
  <2> SUFFICES ASSUME NEW i \in (f.offset + 1)..n
               PROVE  RowsUpTo(l, i) = RowsIn(file, i)
    OBVIOUS
  <2>1. RowsUpTo(l, i) = RowsIn(file, f.offset) \union {file[j].row : j \in (f.offset + 1)..i}
    BY <1>2 DEF RowsUpTo, Behind, f
  <2>2. f.offset \in Nat /\ i \in Nat /\ f.offset < i
    BY <1>1, <1>2
  <2>3. \A j : j \in 1..i <=> j \in 1..f.offset \/ j \in (f.offset + 1)..i
    BY <2>2
  <2> QED
    BY <2>1, <2>3 DEF RowsIn
<1>4. RowsUpTo(l, n) = RowsIn(file, n)
  <2>1. CASE f.offset = n
    <3>1. (f.offset + 1)..n = {}
      BY <1>1, <2>1
    <3> QED
      BY <1>2, <2>1, <3>1 DEF RowsUpTo, Behind, f
  <2>2. CASE f.offset # n
    <3>1. n \in (f.offset + 1)..n
      BY <1>1, <1>2, <2>2
    <3> QED
      BY <1>3, <3>1
  <2> QED
    BY <2>1, <2>2
<1>5. BadLines(l) = {}
  <2> SUFFICES ASSUME NEW i \in BadLines(l) PROVE FALSE
    OBVIOUS
  <2>1. /\ i \in (f.offset + 1)..n
        /\ \/ file[i].form # "line"
           \/ \E r \in RowsUpTo(l, i) : SameKey(r, file[i].row) /\ r # file[i].row
    BY <1>1 DEF BadLines, Behind, f
  <2>2. i \in 1..n /\ \A j \in 1..i : j \in 1..n
    BY <1>1, <1>2, <2>1
  <2>3. file[i].form = "line"
    BY <2>2 DEF Inv, Shape, n
  <2>4. PICK j \in 1..i : SameKey(file[j].row, file[i].row) /\ file[j].row # file[i].row
    BY <1>3, <2>1, <2>3 DEF RowsIn
  <2> QED
    BY <2>2, <2>4 DEF Inv, Shape, n
<1>6. Parsed(l) = [f EXCEPT !.rows = RowsUpTo(l, n), !.offset = n]
  BY <1>1, <1>5 DEF Parsed, f
<1>7. OneIdentity(RowsIn(file, n))
  BY DEF Inv, Shape, OneIdentity, RowsIn, n
<1> QED
  BY <1>2, <1>4, <1>5, <1>6, <1>7 DEF n

(* An index of the whole file stays one, and the others keep theirs. *)
LEMMA NewIndexOK ==
    ASSUME Inv, NEW p \in Processes, UNCHANGED disk,
           NEW l \in [rows : SUBSET Rows, offset : Nat, inode : 0..MaxFiles],
           l.inode =< inode, IndexOf(file, l), ledger' = [ledger EXCEPT ![p] = l]
    PROVE  DiskOK' /\ Stored \subseteq Stored'
<1>1. ledger' \in [Processes -> [rows : SUBSET Rows, offset : Nat, inode : 0..MaxFiles]]
  BY DEF Inv, TypeOK
<1>2. IndexesArePrefixes'
  BY DEF Inv, TypeOK, IndexesArePrefixes, disk
<1> QED
  BY <1>1, <1>2 DEF Inv, TypeOK, DiskOK, Stored, disk

LEMMA SyncInv ==
    ASSUME Inv, NEW p \in Processes, Sync(p)
    PROVE  Inv'
<1> DEFINE l == ledger[p]
           n == EndOf(file)
           parsed == Parsed(l)
<1>1. /\ holder = p /\ file \in Seq(Lines) /\ n \in Nat
      /\ UNCHANGED <<disk, started, acknowledged>>
      /\ l \in [rows : SUBSET Rows, offset : Nat, inode : 0..MaxFiles]
      /\ inode \in 1..MaxFiles
      /\ op[p] \in {"load", "append"}
      /\ TornIn(file) => Len(file) = n + 1 /\ file[Len(file)] \in Lines
      /\ ~TornIn(file) => Len(file) = n
  BY EndType DEF Sync, Inv, TypeOK, LockIsHeld, Inside
<1>2. /\ BadLines(l) = {}
      /\ parsed.rows = RowsIn(file, n) /\ parsed.offset = n
      /\ parsed.inode \in 0..MaxFiles /\ parsed.inode =< inode
      /\ OneIdentity(parsed.rows)
  BY ParseIsComplete
<1>3. RowsIn(file, n) \subseteq Rows
  <2>1. DOMAIN file = 1..Len(file) /\ Len(file) \in Nat /\ n =< Len(file)
    BY <1>1
  <2>2. \A j \in 1..n : file[j] \in Lines
    BY <1>1, <2>1
  <2>3. \A j \in 1..n : file[j].row \in Rows
    BY <2>2 DEF Lines
  <2> QED
    BY <2>3 DEF RowsIn
<1>4. Synced(p) = IF op[p] = "load" THEN "loaded" ELSE "check"
  BY DEF Synced
<1>5. CASE ~Rebuilds(l) /\ Len(file) = l.offset
  <2>1. Proceed(p, Synced(p)) /\ UNCHANGED <<ledger, holder>>
    BY <1>5 DEF Sync
  <2>2. l.inode = inode /\ l.offset =< n /\ l.offset = n /\ ~TornIn(file)
    BY <1>1, <1>5 DEF Rebuilds, Inv, IndexesArePrefixes, IndexOf
  <2>3. DiskOK' /\ Stored \subseteq Stored'
    BY <1>1, <2>1, DiskFromInv DEF DiskOK, IndexesArePrefixes, Stored, disk
  <2>4. StageOK(p)'
    BY <1>1, <1>4, <2>1, <2>2 DEF Proceed, GoTo, StageOK, Inv, TypeOK, disk
  <2> QED
    BY <1>1, <1>4, <2>1, <2>3, <2>4, GoOnInv DEF Proceed, run, Inside, disk
<1>6. CASE ~(~Rebuilds(l) /\ Len(file) = l.offset) /\ Torn
  <2>1. /\ ledger' = [ledger EXCEPT ![p] = parsed]
        /\ ProceedWith(p, "quarantine", Last(file).row)
        /\ UNCHANGED holder
    BY <1>2, <1>6 DEF Sync
  <2>2. /\ TornIn(file) /\ Last(file).row = file[Len(file)].row
        /\ Last(file).row \in Rows
    BY <1>1, <1>6, FileNames DEF Last, Lines
  <2>3. parsed \in [rows : SUBSET Rows, offset : Nat, inode : 0..MaxFiles]
    <3>1. From(l) \in [rows : SUBSET Rows, offset : Nat, inode : 0..MaxFiles]
      BY <1>1, BoundsAssumption DEF From, Fresh
    <3> QED
      BY <1>1, <1>2, <1>3, <3>1 DEF Parsed
  <2>4. IndexOf(file, parsed)
    BY <1>1, <1>2 DEF IndexOf
  <2> HIDE DEF parsed
  <2>5. DiskOK' /\ Stored \subseteq Stored'
    BY <1>1, <1>2, <2>1, <2>3, <2>4, NewIndexOK
  <2>6. StageOK(p)'
    BY <1>1, <1>2, <2>1, <2>2, <2>4
    DEF ProceedWith, GoTo, StageOK, Inv, TypeOK, disk
  <2> QED
    BY <1>1, <2>1, <2>2, <2>5, <2>6, GoOnInv DEF ProceedWith, Inside, disk
<1>7. CASE ~(~Rebuilds(l) /\ Len(file) = l.offset) /\ ~Torn
  <2> DEFINE k == [parsed EXCEPT !.inode = inode]
  <2>1. FinishSync(p, parsed)
    BY <1>2, <1>7 DEF Sync
  <2>2. /\ ledger' = [ledger EXCEPT ![p] = k]
        /\ ProceedWith(p, Synced(p), None)
        /\ UNCHANGED holder
    BY <1>2, <2>1 DEF FinishSync
  <2>3. ~TornIn(file)
    BY <1>7, FileNames
  <2>4. parsed \in [rows : SUBSET Rows, offset : Nat, inode : 0..MaxFiles]
    <3>1. From(l) \in [rows : SUBSET Rows, offset : Nat, inode : 0..MaxFiles]
      BY <1>1, BoundsAssumption DEF From, Fresh
    <3> QED
      BY <1>1, <1>2, <1>3, <3>1 DEF Parsed
  <2> HIDE DEF parsed
  <2>5. /\ k \in [rows : SUBSET Rows, offset : Nat, inode : 0..MaxFiles]
        /\ k.inode = inode /\ k.offset = n /\ k.rows = RowsIn(file, n)
    BY <1>1, <1>2, <2>4
  <2>6. IndexOf(file, k) /\ k.inode =< inode
    BY <1>1, <2>5 DEF IndexOf
  <2> HIDE DEF k
  <2>7. DiskOK' /\ Stored \subseteq Stored'
    BY <1>1, <2>2, <2>5, <2>6, NewIndexOK
  <2>8. StageOK(p)'
    BY <1>1, <1>4, <2>2, <2>3, <2>5 DEF ProceedWith, GoTo, StageOK, Inv, TypeOK, disk
  <2> QED
    BY <1>1, <1>4, <2>2, <2>7, <2>8, GoOnInv DEF ProceedWith, Inside, disk
<1> QED
  BY <1>5, <1>6, <1>7

LEMMA OpenQuarantineInv ==
    ASSUME Inv, NEW p \in Processes, OpenQuarantine(p)
    PROVE  Inv'
<1>1. /\ holder = p /\ raw[p] \in Rows
      /\ UNCHANGED <<file, inode, ledger, started, acknowledged>>
  BY DEF OpenQuarantine, Inv, LockIsHeld, Inside, StagesAreOK, StageOK
<1>2. ASSUME UNCHANGED quarantine
      PROVE  DiskOK' /\ Stored \subseteq Stored'
  BY <1>1, <1>2, DiskFromInv DEF DiskOK, IndexesArePrefixes, Stored
<1>3. CASE \E error \in {"quarantine", "os"} : EndRun(p, error) /\ UNCHANGED quarantine
  BY <1>1, <1>3, EndRunQuietly DEF Outcomes, disk
<1>4. CASE /\ quarantine[raw[p]] = "whole"
           /\ Proceed(p, "truncate") /\ UNCHANGED <<quarantine, holder>>
  <2>1. StageOK(p)'
    BY <1>1, <1>4
    DEF OpenQuarantine, Proceed, GoTo, run, Inv, TypeOK, StagesAreOK, StageOK
  <2> QED
    BY <1>1, <1>2, <1>4, <2>1, GoOnInv DEF Proceed, run, Inside
<1>5. CASE /\ quarantine' = Quarantined(p, "part")
           /\ Proceed(p, "fill") /\ UNCHANGED holder
  <2>1. quarantine' \in [Rows -> {"none", "part", "whole"}] /\ quarantine'[raw[p]] = "part"
    BY <1>1, <1>5 DEF Quarantined, Inv, TypeOK
  <2>2. DiskOK' /\ Stored \subseteq Stored'
    BY <1>1, <2>1, DiskFromInv DEF DiskOK, IndexesArePrefixes, Stored
  <2>3. StageOK(p)'
    BY <1>1, <1>5, <2>1
    DEF OpenQuarantine, Proceed, GoTo, run, Inv, TypeOK, StagesAreOK, StageOK
  <2> QED
    BY <1>1, <1>5, <2>2, <2>3, GoOnInv DEF Proceed, run, Inside
<1> QED
  BY <1>3, <1>4, <1>5 DEF OpenQuarantine

LEMMA FillQuarantineInv ==
    ASSUME Inv, NEW p \in Processes, FillQuarantine(p)
    PROVE  Inv'
<1>1. /\ holder = p /\ raw[p] \in Rows
      /\ UNCHANGED <<file, inode, ledger, started, acknowledged>>
  BY DEF FillQuarantine, Inv, LockIsHeld, Inside, StagesAreOK, StageOK
<1>2. ASSUME NEW state \in {"whole", "none"}, quarantine' = Quarantined(p, state)
      PROVE  /\ DiskOK' /\ Stored \subseteq Stored'
             /\ quarantine'[raw[p]] = state
  <2>1. /\ quarantine' \in [Rows -> {"none", "part", "whole"}]
        /\ quarantine'[raw[p]] = state
    BY <1>1, <1>2 DEF Quarantined, Inv, TypeOK
  <2> QED
    BY <1>1, <2>1, DiskFromInv DEF DiskOK, IndexesArePrefixes, Stored
<1>3. CASE quarantine' = Quarantined(p, "none") /\ EndRun(p, "os")
  BY <1>1, <1>2, <1>3, EndRunInv DEF Outcomes, OthersAside
<1>4. CASE /\ quarantine' = Quarantined(p, "whole")
           /\ Proceed(p, "truncate") /\ UNCHANGED holder
  <2>1. StageOK(p)'
    BY <1>1, <1>2, <1>4
    DEF FillQuarantine, Proceed, GoTo, run, Inv, TypeOK, StagesAreOK, StageOK
  <2> QED
    BY <1>1, <1>2, <1>4, <2>1, GoOnInv DEF Proceed, run, Inside
<1> QED
  BY <1>3, <1>4 DEF FillQuarantine

LEMMA TruncateInv ==
    ASSUME Inv, NEW p \in Processes, Truncate(p)
    PROVE  Inv'
<1> DEFINE l == ledger[p]
           n == EndOf(file)
           k == [l EXCEPT !.inode = inode]
<1>1. /\ holder = p /\ file \in Seq(Lines) /\ Shape(file)
      /\ IndexOf(file, l) /\ l.offset = n /\ n \in Nat
      /\ l \in [rows : SUBSET Rows, offset : Nat, inode : 0..MaxFiles]
      /\ inode \in 1..MaxFiles
      /\ UNCHANGED <<inode, quarantine, started, acknowledged>>
      /\ op[p] \in {"load", "append"}
  BY EndType DEF Truncate, Inv, TypeOK, LockIsHeld, Inside, StagesAreOK, StageOK
<1>2. CASE EndRun(p, "os") /\ UNCHANGED <<file, ledger>>
  BY <1>1, <1>2, EndRunQuietly DEF Outcomes, disk
<1>3. CASE file' = SubSeq(file, 1, l.offset) /\ FinishSync(p, l)
  <2>1. OneIdentity(l.rows)
    BY <1>1, ParseIsComplete DEF IndexOf
  <2>2. /\ ledger' = [ledger EXCEPT ![p] = k]
        /\ ProceedWith(p, Synced(p), None)
        /\ UNCHANGED holder
    BY <1>3, <2>1 DEF FinishSync
  <2>3. /\ file' \in Seq(Lines) /\ Shape(file') /\ ~TornIn(file')
        /\ EndOf(file') = n
        /\ \A m \in 0..n : RowsIn(file', m) = RowsIn(file, m)
        /\ StoredIn(file') = StoredIn(file)
    BY <1>1, <1>3, CutFile
  <2>4. /\ k \in [rows : SUBSET Rows, offset : Nat, inode : 0..MaxFiles]
        /\ k.inode = inode /\ k.offset = n /\ k.rows = RowsIn(file, n)
    BY <1>1 DEF IndexOf
  <2> HIDE DEF k
  <2>5. IndexesArePrefixes'
    <3> SUFFICES ASSUME NEW q \in Processes
                 PROVE  /\ ledger'[q].inode =< inode
                        /\ ledger'[q].inode = inode => IndexOf(file', ledger'[q])
      BY <1>1 DEF IndexesArePrefixes
    <3>1. CASE q = p
      BY <1>1, <2>2, <2>3, <2>4, <3>1 DEF Inv, TypeOK, IndexOf
    <3>2. CASE q # p
      <4>1. ledger'[q] = ledger[q] /\ ledger[q].offset \in Nat
        BY <2>2, <3>2 DEF Inv, TypeOK
      <4> QED
        BY <1>1, <2>3, <4>1 DEF Inv, IndexesArePrefixes, IndexOf
    <3> QED
      BY <3>1, <3>2
  <2>6. DiskOK'
    BY <1>1, <2>2, <2>3, <2>4, <2>5 DEF Inv, TypeOK, DiskOK
  <2>7. Stored \subseteq Stored'
    BY <2>3 DEF Stored, StoredIn
  <2>8. Synced(p) = IF op[p] = "load" THEN "loaded" ELSE "check"
    BY DEF Synced
  <2>9. StageOK(p)'
    BY <1>1, <2>2, <2>3, <2>4, <2>8 DEF ProceedWith, GoTo, StageOK, Inv, TypeOK
  <2> QED
    BY <1>1, <2>2, <2>6, <2>7, <2>8, <2>9, GoOnInv DEF ProceedWith, Inside
<1> QED
  BY <1>2, <1>3 DEF Truncate

(* A row of the file becomes evidence of the run that holds or held the lock. *)
LEMMA TakeInv ==
    ASSUME Inv, NEW p \in Processes, pc[p] \in {"next", "check", "publish"},
           NEW r \in Rows, r \in Stored, candidate[p] \in 1..Candidates,
           Take(p, r), Release(p), UNCHANGED <<disk, started>>, DiskOK',
           \A q \in Processes \ {p} : ledger'[q] = ledger[q]
    PROVE  Inv'
<1> USE DEF Take, GoTo, Release, disk
<1>1. TypeOK'
  <2>1. candidate' \in [Processes -> 1..(Candidates + 1)]
    BY CandidatesAssumption DEF Inv, TypeOK
  <2> QED
    BY <2>1 DEF Inv, TypeOK, DiskOK
<1>2. LockIsHeld'
  BY NoneAssumption DEF Inv, TypeOK, LockIsHeld, Inside
<1>3. RunsAreOK'
  BY DEF Inv, TypeOK, RunsAreOK, RunOK, Inside
<1>4. EvidenceIsStored'
  BY DEF Inv, EvidenceIsStored, Stored
<1>5. StagesAreOK'
  <2>1. StageOK(p)'
    BY DEF Inv, TypeOK, StageOK
  <2>2. ASSUME NEW q \in Processes, q # p
        PROVE  StageOK(q)'
    BY <2>2, OthersStages DEF OthersAside, Inv, TypeOK
  <2> QED
    BY <2>1, <2>2 DEF StagesAreOK
<1> QED
  BY <1>1, <1>2, <1>3, <1>4, <1>5 DEF Inv, DiskOK

LEMMA LoadedInv ==
    ASSUME Inv, NEW p \in Processes, Loaded(p)
    PROVE  Inv'
<1>1. UNCHANGED <<disk, ledger, started, acknowledged>> /\ holder = p
  BY DEF Loaded, Inv, LockIsHeld, Inside
<1>2. CASE EndRun(p, "identity")
  BY <1>1, <1>2, EndRunQuietly DEF Outcomes
<1>3. CASE /\ loaded' = [loaded EXCEPT ![p] = ledger[p].rows]
           /\ GoTo(p, "next")
           /\ Release(p)
           /\ UNCHANGED <<op, identity, candidate, row, raw, outcome>>
  <2> USE <1>1, <1>3 DEF GoTo, Release, disk
  <2>1. ledger[p].rows = Stored
    BY InvImplies DEF Loaded, LedgerIsSound, IndexIsExact
  <2>2. TypeOK'
    BY DEF Inv, TypeOK
  <2>3. LockIsHeld'
    BY NoneAssumption DEF Inv, TypeOK, LockIsHeld, Inside
  <2>4. RunsAreOK'
    BY DEF Loaded, Inv, TypeOK, RunsAreOK, RunOK, Inside
  <2>5. EvidenceIsStored' /\ Shape(file)' /\ IndexesArePrefixes'
    BY <2>1 DEF Inv, TypeOK, EvidenceIsStored, IndexesArePrefixes, Stored
  <2>6. StagesAreOK'
    BY DEF Inv, TypeOK, StagesAreOK, StageOK
  <2> QED
    BY <2>2, <2>3, <2>4, <2>5, <2>6 DEF Inv
<1> QED
  BY <1>2, <1>3 DEF Loaded

LEMMA NextCandidateInv ==
    ASSUME Inv, NEW p \in Processes, NextCandidate(p)
    PROVE  Inv'
<1>1. /\ UNCHANGED <<disk, ledger, started>> /\ pc[p] = "next" /\ holder # p
      /\ candidate[p] \in 1..(Candidates + 1) /\ identity[p] \in Identities
  BY DEF NextCandidate, Inv, TypeOK, LockIsHeld, Inside, RunsAreOK, RunOK
<1>2. CASE UNCHANGED acknowledged /\ \E error \in {"done", "replay"} : EndRun(p, error)
  BY <1>1, <1>2, EndRunQuietly DEF Outcomes
<1>3. ASSUME ~(candidate[p] > Candidates)
      PROVE  candidate[p] \in 1..Candidates
  BY <1>1, <1>3, CandidatesAssumption
<1>4. ASSUME ~(candidate[p] > Candidates), NEW r \in loaded[p], Take(p, r), UNCHANGED holder
      PROVE  Inv'
  <2>1. r \in Rows /\ r \in Stored
    BY DEF Inv, TypeOK, EvidenceIsStored
  <2>2. Release(p)
    BY <1>1, <1>4 DEF Release
  <2>3. DiskOK'
    BY <1>1, DiskFromInv DEF DiskOK, IndexesArePrefixes, disk
  <2> QED
    BY <1>1, <1>3, <1>4, <2>1, <2>2, <2>3, TakeInv
<1>5. CASE /\ ~(candidate[p] > Candidates)
           /\ \E payload \in Payloads : row' = [row EXCEPT ![p] = RowOf(p, payload)]
           /\ op' = [op EXCEPT ![p] = "append"]
           /\ GoTo(p, "lock")
           /\ UNCHANGED <<holder, identity, loaded, candidate, raw, outcome, acknowledged>>
  <2>1. PICK payload \in Payloads : row' = [row EXCEPT ![p] = RowOf(p, payload)]
    BY <1>5
  <2>2. RowOf(p, payload) \in Rows /\ RowOf(p, payload).run_identity = identity[p]
    BY <1>1, <1>3, <1>5 DEF RowOf, Rows
  <2> DEFINE new == RowOf(p, payload)
  <2> HIDE DEF new
  <2>3. row' = [row EXCEPT ![p] = new] /\ new \in Rows /\ new.run_identity = identity[p]
    BY <2>1, <2>2 DEF new
  <2> USE <1>1, <1>5, <2>3 DEF GoTo, disk
  <2>4. TypeOK'
    BY DEF Inv, TypeOK
  <2>5. LockIsHeld'
    BY DEF Inv, TypeOK, LockIsHeld, Inside
  <2>6. RunsAreOK'
    BY <1>3 DEF Inv, TypeOK, RunsAreOK, RunOK, Inside
  <2>7. EvidenceIsStored' /\ Shape(file)' /\ IndexesArePrefixes'
    BY DEF Inv, EvidenceIsStored, IndexesArePrefixes, Stored
  <2>8. StagesAreOK'
    BY DEF Inv, TypeOK, StagesAreOK, StageOK
  <2> QED
    BY <2>4, <2>5, <2>6, <2>7, <2>8 DEF Inv
<1> QED
  BY <1>2, <1>4, <1>5 DEF NextCandidate

LEMMA CheckInv ==
    ASSUME Inv, NEW p \in Processes, Check(p)
    PROVE  Inv'
<1> DEFINE existing == {r \in ledger[p].rows : SameKey(r, row[p])}
<1>1. /\ UNCHANGED <<disk, ledger, started>> /\ pc[p] = "check" /\ holder = p
      /\ row[p] \in Rows /\ candidate[p] \in 1..Candidates /\ op[p] = "append"
      /\ ledger[p].rows = Stored
  BY InvImplies
  DEF Check, Inv, LockIsHeld, Inside, RunsAreOK, RunOK, LedgerIsSound, IndexIsExact
<1>2. DiskOK' /\ Stored \subseteq Stored'
  BY <1>1, DiskFromInv DEF DiskOK, IndexesArePrefixes, Stored, disk
<1>3. CASE UNCHANGED acknowledged /\ \E error \in {"identity", "conflict"} : EndRun(p, error)
  BY <1>1, <1>3, EndRunQuietly DEF Outcomes
<1>4. CASE row[p] \in existing /\ Take(p, row[p]) /\ Release(p)
  BY <1>1, <1>2, <1>4, TakeInv
<1>5. CASE /\ ~ \E r \in ledger[p].rows : r.run_identity # identity[p]
           /\ existing = {}
           /\ Proceed(p, "write") /\ UNCHANGED <<holder, acknowledged>>
  <2>1. \A r \in ledger[p].rows : ~SameKey(r, row[p]) /\ r.run_identity = identity[p]
    BY <1>5
  <2>2. StageOK(p)'
    BY <1>1, <1>5, <2>1
    DEF Proceed, GoTo, run, disk, Inv, TypeOK, StagesAreOK, StageOK
  <2> QED
    BY <1>1, <1>2, <1>5, <2>2, GoOnInv DEF Proceed, run, Inside, disk
<1> QED
  BY <1>3, <1>4, <1>5 DEF Check

(* What a write does to a file of which the writer holds an exact index. *)
LEMMA WriteOK ==
    ASSUME Inv, NEW p \in Processes, pc[p] = "write", NEW form \in {"line", "torn"},
           file' = Written([row |-> row[p], form |-> form]),
           UNCHANGED <<inode, quarantine, ledger>>
    PROVE  /\ DiskOK' /\ Stored \subseteq Stored'
           /\ form = "line" =>
                /\ ~TornIn(file') /\ EndOf(file') = ledger[p].offset + 1
                /\ Len(file') = EndOf(file') /\ file'[Len(file')].row = row[p]
<1> DEFINE line == [row |-> row[p], form |-> form]
<1>1. /\ file \in Seq(Lines) /\ Shape(file) /\ ~TornIn(file)
      /\ row[p] \in Rows /\ row[p].run_identity = identity[p]
      /\ ledger[p].offset = EndOf(file)
      /\ \A r \in ledger[p].rows : ~SameKey(r, row[p]) /\ r.run_identity = identity[p]
  BY DEF Inv, TypeOK, RunsAreOK, RunOK, StagesAreOK, StageOK, Inside
<1>2. ledger[p].rows = StoredIn(file)
  BY InvImplies, FileNames DEF LedgerIsSound, IndexIsExact
<1>3. line \in Lines /\ line.row = row[p] /\ line.form = form
  BY <1>1 DEF Lines
<1>4. file' = Append(file, line)
  BY <1>1, FileNames DEF Written
<1> HIDE DEF line
<1>5. /\ file' \in Seq(Lines) /\ Shape(file')
      /\ Len(file') = Len(file) + 1 /\ file'[Len(file) + 1] = line
      /\ form = "line" => ~TornIn(file') /\ EndOf(file') = EndOf(file) + 1
      /\ form = "torn" => TornIn(file') /\ EndOf(file') = EndOf(file)
      /\ \A n \in 0..EndOf(file) : RowsIn(file', n) = RowsIn(file, n)
      /\ StoredIn(file) \subseteq StoredIn(file')
  BY <1>1, <1>2, <1>3, <1>4, GrowingFile
<1>6. /\ EndOf(file) \in Nat /\ EndOf(file) =< EndOf(file')
      /\ Len(file) = EndOf(file)
  BY <1>1, <1>5, EndType
<1>7. IndexesArePrefixes'
  <2> SUFFICES ASSUME NEW q \in Processes
               PROVE  /\ ledger[q].inode =< inode
                      /\ ledger[q].inode = inode => IndexOf(file', ledger[q])
    BY DEF IndexesArePrefixes
  <2>1. ledger[q].offset \in Nat /\ EndOf(file') \in Nat
    BY <1>5, EndType DEF Inv, TypeOK
  <2> QED
    BY <1>5, <1>6, <2>1 DEF Inv, IndexesArePrefixes, IndexOf
<1>8. DiskOK'
  BY <1>5, <1>7 DEF DiskOK, Inv, TypeOK
<1>9. Stored \subseteq Stored'
  BY <1>5 DEF Stored, StoredIn
<1> QED
  BY <1>1, <1>3, <1>5, <1>6, <1>8, <1>9

LEMMA WriteRowInv ==
    ASSUME Inv, NEW p \in Processes, WriteRow(p)
    PROVE  Inv'
<1>1. /\ UNCHANGED <<inode, quarantine, ledger, started, acknowledged>>
      /\ pc[p] = "write" /\ holder = p /\ op[p] = "append"
      /\ ledger[p].inode = inode
  BY DEF WriteRow, Inv, LockIsHeld, Inside, RunsAreOK, RunOK, StagesAreOK, StageOK
<1>2. CASE EndRun(p, "os") /\ UNCHANGED file
  BY <1>1, <1>2, EndRunQuietly DEF Outcomes, disk
<1>3. ASSUME NEW form \in {"line", "torn"},
             file' = Written([row |-> row[p], form |-> form]), EndRun(p, "os")
      PROVE  Inv'
  <2>1. DiskOK' /\ Stored \subseteq Stored'
    BY <1>1, <1>3, WriteOK
  <2> QED
    BY <1>1, <1>3, <2>1, EndRunInv DEF Outcomes, OthersAside
<1>4. CASE /\ file' = Written([row |-> row[p], form |-> "line"])
           /\ Proceed(p, "publish") /\ UNCHANGED holder
  <2>1. /\ DiskOK' /\ Stored \subseteq Stored'
        /\ ~TornIn(file') /\ EndOf(file') = ledger[p].offset + 1
        /\ Len(file') = EndOf(file') /\ file'[Len(file')].row = row[p]
    BY <1>1, <1>4, WriteOK
  <2>2. StageOK(p)'
    BY <1>1, <1>4, <2>1 DEF Proceed, GoTo, run, Inv, TypeOK, StageOK
  <2> QED
    BY <1>1, <1>4, <2>1, <2>2, GoOnInv DEF Proceed, run, Inside
<1> QED
  BY <1>2, <1>3, <1>4 DEF WriteRow

LEMMA PublishInv ==
    ASSUME Inv, NEW p \in Processes, Publish(p)
    PROVE  Inv'
<1> DEFINE l == ledger[p]
           k == [rows |-> l.rows \union {row[p]}, offset |-> Len(file), inode |-> inode]
           n == EndOf(file)
<1>1. /\ file \in Seq(Lines) /\ Shape(file) /\ n \in Nat /\ Len(file) = n
      /\ ~TornIn(file) /\ l.inode = inode /\ n = l.offset + 1 /\ l.offset \in Nat
      /\ l.rows = RowsIn(file, l.offset)
      /\ file[Len(file)].row = row[p]
      /\ row[p] \in Rows /\ candidate[p] \in 1..Candidates
      /\ l.rows \subseteq Rows /\ inode \in 1..MaxFiles
      /\ ledger' = [ledger EXCEPT ![p] = k]
      /\ UNCHANGED disk
  BY EndType
  DEF Publish, Inv, TypeOK, StagesAreOK, StageOK, IndexesArePrefixes, IndexOf, RunsAreOK,
      RunOK, Inside
<1>2. RowsIn(file, n) = RowsIn(file, l.offset) \union {file[n].row}
  <2>1. \A j : j \in 1..n <=> j \in 1..l.offset \/ j = n
    BY <1>1
  <2> QED
    BY <2>1 DEF RowsIn
<1>3. row[p] \in Stored
  <2>1. row[p] \in RowsIn(file, n)
    BY <1>1, <1>2
  <2> QED
    BY <1>1, <2>1, StoredRows, FileNames
<1>4. /\ k \in [rows : SUBSET Rows, offset : Nat, inode : 0..MaxFiles]
      /\ k.inode = inode /\ k.offset = n /\ k.rows = RowsIn(file, n)
  BY <1>1, <1>2
<1> HIDE DEF k
<1>5. IndexOf(file, k) /\ k.inode =< inode
  BY <1>1, <1>4 DEF IndexOf
<1>6. DiskOK'
  BY <1>1, <1>4, <1>5, NewIndexOK
<1>7. \A q \in Processes \ {p} : ledger'[q] = ledger[q]
  BY <1>1 DEF Inv, TypeOK
<1> QED
  BY <1>1, <1>3, <1>6, <1>7, TakeInv DEF Publish

LEMMA CrashInv ==
    ASSUME Inv, NEW p \in Processes, Crash(p)
    PROVE  Inv'
<1>1. /\ ledger' = [ledger EXCEPT ![p] = Fresh]
      /\ UNCHANGED <<disk, started, acknowledged>>
  BY DEF Crash
<1>2. /\ Fresh \in [rows : SUBSET Rows, offset : Nat, inode : 0..MaxFiles]
      /\ Fresh.inode =< inode /\ IndexOf(file, Fresh)
  <2>1. EndOf(file) \in Nat
    BY EndType DEF Inv, TypeOK
  <2>2. RowsIn(file, 0) = {}
    BY DEF RowsIn
  <2> QED
    BY <2>1, <2>2, BoundsAssumption DEF Inv, TypeOK, Fresh, IndexOf
<1>3. DiskOK' /\ Stored \subseteq Stored'
  BY <1>1, <1>2, NewIndexOK
<1>4. OthersAside(p)
  BY <1>1 DEF OthersAside, Inv, TypeOK
<1> QED
  BY <1>1, <1>3, <1>4, EndRunInv DEF Crash, Outcomes, disk

(* The indexes that living processes keep are of a file that is gone. *)
LEMMA ReplaceInv ==
    ASSUME Inv, Replace
    PROVE  Inv'
<1> USE DEF Replace, run
<1>1. /\ file' = <<>> /\ inode' = inode + 1 /\ inode' \in 1..MaxFiles /\ inode \in Nat
  BY BoundsAssumption DEF Inv, TypeOK
<1>2. TypeOK'
  BY <1>1 DEF Inv, TypeOK
<1>3. Shape(file)'
  <2>1. EndOf(file') = 0
    BY DEF EndOf, TornIn
  <2> QED
    BY <2>1 DEF Shape
<1>4. LockIsHeld' /\ RunsAreOK'
  BY DEF Inv, LockIsHeld, RunsAreOK, RunOK
<1>5. IndexesArePrefixes'
  <2> SUFFICES ASSUME NEW q \in Processes
               PROVE  ledger[q].inode =< inode + 1 /\ ledger[q].inode # inode + 1
    BY DEF IndexesArePrefixes
  <2>1. ledger[q].inode \in Int /\ ledger[q].inode =< inode
    BY BoundsAssumption DEF Inv, TypeOK, IndexesArePrefixes
  <2> QED
    BY <1>1, <2>1
<1>6. EvidenceIsStored'
  BY DEF Inv, RunsAreOK, RunOK, EvidenceIsStored
<1>7. StagesAreOK'
  BY DEF StagesAreOK, StageOK
<1> QED
  BY <1>2, <1>3, <1>4, <1>5, <1>6, <1>7 DEF Inv

LEMMA StutterInv ==
    ASSUME Inv, UNCHANGED vars
    PROVE  Inv'
BY DEF vars, disk, run, Inv, TypeOK, LockIsHeld, IndexesArePrefixes, RunsAreOK, RunOK,
       EvidenceIsStored, Stored, StagesAreOK, StageOK

LEMMA NextInv ==
    ASSUME Inv, [Next]_vars
    PROVE  Inv'
BY StartRunInv, AcquireInv, SyncInv, OpenQuarantineInv, FillQuarantineInv, TruncateInv,
   LoadedInv, NextCandidateInv, CheckInv, WriteRowInv, PublishInv, CrashInv, ReplaceInv,
   StutterInv
DEF Next

LEMMA Invariance == Spec => []Inv
BY InitInv, NextInv, PTL DEF Spec

(* Evidence that a run has reported is in the ledger for good, whatever the   *)
(* other processes write, recover or leave behind when they die.              *)
THEOREM EvidenceStaysStored == Spec => []AcknowledgedRowsAreStored
BY Invariance, InvImplies, PTL

(* The ledger never holds a key twice, rows of two runs or a damaged line,    *)
(* and whoever appends has an exact index of it.                              *)
THEOREM LedgerStaysSound == Spec => []LedgerIsSound
BY Invariance, InvImplies, PTL

(* A torn line leaves the ledger only when a quarantine file holds all of it, *)
(* and that file is never touched again.                                      *)
THEOREM TornBytesStay == Spec => TornBytesAreKept
<1> DEFINE A == /\ (Torn /\ inode' = inode /\ file' # file)
                    => quarantine[Last(file).row] = "whole"
                /\ \A r \in Rows : quarantine[r] = "whole" => quarantine'[r] = "whole"
<1>1. ASSUME Inv, Next
      PROVE  A
  <2> USE <1>1
  <2>1. ASSUME NEW p \in Processes, Truncate(p)
        PROVE  A
    <3>1. /\ raw[p] = Last(file).row /\ quarantine[raw[p]] = "whole"
          /\ UNCHANGED quarantine
      BY <2>1 DEF Truncate, Inv, StagesAreOK, StageOK, Last
    <3> QED
      BY <3>1
  <2>2. ASSUME NEW p \in Processes, WriteRow(p)
        PROVE  A
    <3>1. ~Torn /\ UNCHANGED quarantine
      BY <2>2, FileNames DEF WriteRow, Inv, StagesAreOK, StageOK
    <3> QED
      BY <3>1
  <2>3. ASSUME NEW p \in Processes, OpenQuarantine(p)
        PROVE  A
    <3>1. /\ UNCHANGED file /\ raw[p] \in Rows
          /\ quarantine' = quarantine
             \/ (quarantine[raw[p]] = "none" /\ quarantine' = Quarantined(p, "part"))
      BY <2>3 DEF OpenQuarantine, Inv, StagesAreOK, StageOK
    <3> QED
      BY <3>1 DEF Quarantined, Inv, TypeOK
  <2>4. ASSUME NEW p \in Processes, FillQuarantine(p)
        PROVE  A
    <3>1. /\ UNCHANGED file /\ raw[p] \in Rows /\ quarantine[raw[p]] = "part"
          /\ \E state \in {"whole", "none"} : quarantine' = Quarantined(p, state)
      BY <2>4 DEF FillQuarantine, Inv, StagesAreOK, StageOK
    <3> QED
      BY <3>1 DEF Quarantined, Inv, TypeOK
  <2>5. CASE Replace
    BY <2>5 DEF Replace, Inv, TypeOK
  <2>6. ASSUME UNCHANGED <<file, quarantine>>
        PROVE  A
    BY <2>6
  <2>7. \/ UNCHANGED <<file, quarantine>>
        \/ Replace
        \/ \E p \in Processes :
            Truncate(p) \/ WriteRow(p) \/ OpenQuarantine(p) \/ FillQuarantine(p)
    BY DEF Next, disk, StartRun, Acquire, Sync, Loaded, NextCandidate, Check, Publish, Crash
  <2> QED
    BY <2>1, <2>2, <2>3, <2>4, <2>5, <2>6, <2>7
<1>2. ASSUME Inv, [Next]_vars
      PROVE  [A]_vars
  BY <1>1, <1>2
<1> QED
  BY <1>2, Invariance, PTL DEF Spec, TornBytesAreKept
=============================================================================
