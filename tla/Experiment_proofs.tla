-------------------------- MODULE Experiment_proofs --------------------------
(***************************************************************************)
(* The safety of the research pipelines: what a publication leaves behind  *)
(* can always be recovered, reports rest on the evidence of their own run, *)
(* the outputs of the walk-forward profile describe each other, the        *)
(* feature history that they load knows nothing of its future, and a       *)
(* feature cache carries at each close what was published by then.         *)
(***************************************************************************)
EXTENDS Experiment, FeatureHistory, FeatureBuild, SequenceTheorems,
        FiniteSetTheorems, WellFoundedInduction, TLAPS

-----------------------------------------------------------------------------
(* The publication.                                                        *)

(* The content of destination i that was committed last needs no            *)
(* destination: there was none, or a backup holds it.                       *)
Secured(i) == committed[i] = Absent \/ <<i, committed[i]>> \in kept

(* During a transaction it may also lie where the snapshot saw it.          *)
Held(i) == Secured(i) \/ (committed[i] = final[i] /\ final[i] = tx.snapshots[i])

Recorded == tx.backups \union tx.originally_absent

Unfinished == tx.pc \in {"temporaries", "backup", "publish", "rollback"}

(* The backup loop moves what the snapshot saw out of the way.              *)
BackupInv ==
    tx.pc = "backup" =>
      /\ Recorded = 1..(tx.at - 1)
      /\ tx.published = {}
      /\ \A i \in Paths : i < tx.at => final[i] = Absent
      /\ \A i \in Paths : i >= tx.at => final[i] = tx.snapshots[i]

(* The publish loop fills empty destinations only.                          *)
PublishInv ==
    tx.pc = "publish" =>
      /\ tx.at <= Files
      /\ Recorded = Paths
      /\ \A i \in Paths : i < tx.at => final[i] = tx.content
      /\ \A i \in Paths : i >= tx.at => final[i] = Absent

(* The rollback has restored the destinations before `at', and what it has  *)
(* yet to touch was recorded, unless something failed.                      *)
RollbackInv ==
    tx.pc = "rollback" =>
      /\ \A i \in Paths : i >= tx.at /\ i \in tx.published => i \in Recorded
      /\ tx.unclean \/ \A i \in Paths : i < tx.at \/ i \notin Recorded => final[i] = tx.snapshots[i]

(* What a transaction has put its hands on is secured until it is restored. *)
SecuredInv ==
    /\ Unfinished => ~tx.succeeded /\ \A i \in Paths : Held(i)
    /\ tx.pc = "temporaries" => Recorded \union tx.published = {} /\ final = tx.snapshots
    /\ tx.pc \in {"backup", "publish"} => \A i \in Recorded : Secured(i)
    /\ tx.pc = "rollback" => \A i \in Recorded : i >= tx.at => Secured(i)
    /\ \A i \in tx.originally_absent : tx.snapshots[i] = Absent

(* A transaction that has ended succeeded with all files of the run, or was *)
(* rolled back.                                                             *)
EndedInv ==
    /\ tx.succeeded => committed = final /\ \A i \in Paths : final[i] = tx.content
    /\ tx.pc = "returned" => tx.succeeded
    /\ tx.pc \in {"cleanup", "raised"} /\ ~tx.succeeded => tx.unclean \/ final = tx.snapshots

PubInv ==
    /\ PubTypeOK
    /\ NothingIsLost
    /\ BackupInv
    /\ PublishInv
    /\ RollbackInv
    /\ SecuredInv
    /\ EndedInv

-----------------------------------------------------------------------------

LEMMA PathsAreInts == Paths \subseteq Int /\ Absent \in Nat
BY FilesAssumption DEF Paths, Absent

LEMMA PubInitInv == PubInit => PubInv
<1> SUFFICES ASSUME PubInit PROVE PubInv
  OBVIOUS
<1>1. tx = Idle /\ kept = {} /\ committed = final /\ final \in [Paths -> Nat]
  BY PathsAreInts DEF PubInit, Absent
<1>2. Idle \in Transactions
  BY FilesAssumption DEF Idle, Transactions, Absent
<1>3. PubTypeOK /\ NothingIsLost
  BY <1>1, <1>2 DEF PubTypeOK, NothingIsLost
<1> QED
  BY <1>1, <1>3 DEF PubInv, BackupInv, PublishInv, RollbackInv, SecuredInv, EndedInv, Unfinished,
                    Recorded, Idle

PCs == {"idle", "temporaries", "backup", "publish", "rollback", "cleanup", "returned", "raised"}

(* u is t with another counter, and at another place.                       *)
Resumes(t, u, pc, at) ==
    /\ u \in Transactions
    /\ u.pc = pc /\ u.at = at
    /\ u.content = t.content /\ u.snapshots = t.snapshots
    /\ u.backups = t.backups /\ u.originally_absent = t.originally_absent
    /\ u.published = t.published
    /\ u.succeeded <=> t.succeeded
    /\ u.unclean <=> t.unclean

LEMMA LoopResumes ==
    ASSUME NEW t \in Transactions, NEW pc \in PCs
    PROVE  Resumes(t, Loop(t, pc), pc, 1)
<1>1. Loop(t, pc) \in Transactions
  <2>1. 1 \in 1..(Files + 1)
    BY FilesAssumption
  <2> QED
    BY <2>1, Zenon DEF Loop, Transactions, PCs
<1> QED
  BY <1>1 DEF Loop, Transactions, Resumes

(* What is committed is on disk, whatever a transaction is about.           *)
LEMMA AtRest ==
    ASSUME PubInv, tx' \in Transactions, tx'.pc \in {"idle", "returned", "raised"}, ~tx'.succeeded,
           tx'.pc = "raised" => tx'.unclean \/ final' = tx'.snapshots,
           tx'.pc # "returned", \A i \in tx'.originally_absent : tx'.snapshots[i] = Absent,
           UNCHANGED <<final, kept, committed>>
    PROVE  PubInv'
BY DEF PubInv, PubTypeOK, NothingIsLost, BackupInv, PublishInv, RollbackInv, SecuredInv, EndedInv,
       Unfinished

LEMMA IdleInv ==
    ASSUME PubInv, tx' = Idle, UNCHANGED <<final, kept, committed>>
    PROVE  PubInv'
<1>1. Idle \in Transactions
  BY FilesAssumption DEF Idle, Transactions, Absent
<1> QED
  BY <1>1, AtRest DEF Idle

LEMMA BeginInv ==
    ASSUME PubInv, NEW content \in Nat, Begin(content)
    PROVE  PubInv'
<1>1. /\ tx' = [Idle EXCEPT !.pc = "temporaries", !.content = content, !.snapshots = final]
      /\ UNCHANGED <<final, kept, committed>>
  BY DEF Begin
<1>2. final \in [Paths -> Nat]
  BY DEF PubInv, PubTypeOK
<1>3. tx' \in Transactions
  <2>1. tx' = [pc |-> "temporaries", at |-> 1, content |-> content, snapshots |-> final,
               backups |-> {}, originally_absent |-> {}, published |-> {},
               succeeded |-> FALSE, unclean |-> FALSE]
    BY <1>1 DEF Idle
  <2> QED
    BY <1>2, <2>1, FilesAssumption DEF Transactions
<1>4. /\ tx'.pc = "temporaries" /\ tx'.snapshots = final /\ ~tx'.succeeded
      /\ tx'.backups = {} /\ tx'.originally_absent = {} /\ tx'.published = {}
  BY <1>1 DEF Idle
<1>5. PubTypeOK' /\ NothingIsLost'
  BY <1>1, <1>3 DEF PubInv, PubTypeOK, NothingIsLost
<1>6. \A i \in Paths : Held(i)'
  BY <1>1, <1>4 DEF PubInv, NothingIsLost, Held, Secured
<1> QED
  BY <1>1, <1>4, <1>5, <1>6 DEF PubInv, BackupInv, PublishInv, RollbackInv, SecuredInv, EndedInv,
                                Unfinished, Recorded

LEMMA WriteTemporariesInv ==
    ASSUME PubInv, WriteTemporaries
    PROVE  PubInv'
<1>1. /\ tx.pc = "temporaries" /\ tx \in Transactions
      /\ tx' \in {Loop(tx, "backup"), Loop(tx, "rollback")}
      /\ UNCHANGED <<final, kept, committed>>
  BY DEF WriteTemporaries, PubInv, PubTypeOK
<1>2. \E pc \in {"backup", "rollback"} : Resumes(tx, tx', pc, 1)
  BY <1>1, LoopResumes DEF PCs
<1>3. PubTypeOK' /\ NothingIsLost'
  BY <1>1, <1>2 DEF PubInv, PubTypeOK, NothingIsLost, Resumes
<1>4. /\ ~tx.succeeded /\ Recorded = {} /\ tx.published = {} /\ final = tx.snapshots
      /\ \A i \in Paths : Held(i)
  BY <1>1 DEF PubInv, SecuredInv, Unfinished
<1>5. \A i \in Paths : Held(i)'
  BY <1>1, <1>2, <1>4 DEF Held, Secured, Resumes
<1>6. Recorded' = {} /\ tx'.published = {} /\ final' = tx'.snapshots /\ ~tx'.succeeded
  BY <1>1, <1>2, <1>4 DEF Recorded, Resumes
<1>7. BackupInv' /\ PublishInv' /\ RollbackInv'
  BY <1>2, <1>6, PathsAreInts DEF BackupInv, PublishInv, RollbackInv, Paths, Resumes
<1>8. SecuredInv' /\ EndedInv'
  BY <1>2, <1>5, <1>6 DEF SecuredInv, EndedInv, Unfinished, Recorded, Resumes
<1> QED
  BY <1>3, <1>7, <1>8 DEF PubInv

LEMMA HeldIsNotLost ==
    ASSUME \A i \in Paths : Held(i)
    PROVE  NothingIsLost
BY DEF Held, Secured, NothingIsLost

(* A rollback may begin wherever everything is held and what was touched is  *)
(* secured.                                                                  *)
LEMMA RollbackBegins ==
    ASSUME PubTypeOK', tx'.pc = "rollback", tx'.at = 1, ~tx'.succeeded,
           \A i \in Paths : Held(i)',
           \A i \in Recorded' : Secured(i)',
           tx'.published \subseteq Recorded',
           tx'.unclean \/ \A i \in Paths : i \notin Recorded' => final'[i] = tx'.snapshots[i],
           \A i \in tx'.originally_absent : tx'.snapshots[i] = Absent
    PROVE  PubInv'
<1>1. NothingIsLost'
  BY HeldIsNotLost DEF Held, Secured, NothingIsLost
<1>2. BackupInv' /\ PublishInv' /\ EndedInv'
  BY DEF BackupInv, PublishInv, EndedInv
<1>3. RollbackInv'
  BY FilesAssumption DEF RollbackInv, Paths
<1>4. SecuredInv'
  BY DEF SecuredInv, Unfinished
<1> QED
  BY <1>1, <1>2, <1>3, <1>4 DEF PubInv

(* A destination that was missing, or is out of the way in its backup.       *)
LEMMA BackUpInv ==
    ASSUME PubInv, BackUp
    PROVE  PubInv'
<1> DEFINE i == tx.at
           next == [tx EXCEPT !.at = i + 1]
           moved == [next EXCEPT !.backups = @ \union {i}]
           absent == [next EXCEPT !.originally_absent = @ \union {i}]
           unnoticed == [Loop(tx, "rollback") EXCEPT !.unclean = TRUE]
<1>1. /\ tx.pc = "backup" /\ tx \in Transactions /\ i \in Paths /\ i \in 1..Files
      /\ final \in [Paths -> Nat] /\ kept \subseteq Paths \X Nat
      /\ UNCHANGED committed /\ committed \in [Paths -> Nat] /\ Paths \subseteq Int
  <2>1. tx \in Transactions /\ final \in [Paths -> Nat] /\ kept \subseteq Paths \X Nat
        /\ committed \in [Paths -> Nat]
    BY DEF PubInv, PubTypeOK
  <2>2. tx.pc = "backup" /\ tx.at <= Files /\ UNCHANGED committed
    BY DEF BackUp
  <2>3. tx.at \in 1..(Files + 1)
    BY <2>1 DEF Transactions
  <2> QED
    BY <2>1, <2>2, <2>3, PathsAreInts, FilesAssumption DEF Paths
<1>2. /\ ~tx.succeeded /\ tx.published = {} /\ Recorded = 1..(i - 1)
      /\ \A j \in Paths : Held(j)
      /\ \A j \in Recorded : Secured(j)
      /\ \A j \in Paths : j < i => final[j] = Absent
      /\ \A j \in Paths : j >= i => final[j] = tx.snapshots[j]
      /\ \A j \in tx.originally_absent : tx.snapshots[j] = Absent
  BY <1>1 DEF PubInv, BackupInv, SecuredInv, Unfinished
<1>3. i + 1 \in 1..(Files + 1) /\ tx.backups \union {i} \in SUBSET Paths
      /\ tx.originally_absent \union {i} \in SUBSET Paths /\ TRUE \in BOOLEAN
  BY <1>1, FilesAssumption DEF Transactions
<1>4. next \in Transactions
  BY <1>1, <1>3, Zenon DEF Transactions
<1>5. moved \in Transactions /\ absent \in Transactions
  <2>1. next.backups = tx.backups /\ next.originally_absent = tx.originally_absent
    BY <1>1 DEF Transactions
  <2> HIDE DEF next
  <2> QED
    BY <1>3, <1>4, <2>1, Zenon DEF Transactions
<1>6. Resumes(tx, Loop(tx, "rollback"), "rollback", 1)
  BY <1>1, LoopResumes DEF PCs
<1>7. Resumes(moved, Loop(moved, "rollback"), "rollback", 1)
  BY <1>5, LoopResumes DEF PCs
<1>8. unnoticed \in Transactions
  BY <1>3, <1>6, Zenon DEF Transactions, Resumes
<1>9. /\ next.pc = "backup" /\ next.at = i + 1 /\ next.content = tx.content
      /\ next.snapshots = tx.snapshots /\ next.published = {} /\ ~next.succeeded
      /\ next.backups = tx.backups /\ next.originally_absent = tx.originally_absent
  BY <1>1, <1>2 DEF Transactions
<1>10. CASE tx' = Loop(tx, "rollback") /\ UNCHANGED <<final, kept>>
  <2>1. Resumes(tx, tx', "rollback", 1)
    BY <1>6, <1>10
  <2> HIDE DEF next, moved, absent, unnoticed
  <2>2. PubTypeOK' /\ Recorded' = Recorded /\ tx'.published = {} /\ tx'.snapshots = tx.snapshots
    BY <1>1, <1>2, <1>10, <2>1 DEF PubTypeOK, Recorded, Resumes
  <2>3. \A j \in Paths : Held(j)'
    BY <1>1, <1>2, <1>10, <2>2 DEF Held, Secured
  <2>4. \A j \in Recorded' : Secured(j)'
    BY <1>1, <1>2, <1>10, <2>2 DEF Secured
  <2>5. \A j \in Paths : j \notin Recorded' => final'[j] = tx'.snapshots[j]
    BY <1>1, <1>2, <1>10, <2>2, FilesAssumption DEF Paths
  <2>6. /\ tx'.pc = "rollback" /\ tx'.at = 1 /\ ~tx'.succeeded
        /\ \A j \in tx'.originally_absent : tx'.snapshots[j] = Absent
    BY <1>2, <2>1 DEF Resumes
  <2> QED
    BY <2>2, <2>3, <2>4, <2>5, <2>6, RollbackBegins
<1>11. CASE final[i] = Absent /\ tx' = absent /\ UNCHANGED <<final, kept>>
  <2>1. /\ tx' \in Transactions /\ tx'.pc = "backup" /\ tx'.at = i + 1 /\ tx'.content = tx.content
        /\ tx'.snapshots = tx.snapshots /\ tx'.published = {} /\ ~tx'.succeeded
        /\ tx'.backups = tx.backups /\ tx'.originally_absent = tx.originally_absent \union {i}
    BY <1>4, <1>5, <1>9, <1>11 DEF Transactions
  <2> HIDE DEF next, moved, absent, unnoticed
  <2>2. PubTypeOK' /\ Recorded' = Recorded \union {i}
    BY <1>1, <1>11, <2>1 DEF PubTypeOK, Recorded
  <2>3. \A j \in Paths : Held(j)'
    BY <1>1, <1>2, <1>11, <2>1 DEF Held, Secured
  <2>4. \A j \in Recorded' : Secured(j)'
    BY <1>1, <1>2, <1>11, <2>2 DEF Secured, Held
  <2>5. BackupInv'
    BY <1>1, <1>2, <1>11, <2>1, <2>2, FilesAssumption, SMTT(30) DEF BackupInv, Paths
  <2>6. SecuredInv'
    BY <1>1, <1>2, <1>11, <2>1, <2>3, <2>4 DEF SecuredInv, Unfinished
  <2>7. PublishInv' /\ RollbackInv' /\ EndedInv' /\ NothingIsLost'
    BY <1>1, <1>11, <2>1 DEF PublishInv, RollbackInv, EndedInv, NothingIsLost, PubInv
  <2> QED
    BY <2>2, <2>5, <2>6, <2>7 DEF PubInv
<1>12. CASE /\ final' = [final EXCEPT ![i] = Absent]
            /\ kept' = kept \union {<<i, final[i]>>}
            /\ tx' \in {moved, Loop(moved, "rollback"), unnoticed}
  <2>1. /\ tx' \in Transactions /\ tx'.content = tx.content
        /\ tx'.snapshots = tx.snapshots /\ tx'.published = {} /\ ~tx'.succeeded
        /\ tx'.originally_absent = tx.originally_absent
        /\ \/ /\ tx'.pc = "backup" /\ tx'.at = i + 1
              /\ tx'.backups = tx.backups \union {i}
           \/ /\ tx'.pc = "rollback" /\ tx'.at = 1
              /\ \/ tx'.backups = tx.backups \union {i}
                 \/ tx'.backups = tx.backups /\ tx'.unclean
    <3>1. CASE tx' = moved
      BY <1>4, <1>5, <1>9, <3>1 DEF Transactions
    <3>2. CASE tx' = Loop(moved, "rollback")
      <4>1. moved.content = tx.content /\ moved.snapshots = tx.snapshots /\ moved.published = {}
            /\ ~moved.succeeded /\ moved.originally_absent = tx.originally_absent
            /\ moved.backups = tx.backups \union {i}
        BY <1>4, <1>9 DEF Transactions
      <4> QED
        BY <1>7, <3>2, <4>1 DEF Resumes
    <3>3. CASE tx' = unnoticed
      <4>1. /\ unnoticed.pc = "rollback" /\ unnoticed.at = 1 /\ unnoticed.content = tx.content
            /\ unnoticed.snapshots = tx.snapshots /\ unnoticed.published = {} /\ ~unnoticed.succeeded
            /\ unnoticed.originally_absent = tx.originally_absent
            /\ unnoticed.backups = tx.backups /\ unnoticed.unclean
        BY <1>2, <1>6 DEF Resumes, Transactions
      <4> QED
        BY <1>8, <3>3, <4>1
    <3> QED
      BY <1>12, <3>1, <3>2, <3>3
  <2> HIDE DEF next, moved, absent, unnoticed
  <2>2. /\ final' \in [Paths -> Nat] /\ kept' \subseteq Paths \X Nat /\ kept \subseteq kept'
        /\ final'[i] = Absent /\ \A j \in Paths : j # i => final'[j] = final[j]
        /\ <<i, final[i]>> \in kept'
        /\ \A j \in Paths : j > i => final'[j] = tx'.snapshots[j]
        /\ \A j \in Paths : j =< i => final'[j] = Absent
    <3>1. /\ final' \in [Paths -> Nat] /\ kept' \subseteq Paths \X Nat /\ kept \subseteq kept'
          /\ final'[i] = Absent /\ \A j \in Paths : j # i => final'[j] = final[j]
          /\ <<i, final[i]>> \in kept'
      BY <1>1, <1>12, PathsAreInts
    <3>2. \A j \in Paths : j > i => final'[j] = tx'.snapshots[j]
      BY <1>1, <1>2, <2>1, <3>1
    <3>3. \A j \in Paths : j =< i => final'[j] = Absent
      <4> SUFFICES ASSUME NEW j \in Paths, j =< i PROVE final'[j] = Absent
        OBVIOUS
      <4>1. j < i \/ j = i
        BY <1>1
      <4>2. CASE j < i
        BY <1>1, <1>2, <3>1, <4>2
      <4>3. CASE j = i
        BY <3>1, <4>3
      <4> QED
        BY <4>1, <4>2, <4>3
    <3> QED
      BY <3>1, <3>2, <3>3
  <2>3. PubTypeOK'
    BY <1>1, <2>1, <2>2 DEF PubTypeOK
  <2>4. \A j \in Paths : Held(j)'
    BY <1>1, <1>2, <2>1, <2>2 DEF Held, Secured
  <2>5. \A j \in Recorded \union {i} : Secured(j)'
    BY <1>1, <1>2, <2>2 DEF Held, Secured
  <2>6. Recorded' \in {Recorded, Recorded \union {i}}
    BY <2>1 DEF Recorded
  <2>7. CASE tx'.pc = "rollback"
    <3>1. tx'.unclean \/ \A j \in Paths : j \notin Recorded' => final'[j] = tx'.snapshots[j]
      <4>1. Recorded' = Recorded \union {i} \/ tx'.unclean
        BY <2>1, <2>7 DEF Recorded
      <4> QED
        <5>1. \A j \in Paths : j \notin Recorded \union {i} => j > i
          BY <1>1, <1>2, FilesAssumption DEF Paths
        <5> QED
          BY <2>2, <4>1, <5>1
    <3> QED
      BY <1>2, <2>1, <2>3, <2>4, <2>5, <2>6, <2>7, <3>1, RollbackBegins
  <2>8. CASE tx'.pc = "backup"
    <3>1. Recorded' = Recorded \union {i}
      BY <2>1, <2>8 DEF Recorded
    <3>2. BackupInv'
      <4>1. Recorded' = 1..(tx'.at - 1)
        BY <1>1, <1>2, <2>1, <2>8, <3>1
      <4>2. /\ \A j \in Paths : j < tx'.at => final'[j] = Absent
            /\ \A j \in Paths : j >= tx'.at => final'[j] = tx'.snapshots[j]
        BY <1>1, <2>1, <2>2, <2>8
      <4> QED
        BY <2>1, <4>1, <4>2 DEF BackupInv
    <3>3. SecuredInv'
      BY <1>2, <2>1, <2>4, <2>5, <2>8, <3>1 DEF SecuredInv, Unfinished
    <3>4. PublishInv' /\ RollbackInv' /\ EndedInv'
      BY <2>1, <2>8 DEF PublishInv, RollbackInv, EndedInv
    <3>5. NothingIsLost'
      BY <2>4 DEF Held, Secured, NothingIsLost
    <3> QED
      BY <2>3, <3>2, <3>3, <3>4, <3>5 DEF PubInv
  <2> QED
    BY <2>1, <2>7, <2>8
<1> QED
  BY <1>10, <1>11, <1>12 DEF BackUp

LEMMA BackedUpInv ==
    ASSUME PubInv, BackedUp
    PROVE  PubInv'
<1>1. /\ tx.pc = "backup" /\ tx.at = Files + 1 /\ tx \in Transactions
      /\ tx' = Loop(tx, "publish") /\ UNCHANGED <<final, kept, committed>>
  BY DEF BackedUp, PubInv, PubTypeOK
<1>2. Resumes(tx, tx', "publish", 1)
  BY <1>1, LoopResumes DEF PCs
<1>3. PubTypeOK' /\ NothingIsLost'
  BY <1>1, <1>2 DEF PubInv, PubTypeOK, NothingIsLost, Resumes
<1>4. /\ ~tx.succeeded /\ tx.published = {} /\ Recorded = Paths
      /\ \A j \in Paths : Held(j)
      /\ \A j \in Recorded : Secured(j)
      /\ \A j \in Paths : final[j] = Absent
      /\ \A j \in tx.originally_absent : tx.snapshots[j] = Absent
  BY <1>1, FilesAssumption DEF PubInv, BackupInv, SecuredInv, Unfinished, Paths
<1>5. /\ Recorded' = Paths /\ tx'.pc = "publish" /\ tx'.at = 1 /\ ~tx'.succeeded
      /\ tx'.originally_absent = tx.originally_absent /\ tx'.snapshots = tx.snapshots
  BY <1>2, <1>4 DEF Recorded, Resumes
<1>6. PublishInv'
  BY <1>1, <1>4, <1>5, FilesAssumption DEF PublishInv, Paths
<1>7. SecuredInv'
  BY <1>1, <1>4, <1>5 DEF SecuredInv, Held, Secured, Unfinished
<1>8. BackupInv' /\ RollbackInv' /\ EndedInv'
  BY <1>5 DEF BackupInv, RollbackInv, EndedInv
<1> QED
  BY <1>3, <1>6, <1>7, <1>8 DEF PubInv

(* A published destination had been emptied; the last one ends the loop.     *)
LEMMA PublishStepInv ==
    ASSUME PubInv, Publish
    PROVE  PubInv'
<1> DEFINE i == tx.at
           done == [tx EXCEPT !.at = i + 1, !.published = @ \union {i}]
           last == [Loop(done, "cleanup") EXCEPT !.succeeded = TRUE]
<1>1. /\ tx.pc = "publish" /\ tx \in Transactions /\ final \in [Paths -> Nat]
      /\ kept \subseteq Paths \X Nat /\ committed \in [Paths -> Nat] /\ UNCHANGED kept
      /\ i \in Paths /\ i \in 1..Files /\ tx.content \in Nat /\ Paths \subseteq Int
  <2>1. tx \in Transactions /\ final \in [Paths -> Nat] /\ kept \subseteq Paths \X Nat
        /\ committed \in [Paths -> Nat]
    BY DEF PubInv, PubTypeOK
  <2>2. tx.pc = "publish" /\ UNCHANGED kept
    BY DEF Publish
  <2>3. tx.at \in 1..(Files + 1) /\ tx.at =< Files /\ tx.content \in Nat
    BY <2>1, <2>2 DEF Transactions, PubInv, PublishInv
  <2> QED
    BY <2>1, <2>2, <2>3, PathsAreInts, FilesAssumption DEF Paths
<1>2. /\ ~tx.succeeded /\ Recorded = Paths
      /\ \A j \in Paths : Held(j)
      /\ \A j \in Paths : Secured(j)
      /\ \A j \in Paths : j < i => final[j] = tx.content
      /\ \A j \in Paths : j >= i => final[j] = Absent
      /\ \A j \in tx.originally_absent : tx.snapshots[j] = Absent
  BY <1>1 DEF PubInv, PublishInv, SecuredInv, Unfinished
<1>3. i + 1 \in 1..(Files + 1) /\ tx.published \union {i} \in SUBSET Paths /\ TRUE \in BOOLEAN
  BY <1>1, FilesAssumption DEF Transactions
<1>4. done \in Transactions
  BY <1>1, <1>3, Zenon DEF Transactions
<1>5. Resumes(tx, Loop(tx, "rollback"), "rollback", 1)
  BY <1>1, LoopResumes DEF PCs
<1>6. /\ Resumes(done, Loop(done, "rollback"), "rollback", 1)
      /\ Resumes(done, Loop(done, "cleanup"), "cleanup", 1)
  BY <1>4, LoopResumes DEF PCs
<1>7. last \in Transactions
  BY <1>3, <1>6, Zenon DEF Transactions, Resumes
<1>8. /\ done.pc = "publish" /\ done.at = i + 1 /\ done.content = tx.content
      /\ done.snapshots = tx.snapshots /\ done.published = tx.published \union {i} /\ ~done.succeeded
      /\ done.backups = tx.backups /\ done.originally_absent = tx.originally_absent
  BY <1>1, <1>2 DEF Transactions
<1>9. /\ last.pc = "cleanup" /\ last.content = tx.content /\ last.succeeded
      /\ last.snapshots = tx.snapshots /\ last.originally_absent = tx.originally_absent
  <2> HIDE DEF done
  <2> QED
    BY <1>6, <1>8 DEF Resumes, Transactions
<1>10. /\ tx' \in {Loop(tx, "rollback"), Loop(done, "rollback"), done, last}
       /\ tx' = done => i < Files
       /\ tx' = last => i = Files
       /\ tx' \in {done, last} => final' = [final EXCEPT ![i] = tx.content]
       /\ final' \in {final, [final EXCEPT ![i] = tx.content]}
       /\ committed' = IF tx'.succeeded THEN final' ELSE committed
  <2>1. /\ ~Loop(tx, "rollback").succeeded /\ ~Loop(done, "rollback").succeeded
        /\ Loop(tx, "rollback").pc = "rollback" /\ Loop(done, "rollback").pc = "rollback"
        /\ done.pc = "publish" /\ last.pc = "cleanup"
    BY <1>2, <1>5, <1>6, <1>8, <1>9 DEF Resumes
  <2>2. ~done.succeeded /\ last.succeeded /\ i \in 1..Files /\ Files \in Nat
    BY <1>1, <1>8, <1>9, FilesAssumption
  <2> HIDE DEF i, done, last
  <2>3. \/ tx' = Loop(tx, "rollback") /\ UNCHANGED <<final, committed>>
        \/ /\ final' = [final EXCEPT ![i] = tx.content]
           /\ tx' \in {IF i < Files THEN done ELSE last, Loop(tx, "rollback"), Loop(done, "rollback")}
           /\ committed' = IF tx'.succeeded THEN final' ELSE committed
    BY DEF Publish, i, done, last
  <2>4. CASE tx' = Loop(tx, "rollback")
    BY <2>1, <2>2, <2>3, <2>4
  <2>5. CASE tx' = Loop(done, "rollback")
    BY <2>1, <2>2, <2>3, <2>5
  <2>6. CASE tx' = done /\ i < Files
    BY <2>1, <2>2, <2>3, <2>6
  <2>7. CASE tx' = last /\ ~(i < Files)
    <3>1. i = Files
      BY <2>2, <2>7
    <3>2. final' = [final EXCEPT ![i] = tx.content]
      BY <2>1, <2>2, <2>3, <2>7
    <3>3. committed' = IF tx'.succeeded THEN final' ELSE committed
      BY <2>1, <2>2, <2>3, <2>7
    <3> QED
      BY <2>1, <2>2, <2>7, <3>1, <3>2, <3>3
  <2> QED
    BY <2>3, <2>4, <2>5, <2>6, <2>7
<1>11. /\ final' \in [Paths -> Nat]
       /\ \A j \in Paths : j # i => final'[j] = final[j]
       /\ final'[i] \in {final[i], tx.content}
       /\ tx' \in {done, last} => final'[i] = tx.content
  <2> HIDE DEF i, done, last
  <2> QED
    BY <1>1, <1>10
<1>12. \A j \in Paths : ~tx'.succeeded => Secured(j)'
  BY <1>1, <1>2, <1>10 DEF Secured
<1> HIDE DEF done, last
<1>13. CASE tx' = Loop(tx, "rollback") \/ tx' = Loop(done, "rollback")
  <2>1. /\ tx' \in Transactions /\ tx'.pc = "rollback" /\ tx'.at = 1 /\ ~tx'.succeeded
        /\ tx'.snapshots = tx.snapshots /\ tx'.published \subseteq Paths
        /\ tx'.backups = tx.backups /\ tx'.originally_absent = tx.originally_absent
    BY <1>1, <1>2, <1>5, <1>6, <1>8, <1>13 DEF Resumes, Transactions
  <2>2. Recorded' = Paths
    BY <1>2, <2>1 DEF Recorded
  <2>3. PubTypeOK'
    BY <1>1, <1>10, <1>11, <2>1 DEF PubTypeOK
  <2>4. \A j \in Paths : Held(j)' /\ Secured(j)'
    BY <1>12, <2>1 DEF Held
  <2> QED
    BY <1>2, <2>1, <2>2, <2>3, <2>4, RollbackBegins
<1>14. CASE tx' = done
  <2>1. /\ tx' \in Transactions /\ tx'.pc = "publish" /\ tx'.at = i + 1 /\ ~tx'.succeeded
        /\ tx'.content = tx.content /\ tx'.snapshots = tx.snapshots /\ i < Files
        /\ tx'.backups = tx.backups /\ tx'.originally_absent = tx.originally_absent
    BY <1>4, <1>8, <1>10, <1>14
  <2>2. Recorded' = Paths
    BY <1>2, <2>1 DEF Recorded
  <2>3. PubTypeOK'
    BY <1>1, <1>10, <1>11, <2>1 DEF PubTypeOK
  <2>4. \A j \in Paths : Held(j)' /\ Secured(j)'
    BY <1>12, <2>1 DEF Held
  <2>5. PublishInv'
    <3>1. \A j \in Paths : j < i + 1 => final'[j] = tx.content
      <4> SUFFICES ASSUME NEW j \in Paths, j < i + 1 PROVE final'[j] = tx.content
        OBVIOUS
      <4>1. CASE j = i
        BY <1>11, <1>14, <4>1
      <4>2. CASE j # i
        BY <1>1, <1>2, <1>11, <4>2
      <4> QED
        BY <4>1, <4>2
    <3>2. \A j \in Paths : j >= i + 1 => final'[j] = Absent
      BY <1>1, <1>2, <1>11
    <3>3. i + 1 =< Files
      BY <1>1, <2>1, FilesAssumption
    <3> QED
      BY <2>1, <2>2, <3>1, <3>2, <3>3 DEF PublishInv
  <2>6. SecuredInv'
    BY <1>2, <2>1, <2>2, <2>4 DEF SecuredInv, Unfinished
  <2>7. BackupInv' /\ RollbackInv' /\ EndedInv'
    BY <2>1 DEF BackupInv, RollbackInv, EndedInv
  <2>8. NothingIsLost'
    BY <2>4 DEF Secured, NothingIsLost
  <2> QED
    BY <2>3, <2>5, <2>6, <2>7, <2>8 DEF PubInv
<1>15. CASE tx' = last
  <2>1. /\ tx' \in Transactions /\ tx'.pc = "cleanup" /\ tx'.succeeded /\ tx'.content = tx.content
        /\ tx'.snapshots = tx.snapshots /\ tx'.originally_absent = tx.originally_absent
        /\ committed' = final' /\ i = Files
    BY <1>7, <1>9, <1>10, <1>15
  <2>2. PubTypeOK' /\ NothingIsLost'
    BY <1>1, <1>11, <2>1 DEF PubTypeOK, NothingIsLost
  <2>3. \A j \in Paths : final'[j] = tx.content
    <3> SUFFICES ASSUME NEW j \in Paths PROVE final'[j] = tx.content
      OBVIOUS
    <3>1. CASE j = i
      BY <1>11, <1>15, <3>1
    <3>2. CASE j # i
      BY <1>1, <1>2, <1>11, <2>1, <3>2 DEF Paths
    <3> QED
      BY <3>1, <3>2
  <2> QED
    BY <1>2, <2>1, <2>2, <2>3
    DEF PubInv, BackupInv, PublishInv, RollbackInv, SecuredInv, EndedInv, Unfinished
<1> QED
  BY <1>10, <1>13, <1>14, <1>15

(* A destination is restored from its backup, emptied because it was missing *)
(* before, or left as the snapshot saw it; else the rollback is unclean.     *)
LEMMA RollBackInv ==
    ASSUME PubInv, RollBack
    PROVE  PubInv'
<1>a. /\ tx.pc = "rollback" /\ tx.at =< Files /\ UNCHANGED committed
      /\ tx \in Transactions /\ final \in [Paths -> Nat] /\ kept \subseteq Paths \X Nat
      /\ committed \in [Paths -> Nat]
  BY DEF PubInv, PubTypeOK, RollBack
<1>b. PICK i \in 1..Files : i = tx.at
  BY <1>a, FilesAssumption DEF Transactions
<1> DEFINE next == [tx EXCEPT !.at = i + 1]
           failed == [next EXCEPT !.unclean = TRUE]
           gone == [final EXCEPT ![i] = Absent]
           restored == [next EXCEPT !.backups = @ \ {i}]
           halfway == [failed EXCEPT !.backups = @ \ {i}]
<1>1. /\ tx.pc = "rollback" /\ tx \in Transactions /\ final \in [Paths -> Nat]
      /\ kept \subseteq Paths \X Nat /\ committed \in [Paths -> Nat] /\ UNCHANGED committed
      /\ tx.at = i /\ i \in Paths /\ i \in 1..Files /\ Paths \subseteq Int
      /\ tx.snapshots \in [Paths -> Nat]
  BY <1>a, <1>b, PathsAreInts DEF Paths, Transactions
<1>2. /\ ~tx.succeeded
      /\ \A j \in Paths : Held(j)
      /\ \A j \in Recorded : j >= i => Secured(j)
      /\ \A j \in Paths : j >= i /\ j \in tx.published => j \in Recorded
      /\ tx.unclean \/ \A j \in Paths : j < i \/ j \notin Recorded => final[j] = tx.snapshots[j]
      /\ \A j \in tx.originally_absent : tx.snapshots[j] = Absent
  BY <1>1 DEF PubInv, SecuredInv, RollbackInv, Unfinished
<1>3. i + 1 \in 1..(Files + 1) /\ tx.backups \ {i} \in SUBSET Paths /\ TRUE \in BOOLEAN
  BY <1>1, FilesAssumption DEF Transactions
<1>4. next \in Transactions
  BY <1>1, <1>3, Zenon DEF Transactions
<1>5. failed \in Transactions
  <2> HIDE DEF next
  <2> QED
    BY <1>3, <1>4, Zenon DEF Transactions
<1>6. /\ next.pc = "rollback" /\ next.at = i + 1 /\ next.content = tx.content
      /\ next.snapshots = tx.snapshots /\ next.published = tx.published /\ ~next.succeeded
      /\ next.backups = tx.backups /\ next.originally_absent = tx.originally_absent
      /\ next.unclean <=> tx.unclean
  BY <1>1, <1>2 DEF Transactions
<1>7. /\ failed.pc = "rollback" /\ failed.at = i + 1 /\ failed.content = tx.content
      /\ failed.snapshots = tx.snapshots /\ failed.published = tx.published /\ ~failed.succeeded
      /\ failed.backups = tx.backups /\ failed.originally_absent = tx.originally_absent
      /\ failed.unclean
  <2> HIDE DEF next
  <2> QED
    BY <1>4, <1>6 DEF Transactions
<1>8. restored \in Transactions /\ halfway \in Transactions
  <2> HIDE DEF next, failed
  <2> QED
    BY <1>3, <1>4, <1>5, <1>6, <1>7, Zenon DEF Transactions
<1>9. /\ restored.pc = "rollback" /\ restored.at = i + 1
      /\ restored.snapshots = tx.snapshots /\ restored.published = tx.published /\ ~restored.succeeded
      /\ restored.backups = tx.backups \ {i} /\ restored.originally_absent = tx.originally_absent
      /\ restored.unclean <=> tx.unclean
  <2> HIDE DEF next, failed
  <2> QED
    BY <1>4, <1>6 DEF Transactions
<1>10. /\ halfway.pc = "rollback" /\ halfway.at = i + 1
       /\ halfway.snapshots = tx.snapshots /\ halfway.published = tx.published /\ ~halfway.succeeded
       /\ halfway.backups = tx.backups \ {i} /\ halfway.originally_absent = tx.originally_absent
       /\ halfway.unclean
  <2> HIDE DEF next, failed
  <2> QED
    BY <1>5, <1>7 DEF Transactions
<1>11. \/ /\ i \notin tx.published \union tx.backups \union tx.originally_absent
          /\ tx' = next
          /\ UNCHANGED <<final, kept>>
       \/ /\ i \in tx.published \union tx.backups \union tx.originally_absent
          /\ tx' = failed
          /\ final' \in {final, gone}
          /\ UNCHANGED kept
       \/ /\ i \in tx.backups
          /\ final' = [final EXCEPT ![i] = tx.snapshots[i]]
          /\ kept' = kept \ BackupOf(i)
          /\ tx' \in {restored, halfway}
       \/ /\ i \in (tx.published \union tx.originally_absent) \ tx.backups
          /\ final' = gone
          /\ tx' \in {next, failed}
          /\ UNCHANGED kept
  BY <1>b DEF RollBack
<1> HIDE DEF next, failed, restored, halfway
(* What each of the four branches leaves.                                    *)
<1>12. /\ tx' \in Transactions /\ tx'.pc = "rollback" /\ tx'.at = i + 1 /\ ~tx'.succeeded
       /\ tx'.snapshots = tx.snapshots /\ tx'.published = tx.published
       /\ tx'.originally_absent = tx.originally_absent
       /\ tx'.backups \in {tx.backups, tx.backups \ {i}}
       /\ tx'.unclean \/ (~tx'.unclean /\ tx' \in {next, restored})
  BY <1>4, <1>5, <1>6, <1>7, <1>8, <1>9, <1>10, <1>11
<1>13. /\ final' \in [Paths -> Nat] /\ kept' \subseteq kept
       /\ \A j \in Paths : j # i => final'[j] = final[j]
       /\ \A j \in Paths, c \in Nat : j # i /\ <<j, c>> \in kept => <<j, c>> \in kept'
  BY <1>1, <1>11, PathsAreInts DEF BackupOf
<1>14. \A j \in Paths : j # i => (Secured(j) => Secured(j)') /\ (Held(j) => Held(j)')
  BY <1>1, <1>12, <1>13 DEF Secured, Held
<1>15. Held(i)'
  <2>1. CASE UNCHANGED <<final, kept>>
    BY <1>1, <1>2, <1>12, <2>1 DEF Held, Secured
  <2>2. CASE /\ i \in tx.published \union tx.backups \union tx.originally_absent
             /\ UNCHANGED kept
    <3>1. Secured(i)
      BY <1>1, <1>2, <2>2 DEF Recorded
    <3> QED
      BY <1>1, <2>2, <3>1 DEF Held, Secured
  <2>3. CASE /\ i \in tx.backups
             /\ final' = [final EXCEPT ![i] = tx.snapshots[i]]
             /\ kept' = kept \ BackupOf(i)
    <3>1. Secured(i) /\ final'[i] = tx.snapshots[i]
      BY <1>1, <1>2, <2>3 DEF Recorded
    <3>2. CASE committed[i] = tx.snapshots[i]
      BY <1>1, <1>12, <3>1, <3>2 DEF Held
    <3>3. CASE committed[i] # tx.snapshots[i]
      BY <1>1, <2>3, <3>1, <3>3 DEF Held, Secured, BackupOf
    <3> QED
      BY <3>2, <3>3
  <2> QED
    BY <1>11, <2>1, <2>2, <2>3
<1>16. \A j \in Paths : Held(j)'
  BY <1>2, <1>14, <1>15
<1>17. /\ Recorded' \subseteq Recorded /\ Recorded \subseteq Recorded' \union {i}
       /\ Recorded \subseteq Paths
  BY <1>1, <1>12 DEF Recorded, Transactions
<1>18. \A j \in Recorded' : j >= i + 1 => Secured(j)'
  BY <1>1, <1>2, <1>14, <1>17
<1>19. ~tx'.unclean => \A j \in Paths : j < i + 1 \/ j \notin Recorded' => final'[j] = tx'.snapshots[j]
  <2> SUFFICES ASSUME ~tx'.unclean PROVE \A j \in Paths : j < i + 1 \/ j \notin Recorded' => final'[j] = tx.snapshots[j]
    BY <1>12
  <2>1. tx' \in {next, restored}
    BY <1>12
  <2>2. ~tx.unclean
    BY <1>6, <1>9, <2>1
  <2>3. \A j \in Paths : j < i \/ j \notin Recorded => final[j] = tx.snapshots[j]
    BY <1>2, <2>2
  <2>4. final'[i] = tx.snapshots[i]
    <3>1. CASE i \notin Recorded /\ UNCHANGED final
      BY <1>1, <2>3, <3>1
    <3>2. CASE i \in tx.backups /\ final' = [final EXCEPT ![i] = tx.snapshots[i]]
      BY <1>1, <3>2
    <3>3. CASE i \in (tx.published \union tx.originally_absent) \ tx.backups /\ final' = gone
      <4>1. i \in tx.originally_absent
        BY <1>1, <1>2, <3>3 DEF Recorded
      <4> QED
        BY <1>1, <1>2, <3>3, <4>1
    <3>4. tx' # failed /\ tx' # halfway
      BY <1>7, <1>10
    <3> QED
      BY <1>11, <3>1, <3>2, <3>3, <3>4 DEF Recorded
  <2> SUFFICES ASSUME NEW j \in Paths, j < i + 1 \/ j \notin Recorded' PROVE final'[j] = tx.snapshots[j]
    OBVIOUS
  <2>5. CASE j = i
    BY <2>4, <2>5
  <2>6. CASE j # i
    BY <1>1, <1>13, <1>17, <2>3, <2>6
  <2> QED
    BY <2>5, <2>6
<1>20. PubTypeOK'
  BY <1>1, <1>12, <1>13 DEF PubTypeOK
<1>21. RollbackInv'
  <2>1. \A j \in Paths : j >= i + 1 /\ j \in tx'.published => j \in Recorded'
    BY <1>1, <1>2, <1>12, <1>17
  <2> QED
    BY <1>12, <1>19, <2>1 DEF RollbackInv
<1>22. SecuredInv'
  BY <1>2, <1>12, <1>16, <1>18 DEF SecuredInv, Unfinished
<1>23. BackupInv' /\ PublishInv' /\ EndedInv'
  BY <1>12 DEF BackupInv, PublishInv, EndedInv
<1>24. NothingIsLost'
  BY <1>16 DEF NothingIsLost, Held, Secured
<1> QED
  BY <1>20, <1>21, <1>22, <1>23, <1>24 DEF PubInv

LEMMA RolledBackInv ==
    ASSUME PubInv, RolledBack
    PROVE  PubInv'
<1>1. /\ tx.pc = "rollback" /\ tx.at = Files + 1 /\ tx \in Transactions
      /\ tx' = Loop(tx, "cleanup") /\ UNCHANGED <<final, kept, committed>>
      /\ final \in [Paths -> Nat] /\ tx.snapshots \in [Paths -> Nat]
  BY DEF RolledBack, PubInv, PubTypeOK, Transactions
<1>2. Resumes(tx, tx', "cleanup", 1)
  BY <1>1, LoopResumes DEF PCs
<1>3. PubTypeOK' /\ NothingIsLost'
  BY <1>1, <1>2 DEF PubInv, PubTypeOK, NothingIsLost, Resumes
<1>4. ~tx.succeeded /\ \A j \in tx.originally_absent : tx.snapshots[j] = Absent
  BY <1>1 DEF PubInv, SecuredInv, Unfinished
<1>5. tx.unclean \/ final = tx.snapshots
  <2> SUFFICES ASSUME ~tx.unclean PROVE final = tx.snapshots
    OBVIOUS
  <2>1. \A j \in Paths : final[j] = tx.snapshots[j]
    BY <1>1, FilesAssumption DEF PubInv, RollbackInv, Paths
  <2> QED
    BY <1>1, <2>1
<1> QED
  BY <1>1, <1>2, <1>3, <1>4, <1>5
  DEF PubInv, BackupInv, PublishInv, RollbackInv, SecuredInv, EndedInv, Unfinished, Resumes

(* Backups go only after a success, when the destinations hold everything.   *)
LEMMA CleanUpInv ==
    ASSUME PubInv, CleanUp
    PROVE  PubInv'
<1>1. /\ tx.pc = "cleanup" /\ tx \in Transactions /\ UNCHANGED <<final, committed>>
      /\ kept \subseteq Paths \X Nat
  BY DEF CleanUp, PubInv, PubTypeOK
<1>2. /\ kept' \subseteq kept
      /\ ~tx.succeeded => kept' = kept
      /\ \/ tx' = [tx EXCEPT !.pc = "raised"]
         \/ tx.succeeded /\ tx' = [tx EXCEPT !.pc = "returned"]
  <2> DEFINE backups == UNION {BackupOf(i) : i \in Paths}
  <2>1. backups \subseteq kept
    BY DEF BackupOf
  <2>2. PICK left \in IF tx.succeeded THEN SUBSET backups ELSE {backups} :
          /\ kept' = (kept \ backups) \union left
          /\ tx' = [tx EXCEPT !.pc = IF tx.succeeded /\ left = {} THEN "returned" ELSE "raised"]
    BY DEF CleanUp
  <2> HIDE DEF backups
  <2>3. CASE tx.succeeded
    BY <2>1, <2>2, <2>3
  <2>4. CASE ~tx.succeeded
    BY <2>1, <2>2, <2>4
  <2> QED
    BY <2>3, <2>4
<1>3. /\ tx' \in Transactions /\ tx'.pc \in {"returned", "raised"}
      /\ tx'.content = tx.content /\ tx'.snapshots = tx.snapshots
      /\ tx'.originally_absent = tx.originally_absent
      /\ tx'.succeeded <=> tx.succeeded
      /\ tx'.unclean <=> tx.unclean
      /\ tx'.pc = "returned" => tx.succeeded
  BY <1>1, <1>2 DEF Transactions
<1>4. NothingIsLost'
  <2>1. CASE tx.succeeded
    BY <1>1, <2>1 DEF PubInv, EndedInv, NothingIsLost
  <2>2. CASE ~tx.succeeded
    BY <1>1, <1>2, <2>2 DEF PubInv, NothingIsLost
  <2> QED
    BY <2>1, <2>2
<1>5. PubTypeOK'
  BY <1>1, <1>2, <1>3 DEF PubInv, PubTypeOK
<1>6. EndedInv'
  BY <1>1, <1>3 DEF PubInv, EndedInv
<1> QED
  BY <1>1, <1>3, <1>4, <1>5, <1>6 DEF PubInv, BackupInv, PublishInv, RollbackInv, SecuredInv, Unfinished

LEMMA PublicationStepInv ==
    ASSUME PubInv, PublicationStep
    PROVE  PubInv'
BY WriteTemporariesInv, BackUpInv, BackedUpInv, PublishStepInv, RollBackInv, RolledBackInv, CleanUpInv
DEF PublicationStep

LEMMA PubInvImplies == PubInv => PublicationIsRecoverable
<1> SUFFICES ASSUME PubInv PROVE PublicationIsRecoverable
  OBVIOUS
<1>1. NothingIsLost
  BY DEF PubInv
<1>2. tx.pc = "returned" => \A i \in Paths : final[i] = tx.content
  BY DEF PubInv, EndedInv
<1>3. tx.pc = "raised" =>
        (\A i \in Paths : final[i] = tx.content) \/ tx.unclean \/ final = tx.snapshots
  BY DEF PubInv, EndedInv
<1> QED
  BY <1>1, <1>2, <1>3 DEF PublicationIsRecoverable, PublicationIsAtomic

-----------------------------------------------------------------------------
(* The stages of the three-day profile.                                     *)

StageCount == 13

LEMMA StageNames ==
    /\ \A m, n \in 1..StageCount : Stages[m] = Stages[n] => m = n
    /\ \A n \in 1..StageCount :
         /\ Stages[n] \in Range(Stages)
         /\ Stages[n] \notin WalkStages \union {None, "publishing"}
    /\ Stages[1] = "INITIAL"
BY DEF Stages, StageCount, WalkStages, None, Range

(* The process has entered the n-th stage, and has not published yet.       *)
Entered(n) == \E k \in n..StageCount : pipe.stage = Stages[k]

(* A running process has a number of its own and runs one of the codes.     *)
Fields == {"profile", "stage", "code", "resume", "opened", "mapping", "freeze", "tested", "used",
           "models", "mappings", "frozen", "family", "replayed"}

PipeInv ==
    /\ DOMAIN pipe = Fields
    /\ pipe.profile \in {None, "three_day", "walk_forward"}
    /\ pipe.stage \in Range(Stages) \union WalkStages \union {None, "publishing"}
    /\ pipe.stage # None => pipe.code \in Codes /\ runs >= 2

(* An open ledger holds rows of this run's code only, since all rows of a   *)
(* ledger are of one run identity.                                          *)
LedgerInv ==
    /\ \A phase \in Phases :
         /\ ledgers[phase] \in Seq(Codes)
         /\ Len(ledgers[phase]) =< Days
         /\ \A d, e \in 1..Len(ledgers[phase]) : ledgers[phase][d] = ledgers[phase][e]
    /\ DOMAIN ledgers = Phases
    /\ \A phase \in pipe.opened : \A d \in 1..Len(ledgers[phase]) : ledgers[phase][d] = pipe.code

(* What the process has done on its way to the stage it is in.              *)
StageInv ==
    /\ pipe.opened \subseteq Phases
    /\ (\E n \in 1..3 : pipe.stage = Stages[n]) => pipe.opened = {}
    /\ (\E n \in 1..10 : pipe.stage = Stages[n]) => ~pipe.tested
    /\ Entered(5) => "mapping_fit" \in pipe.opened /\ Len(ledgers["mapping_fit"]) = Days
    /\ Entered(7) => "validation" \in pipe.opened /\ Len(ledgers["validation"]) = Days
    /\ Entered(8) => pipe.mapping = Phases
    /\ Entered(10) => pipe.freeze = [model |-> pipe.code, mapping |-> Phases]
    /\ Entered(12) => pipe.used = Phases
    /\ pipe.tested => pipe.freeze # Nothing \/ pipe.frozen # Nothing

(* Every report says what its run has the right to say.                     *)
ReportIsBacked(r) ==
    IF r.status = "completed"
      THEN /\ \A phase \in Phases : r.evidence[phase] = [d \in 1..Days |-> r.code]
           /\ r.mapping = Phases
           /\ r.used = Phases
           /\ r.freeze = [model |-> r.code, mapping |-> Phases]
      ELSE r.opened = {} /\ ~r.tested

ReportInv ==
    /\ runs \in 1..MaxRuns
    /\ DOMAIN reports \subseteq 2..runs
    /\ \A n \in DOMAIN reports : ReportIsBacked(reports[n])

-----------------------------------------------------------------------------
(* The outputs of the walk-forward profile.                                 *)

(* The selected pair, as the freeze and the replay have it.                 *)
PairIsBound ==
    /\ pipe.models = [f \in DOMAIN pipe.mappings |-> pipe.models[f]]
    /\ pipe.mappings = [f \in DOMAIN pipe.models |-> pipe.mappings[f]]
    /\ pipe.family \in DOMAIN pipe.models
    /\ pipe.mappings[pipe.family].model = pipe.models[pipe.family]

Validations == {"freeze", "load_test", "replay", "write_model", "write_mapping", "write_json", "write_markdown"}
Frozens == Validations \ {"freeze"}
Replays == {"write_model", "write_mapping", "write_json", "write_markdown"}

WalkInv ==
    /\ pipe.stage \in Validations /\ pipe.family # None => PairIsBound
    /\ pipe.stage \in Frozens => pipe.frozen = [model |-> pipe.models, mapping |-> pipe.mappings]
    /\ pipe.stage \in Replays =>
         pipe.replayed = [model |-> [f \in DOMAIN pipe.models \intersect DOMAIN pipe.mappings |-> pipe.models[f]],
                          mapping |-> [f \in DOMAIN pipe.models \intersect DOMAIN pipe.mappings |-> pipe.mappings[f]]]

OutputFiles == {"model", "mapping", "json", "markdown"}

OutputInv ==
    /\ DOMAIN outputs = OutputFiles
    /\ \A f \in OutputFiles : outputs[f].run \in 1..runs
    /\ pipe.stage \in WalkStages =>
         /\ pipe.stage \notin {"write_mapping", "write_json", "write_markdown"} => outputs["model"].run < runs
         /\ pipe.stage = "write_mapping" => outputs["model"].run = runs /\ outputs["mapping"].run < runs
         /\ pipe.stage = "write_json" => outputs["mapping"].run = runs /\ outputs["json"].run < runs
         /\ pipe.stage = "write_markdown" => outputs["json"].run = runs
         /\ pipe.stage \in {"write_mapping", "write_json"} /\ pipe.family # None =>
              outputs["model"].body = pipe.models[pipe.family]
         /\ pipe.stage = "write_json" /\ pipe.family # None =>
              outputs["mapping"].body = pipe.mappings[pipe.family]

Inv == PubInv /\ PipeInv /\ LedgerInv /\ StageInv /\ ReportInv /\ WalkInv /\ OutputInv /\ ReportFollowsArtifacts

-----------------------------------------------------------------------------
(* What the steps of the process have in common.                            *)

LEMMA PubStutter ==
    ASSUME PubInv, UNCHANGED pubVars
    PROVE  PubInv'
BY DEF PubInv, pubVars, PubTypeOK, NothingIsLost, BackupInv, PublishInv, RollbackInv, SecuredInv, EndedInv,
       Recorded, Unfinished, Secured, Held

LEMMA StoppedFields ==
    /\ DOMAIN Stopped = Fields
    /\ Stopped.profile = None /\ Stopped.stage = None /\ Stopped.opened = {} /\ ~Stopped.tested
BY DEF Stopped, Fields

(* No stage of the three-day profile is one of the other profile.           *)
LEMMA Away ==
    ASSUME pipe.stage \in WalkStages \union {None, "publishing"}
    PROVE  \A n \in 1..StageCount : pipe.stage # Stages[n] /\ ~Entered(n)
BY StageNames DEF Entered, StageCount

LEMMA At ==
    ASSUME NEW e \in 1..StageCount, pipe.stage = Stages[e]
    PROVE  /\ pipe.stage \notin WalkStages \union {None, "publishing"}
           /\ pipe.stage \in Range(Stages)
           /\ \A n \in 1..StageCount : (Entered(n) <=> n =< e) /\ (pipe.stage = Stages[n] <=> n = e)
<1>1. \A n \in 1..StageCount : pipe.stage = Stages[n] <=> n = e
  BY StageNames
<1>2. ASSUME NEW n \in 1..StageCount PROVE Entered(n) <=> n =< e
  BY <1>1 DEF Entered, StageCount
<1> QED BY <1>1, <1>2, StageNames

(* A process that stops, or another that starts, has done nothing yet.      *)
LEMMA InitInv == Init => Inv
<1> SUFFICES ASSUME Init PROVE Inv
  OBVIOUS
<1>1. PubInv
  BY PubInitInv DEF Init
<1>2. PipeInv
  BY StoppedFields DEF Init, PipeInv
<1>3. LedgerInv
  BY StoppedFields, ExperimentAssumption DEF Init, LedgerInv, Phases
<1>4. StageInv
  BY StoppedFields, Away, StageNames DEF Init, StageInv, StageCount
<1>5. ReportInv
  BY ExperimentAssumption DEF Init, ReportInv
<1>6. WalkInv
  BY StoppedFields DEF Init, WalkInv, Validations, Frozens, Replays, None
<1>7. OutputInv
  <2>1. pipe.stage \notin WalkStages
    BY StoppedFields DEF Init, WalkStages, None
  <2>2. DOMAIN outputs = OutputFiles /\ \A f \in OutputFiles : outputs[f].run \in 1..runs
    BY DEF Init, OldOutputs, OutputFiles
  <2> QED BY <2>1, <2>2 DEF OutputInv
<1>8. ReportFollowsArtifacts
  BY DEF Init, ReportFollowsArtifacts, OldOutputs
<1> QED BY <1>1, <1>2, <1>3, <1>4, <1>5, <1>6, <1>7, <1>8 DEF Inv

-----------------------------------------------------------------------------
(* A process starts, and a process ends.                                    *)

(* A process that is stopped owes nothing to any of its stages.             *)
LEMMA StopKeeps ==
    ASSUME Inv, pipe' = Stopped, UNCHANGED <<ledgers, reports, runs>>
    PROVE  PipeInv' /\ LedgerInv' /\ StageInv' /\ ReportInv' /\ WalkInv'
<1>1. DOMAIN pipe' = Fields /\ pipe'.profile = None /\ pipe'.stage = None /\ pipe'.opened = {} /\ ~pipe'.tested
  BY StoppedFields
<1>2. PipeInv'
  BY <1>1 DEF PipeInv, None
<1>3. LedgerInv'
  BY <1>1 DEF Inv, LedgerInv
<1>4. StageInv'
  <2>1. \A n \in 1..StageCount : pipe'.stage # Stages[n] /\ ~Entered(n)'
    BY <1>1, StageNames DEF Entered, StageCount
  <2> QED BY <1>1, <2>1 DEF StageInv, StageCount
<1>5. ReportInv'
  BY DEF Inv, ReportInv, ReportIsBacked
<1>6. WalkInv'
  BY <1>1 DEF WalkInv, Validations, Frozens, Replays, None
<1> QED BY <1>2, <1>3, <1>4, <1>5, <1>6

LEMMA StoppedOutputs ==
    ASSUME Inv, pipe' = Stopped, UNCHANGED <<outputs, runs>>
    PROVE  OutputInv' /\ ReportFollowsArtifacts'
<1>1. pipe'.stage \notin WalkStages
  BY StoppedFields DEF WalkStages, None
<1> QED BY <1>1 DEF Inv, OutputInv, ReportFollowsArtifacts

LEMMA FailsInv == Inv /\ Fails => Inv'
<1> SUFFICES ASSUME Inv, Fails PROVE Inv'
  OBVIOUS
<1>1. PubInv'
  BY PubStutter DEF Inv, Fails, Internal
<1>2. PipeInv' /\ LedgerInv' /\ StageInv' /\ ReportInv' /\ WalkInv'
  BY StopKeeps DEF Fails, Stop, Internal
<1>3. OutputInv' /\ ReportFollowsArtifacts'
  BY StoppedOutputs DEF Fails, Stop, Internal
<1> QED BY <1>1, <1>2, <1>3 DEF Inv

LEMMA EndPublicationInv == Inv /\ EndPublication => Inv'
<1> SUFFICES ASSUME Inv, EndPublication PROVE Inv'
  OBVIOUS
<1>1. PubInv'
  BY PubStutter DEF Inv, EndPublication, Internal
<1>2. PipeInv' /\ LedgerInv' /\ StageInv' /\ ReportInv' /\ WalkInv'
  BY StopKeeps DEF EndPublication, Stop, Internal
<1>3. OutputInv' /\ ReportFollowsArtifacts'
  BY StoppedOutputs DEF EndPublication, Stop, Internal
<1> QED BY <1>1, <1>2, <1>3 DEF Inv

LEMMA CrashInv == Inv /\ Crash => Inv'
<1> SUFFICES ASSUME Inv, Crash PROVE Inv'
  OBVIOUS
<1>1. PubInv'
  BY IdleInv DEF Inv, Crash
<1>2. PipeInv' /\ LedgerInv' /\ StageInv' /\ ReportInv' /\ WalkInv'
  BY StopKeeps DEF Crash, Stop
<1>3. OutputInv' /\ ReportFollowsArtifacts'
  BY StoppedOutputs DEF Crash, Stop
<1> QED BY <1>1, <1>2, <1>3 DEF Inv

(* A new run: everything on disk is of an earlier one.                      *)
LEMMA StartInv ==
    ASSUME Inv,
           NEW profile \in {"three_day", "walk_forward"}, NEW code \in Codes, NEW resume \in BOOLEAN,
           Start(profile, code, resume)
    PROVE  Inv'
<1> DEFINE first == IF profile = "three_day" THEN "INITIAL" ELSE "load"
<1>1. /\ DOMAIN pipe' = Fields
      /\ pipe'.profile = profile /\ pipe'.code = code /\ pipe'.stage = first
      /\ pipe'.opened = {} /\ ~pipe'.tested
  BY DEF Start, Stopped, Fields
<1>2. runs \in Nat /\ runs >= 1 /\ runs' = runs + 1 /\ runs' \in 1..MaxRuns
  BY ExperimentAssumption DEF Inv, ReportInv, Start
<1>3. PubInv'
  BY IdleInv DEF Inv, Start
<1>4. PipeInv'
  <2>1. pipe'.stage \in Range(Stages) \union WalkStages
    <3>1. "INITIAL" \in Range(Stages)
      BY StageNames DEF StageCount
    <3> QED BY <1>1, <3>1 DEF WalkStages
  <2> QED BY <1>1, <1>2, <2>1 DEF PipeInv
<1>5. LedgerInv'
  BY <1>1 DEF Inv, LedgerInv, Start
<1>6. StageInv'
  <2>1. \A n \in 5..StageCount : ~Entered(n)'
    BY <1>1, StageNames DEF Entered, StageCount, WalkStages
  <2> QED BY <1>1, <2>1 DEF StageInv, StageCount
<1>7. ReportInv'
  <2>1. DOMAIN reports \subseteq 2..(runs + 1)
    BY <1>2 DEF Inv, ReportInv
  <2>2. reports' = reports
    BY DEF Start
  <2>3. \A n \in DOMAIN reports : ReportIsBacked(reports[n])
    BY DEF Inv, ReportInv
  <2> QED BY <1>2, <2>1, <2>2, <2>3 DEF ReportInv, ReportIsBacked
<1>8. WalkInv'
  BY <1>1 DEF WalkInv, Validations, Frozens, Replays
<1>9. OutputInv'
  <2>1. DOMAIN outputs = OutputFiles /\ \A f \in OutputFiles : outputs[f].run \in 1..runs
    BY DEF Inv, OutputInv
  <2>2. \A f \in OutputFiles : outputs[f].run \in 1..(runs + 1) /\ outputs[f].run < runs + 1
    BY <1>2, <2>1
  <2>3. outputs["model"].run < runs + 1
    BY <2>2 DEF OutputFiles
  <2>4. outputs' = outputs
    BY DEF Start
  <2>5. pipe'.stage \in {"INITIAL", "load"}
    BY <1>1
  <2> QED BY <1>2, <2>1, <2>2, <2>3, <2>4, <2>5 DEF OutputInv
<1>10. ReportFollowsArtifacts'
  BY DEF Inv, ReportFollowsArtifacts, Start
<1> QED BY <1>3, <1>4, <1>5, <1>6, <1>7, <1>8, <1>9, <1>10 DEF Inv

-----------------------------------------------------------------------------
(* The three-day profile.                                                   *)

LEMMA Advanced ==
    ASSUME NEW e \in 1..(StageCount - 1), NEW next, DOMAIN next = Fields, Advance(e, next)
    PROVE  /\ DOMAIN pipe' = Fields
           /\ pipe.stage = Stages[e] /\ pipe'.stage = Stages[e + 1]
           /\ \A f \in Fields \ {"stage"} : pipe'[f] = next[f]
           /\ pipe'.stage \notin WalkStages \union {None, "publishing"}
           /\ pipe'.stage \in Range(Stages)
           /\ \A n \in 1..StageCount : /\ Entered(n) <=> n =< e
                                       /\ Entered(n)' <=> n =< e + 1
                                       /\ pipe.stage = Stages[n] <=> n = e
                                       /\ pipe'.stage = Stages[n] <=> n = e + 1
<1>1. e \in 1..StageCount /\ e + 1 \in 1..StageCount
  BY DEF StageCount
<1>2. pipe.stage = Stages[e] /\ pipe' = [next EXCEPT !.stage = Stages[e + 1]]
  BY DEF Advance
<1>3. DOMAIN pipe' = Fields /\ pipe'.stage = Stages[e + 1] /\ \A f \in Fields \ {"stage"} : pipe'[f] = next[f]
  BY <1>2 DEF Fields
<1>4. \A n \in 1..StageCount : /\ Entered(n) <=> n =< e
                               /\ pipe.stage = Stages[n] <=> n = e
  BY <1>1, <1>2, At
<1>5. \A n \in 1..StageCount : pipe'.stage = Stages[n] <=> n = e + 1
  BY <1>1, <1>3, StageNames
<1>6. ASSUME NEW n \in 1..StageCount PROVE Entered(n)' <=> n =< e + 1
  BY <1>1, <1>5 DEF Entered, StageCount
<1>7. pipe'.stage \notin WalkStages \union {None, "publishing"} /\ pipe'.stage \in Range(Stages)
  BY <1>1, <1>3, StageNames
<1> QED BY <1>2, <1>3, <1>4, <1>5, <1>6, <1>7

(* A stage that opens no ledger and writes no file keeps all but what it is *)
(* itself about.                                                            *)
LEMMA AdvanceKeeps ==
    ASSUME Inv, NEW e \in 1..(StageCount - 1), NEW next, DOMAIN next = Fields, Advance(e, next), Internal,
           next.profile = pipe.profile, next.code = pipe.code, next.opened = pipe.opened
    PROVE  /\ PubInv' /\ PipeInv' /\ LedgerInv' /\ ReportInv' /\ WalkInv' /\ OutputInv' /\ ReportFollowsArtifacts'
           /\ StageInv' => Inv'
<1>1. /\ DOMAIN pipe' = Fields /\ pipe'.profile = pipe.profile /\ pipe'.code = pipe.code
      /\ pipe'.opened = pipe.opened
      /\ pipe.stage # None
      /\ pipe'.stage \in Range(Stages) /\ pipe'.stage \notin WalkStages \union {None, "publishing"}
  <2>1. pipe.stage # None
    BY Advanced, StageNames DEF StageCount
  <2> QED BY Advanced, <2>1 DEF Fields
<1>2. UNCHANGED <<pubVars, ledgers, outputs, reports, runs>>
  BY DEF Internal
<1>3. PubInv'
  BY <1>2, PubStutter DEF Inv
<1>4. PipeInv'
  BY <1>1, <1>2 DEF Inv, PipeInv
<1>5. LedgerInv'
  BY <1>1, <1>2 DEF Inv, LedgerInv
<1>6. ReportInv'
  BY <1>2 DEF Inv, ReportInv, ReportIsBacked
<1>7. WalkInv'
  BY <1>1 DEF WalkInv, WalkStages, Validations, Frozens, Replays
<1>8. OutputInv'
  BY <1>1, <1>2 DEF Inv, OutputInv
<1>9. ReportFollowsArtifacts'
  BY <1>2 DEF Inv, ReportFollowsArtifacts
<1> QED BY <1>3, <1>4, <1>5, <1>6, <1>7, <1>8, <1>9 DEF Inv

(* What the local variables must say when a stage is left.                  *)
LEMMA StageStep ==
    ASSUME Inv, NEW e \in 1..(StageCount - 1), NEW next, DOMAIN next = Fields, Advance(e, next), Internal,
           next.profile = pipe.profile, next.code = pipe.code, next.opened = pipe.opened,
           e = 4 => Loaded("mapping_fit"),
           e = 6 => Loaded("validation"),
           e >= 7 => next.mapping = Phases,
           e >= 9 => next.freeze = [model |-> pipe.code, mapping |-> Phases],
           e >= 11 => next.used = Phases,
           e =< 9 => ~next.tested,
           next.tested => next.freeze # Nothing \/ next.frozen # Nothing
    PROVE  Inv'
<1>1. StageInv' => Inv'
  BY AdvanceKeeps
<1>2. /\ pipe'.opened = pipe.opened /\ pipe'.tested = next.tested /\ pipe'.mapping = next.mapping
      /\ pipe'.freeze = next.freeze /\ pipe'.used = next.used /\ pipe'.code = pipe.code
      /\ pipe'.frozen = next.frozen
      /\ ledgers' = ledgers
  BY Advanced DEF Fields, Internal
<1>3. \A n \in 1..StageCount : /\ Entered(n) <=> n =< e
                               /\ Entered(n)' <=> n =< e + 1
                               /\ pipe.stage = Stages[n] <=> n = e
                               /\ pipe'.stage = Stages[n] <=> n = e + 1
  BY Advanced
<1>4. StageInv
  BY DEF Inv
<1>5. pipe'.opened \subseteq Phases
  BY <1>2, <1>4 DEF StageInv
<1>6. (\E n \in 1..3 : pipe'.stage = Stages[n]) => pipe'.opened = {}
  BY <1>2, <1>3, <1>4 DEF StageInv, StageCount
<1>7. (\E n \in 1..10 : pipe'.stage = Stages[n]) => ~pipe'.tested
  BY <1>2, <1>3 DEF StageCount
<1>8. Entered(5)' => "mapping_fit" \in pipe'.opened /\ Len(ledgers'["mapping_fit"]) = Days
  BY <1>2, <1>3, <1>4 DEF StageInv, StageCount, Loaded
<1>9. Entered(7)' => "validation" \in pipe'.opened /\ Len(ledgers'["validation"]) = Days
  BY <1>2, <1>3, <1>4 DEF StageInv, StageCount, Loaded
<1>10. Entered(8)' => pipe'.mapping = Phases
  BY <1>2, <1>3 DEF StageCount
<1>11. Entered(10)' => pipe'.freeze = [model |-> pipe'.code, mapping |-> Phases]
  BY <1>2, <1>3 DEF StageCount
<1>12. Entered(12)' => pipe'.used = Phases
  BY <1>2, <1>3 DEF StageCount
<1>13. pipe'.tested => pipe'.freeze # Nothing \/ pipe'.frozen # Nothing
  BY <1>2
<1> QED BY <1>1, <1>5, <1>6, <1>7, <1>8, <1>9, <1>10, <1>11, <1>12, <1>13 DEF StageInv

(* What they say in a stage.                                                *)
LEMMA StageFacts ==
    ASSUME Inv, NEW e \in 1..StageCount, pipe.stage = Stages[e]
    PROVE  /\ DOMAIN pipe = Fields
           /\ e =< 3 => pipe.opened = {}
           /\ e =< 10 => ~pipe.tested
           /\ e >= 5 => "mapping_fit" \in pipe.opened /\ Len(ledgers["mapping_fit"]) = Days
           /\ e >= 7 => "validation" \in pipe.opened /\ Len(ledgers["validation"]) = Days
           /\ e >= 8 => pipe.mapping = Phases
           /\ e >= 10 => pipe.freeze = [model |-> pipe.code, mapping |-> Phases]
           /\ e >= 12 => pipe.used = Phases
           /\ pipe.tested => pipe.freeze # Nothing \/ pipe.frozen # Nothing
<1>1. \A n \in 1..StageCount : (Entered(n) <=> n =< e) /\ (pipe.stage = Stages[n] <=> n = e)
  BY At
<1>2. StageInv /\ DOMAIN pipe = Fields
  BY DEF Inv, PipeInv
<1>3. e =< 3 => pipe.opened = {}
  BY <1>1, <1>2 DEF StageInv, StageCount
<1>4. e =< 10 => ~pipe.tested
  BY <1>1, <1>2 DEF StageInv, StageCount
<1>5. /\ e >= 5 => "mapping_fit" \in pipe.opened /\ Len(ledgers["mapping_fit"]) = Days
      /\ e >= 7 => "validation" \in pipe.opened /\ Len(ledgers["validation"]) = Days
  BY <1>1, <1>2 DEF StageInv, StageCount
<1>6. /\ e >= 8 => pipe.mapping = Phases
      /\ e >= 10 => pipe.freeze = [model |-> pipe.code, mapping |-> Phases]
      /\ e >= 12 => pipe.used = Phases
  BY <1>1, <1>2 DEF StageInv, StageCount
<1>7. pipe.tested => pipe.freeze # Nothing \/ pipe.frozen # Nothing
  BY <1>2 DEF StageInv
<1> QED BY <1>2, <1>3, <1>4, <1>5, <1>6, <1>7

(* The stages that only check or compute.                                   *)
LEMMA PlainStages ==
    ASSUME Inv, VerifySources \/ FitModel \/ FreezeCandidates \/ LoadMappingEvidence \/ ReportValidation
                \/ SelectBaseline
    PROVE  Inv'
<1>1. PICK e \in {1, 2, 3, 4, 6, 8} :
        /\ Advance(e, pipe) /\ Internal
        /\ e = 4 => Loaded("mapping_fit")
        /\ e = 6 => Loaded("validation")
  BY DEF VerifySources, FitModel, FreezeCandidates, LoadMappingEvidence, ReportValidation, SelectBaseline
<1>2. e \in 1..(StageCount - 1) /\ e \in 1..StageCount /\ pipe.stage = Stages[e]
  BY <1>1 DEF StageCount, Advance
<1>3. /\ DOMAIN pipe = Fields
      /\ e >= 7 => pipe.mapping = Phases
      /\ ~(e >= 9) /\ ~(e >= 11)
      /\ ~pipe.tested
  BY <1>2, StageFacts
<1> QED BY <1>1, <1>2, <1>3, StageStep

(* The stages that set what the report will say.                            *)
LEMMA MappingStages ==
    ASSUME Inv, BuildStrictMapping \/ RebuildFinalMapping
    PROVE  Inv'
<1>1. PICK e \in {5, 7} : /\ Advance(e, [pipe EXCEPT !.mapping = IF e = 5 THEN {"mapping_fit"} ELSE Phases])
                         /\ Internal
  BY DEF BuildStrictMapping, RebuildFinalMapping
<1> DEFINE next == [pipe EXCEPT !.mapping = IF e = 5 THEN {"mapping_fit"} ELSE Phases]
<1>2. e \in 1..(StageCount - 1) /\ e \in 1..StageCount /\ pipe.stage = Stages[e]
  BY <1>1 DEF StageCount, Advance
<1>3. DOMAIN pipe = Fields /\ ~pipe.tested
  BY <1>2, StageFacts
<1>4. /\ DOMAIN next = Fields
      /\ next.profile = pipe.profile /\ next.code = pipe.code /\ next.opened = pipe.opened
      /\ e >= 7 => next.mapping = Phases
      /\ ~next.tested
  BY <1>3 DEF Fields
<1> HIDE DEF next
<1>5. Advance(e, next)
  BY <1>1 DEF next
<1> QED BY <1>1, <1>2, <1>4, <1>5, StageStep

LEMMA CreateFreezeInv == Inv /\ CreateFreeze => Inv'
<1> SUFFICES ASSUME Inv, CreateFreeze PROVE Inv'
  OBVIOUS
<1> DEFINE next == [pipe EXCEPT !.freeze = [model |-> pipe.code, mapping |-> pipe.mapping]]
<1>1. Advance(9, next) /\ Internal /\ pipe.stage = Stages[9]
  BY DEF CreateFreeze, Advance
<1>2. 9 \in 1..(StageCount - 1) /\ 9 \in 1..StageCount
  BY DEF StageCount
<1>3. DOMAIN pipe = Fields /\ ~pipe.tested /\ pipe.mapping = Phases
  BY <1>1, <1>2, StageFacts
<1>4. /\ DOMAIN next = Fields
      /\ next.profile = pipe.profile /\ next.code = pipe.code /\ next.opened = pipe.opened
      /\ next.mapping = Phases /\ next.freeze = [model |-> pipe.code, mapping |-> Phases]
      /\ ~next.tested
  BY <1>3 DEF Fields
<1> HIDE DEF next
<1> QED BY <1>1, <1>2, <1>4, StageStep

LEMMA LoadTestInputsInv == Inv /\ LoadTestInputs => Inv'
<1> SUFFICES ASSUME Inv, LoadTestInputs PROVE Inv'
  OBVIOUS
<1> DEFINE next == [pipe EXCEPT !.tested = TRUE]
<1>1. Advance(10, next) /\ Internal /\ pipe.stage = Stages[10] /\ pipe.freeze # Nothing
  BY DEF LoadTestInputs, Advance
<1>2. 10 \in 1..(StageCount - 1) /\ 10 \in 1..StageCount
  BY DEF StageCount
<1>3. DOMAIN pipe = Fields /\ pipe.mapping = Phases /\ pipe.freeze = [model |-> pipe.code, mapping |-> Phases]
  BY <1>1, <1>2, StageFacts
<1>4. /\ DOMAIN next = Fields
      /\ next.profile = pipe.profile /\ next.code = pipe.code /\ next.opened = pipe.opened
      /\ next.mapping = Phases /\ next.freeze = pipe.freeze
  BY <1>3 DEF Fields
<1> HIDE DEF next
<1> QED BY <1>1, <1>2, <1>3, <1>4, StageStep

LEMMA RunComparisonsInv == Inv /\ RunComparisons => Inv'
<1> SUFFICES ASSUME Inv, RunComparisons PROVE Inv'
  OBVIOUS
<1> DEFINE next == [pipe EXCEPT !.used = pipe.mapping]
<1>1. Advance(11, next) /\ Internal /\ pipe.stage = Stages[11]
  BY DEF RunComparisons, Advance
<1>2. 11 \in 1..(StageCount - 1) /\ 11 \in 1..StageCount
  BY DEF StageCount
<1>3. /\ DOMAIN pipe = Fields /\ pipe.mapping = Phases
      /\ pipe.freeze = [model |-> pipe.code, mapping |-> Phases]
      /\ pipe.tested => pipe.freeze # Nothing \/ pipe.frozen # Nothing
  BY <1>1, <1>2, StageFacts
<1>4. /\ DOMAIN next = Fields
      /\ next.profile = pipe.profile /\ next.code = pipe.code /\ next.opened = pipe.opened
      /\ next.mapping = Phases /\ next.freeze = pipe.freeze /\ next.frozen = pipe.frozen
      /\ next.used = Phases /\ next.tested = pipe.tested
  BY <1>3 DEF Fields
<1> HIDE DEF next
<1> QED BY <1>1, <1>2, <1>3, <1>4, StageStep

-----------------------------------------------------------------------------
(* The ledgers.                                                             *)

(* The ledgers are written in two stages only.                              *)
LEMMA LedgerStage ==
    ASSUME NEW phase \in Phases, pipe.stage = Stages[IF phase = "mapping_fit" THEN 4 ELSE 6]
    PROVE  /\ \A n \in 1..3 : pipe.stage # Stages[n]
           /\ pipe.stage \notin WalkStages \union {None, "publishing"}
           /\ phase = "mapping_fit" => ~Entered(5)
           /\ phase = "validation" => ~Entered(7)
<1> DEFINE e == IF phase = "mapping_fit" THEN 4 ELSE 6
<1>1. e \in 1..StageCount /\ pipe.stage = Stages[e] /\ e \in {4, 6}
      /\ (phase = "mapping_fit" => e = 4) /\ (phase = "validation" => e = 6)
  BY DEF StageCount
<1> HIDE DEF e
<1>2. /\ pipe.stage \notin WalkStages \union {None, "publishing"}
      /\ \A n \in 1..StageCount : (Entered(n) <=> n =< e) /\ (pipe.stage = Stages[n] <=> n = e)
  BY <1>1, At
<1> QED BY <1>1, <1>2 DEF StageCount

LEMMA OpenLedgerInv ==
    ASSUME Inv, NEW phase \in Phases, OpenLedger(phase)
    PROVE  Inv'
<1>1. pipe.stage = Stages[IF phase = "mapping_fit" THEN 4 ELSE 6]
  BY DEF OpenLedger
<1>2. /\ \A n \in 1..3 : pipe.stage # Stages[n]
      /\ pipe.stage \notin WalkStages \union {None, "publishing"}
  BY <1>1, LedgerStage
<1>3. /\ DOMAIN pipe = Fields
      /\ UNCHANGED <<pubVars, ledgers, outputs, reports, runs>>
  BY DEF Inv, PipeInv, OpenLedger, Internal
<1>4. /\ DOMAIN pipe' = Fields
      /\ pipe'.opened = pipe.opened \union {phase}
      /\ pipe'.stage = pipe.stage /\ pipe'.profile = pipe.profile /\ pipe'.code = pipe.code
      /\ pipe'.tested = pipe.tested /\ pipe'.mapping = pipe.mapping /\ pipe'.freeze = pipe.freeze
      /\ pipe'.used = pipe.used /\ pipe'.frozen = pipe.frozen
  BY <1>3 DEF OpenLedger, Fields
<1>5. PubInv'
  BY <1>3, PubStutter DEF Inv
<1>6. PipeInv'
  BY <1>3, <1>4 DEF Inv, PipeInv
<1>7. LedgerInv'
  <2>1. LedgerInv
    BY DEF Inv
  <2>2. ASSUME NEW d \in 1..Len(ledgers[phase]) PROVE ledgers[phase][d] = pipe.code
    <3>1. ledgers[phase] \in Seq(Codes) /\ Len(ledgers[phase]) \in Nat
      BY <2>1 DEF LedgerInv
    <3>2. ledgers[phase] # <<>> /\ 1 \in 1..Len(ledgers[phase])
      BY <3>1
    <3>3. ledgers[phase][1] = pipe.code
      BY <3>1, <3>2 DEF OpenLedger
    <3> QED BY <2>1, <3>2, <3>3 DEF LedgerInv
  <2> QED BY <1>3, <1>4, <2>1, <2>2 DEF LedgerInv
<1>8. StageInv'
  <2>1. StageInv
    BY DEF Inv
  <2>2. \A n \in 1..StageCount : Entered(n)' <=> Entered(n)
    BY <1>4 DEF Entered
  <2> QED BY <1>2, <1>3, <1>4, <2>1, <2>2 DEF StageInv, StageCount
<1>9. ReportInv'
  BY <1>3 DEF Inv, ReportInv, ReportIsBacked
<1>10. WalkInv' /\ OutputInv'
  <2>1. OutputInv
    BY DEF Inv
  <2> QED BY <1>2, <1>3, <1>4, <2>1 DEF WalkInv, OutputInv, WalkStages, Validations, Frozens, Replays
<1>11. ReportFollowsArtifacts'
  BY <1>3 DEF Inv, ReportFollowsArtifacts
<1> QED BY <1>5, <1>6, <1>7, <1>8, <1>9, <1>10, <1>11 DEF Inv

LEMMA AppendDayInv ==
    ASSUME Inv, NEW phase \in Phases, AppendDay(phase)
    PROVE  Inv'
<1>1. pipe.stage = Stages[IF phase = "mapping_fit" THEN 4 ELSE 6]
  BY DEF AppendDay
<1>2. /\ pipe.stage \notin WalkStages \union {None, "publishing"}
      /\ phase = "mapping_fit" => ~Entered(5)
      /\ phase = "validation" => ~Entered(7)
  BY <1>1, LedgerStage
<1>3. UNCHANGED <<pubVars, pipe, outputs, reports, runs>>
  BY DEF AppendDay
<1>4. PubInv'
  BY <1>3, PubStutter DEF Inv
<1>5. PipeInv'
  BY <1>3 DEF Inv, PipeInv
<1>6. /\ DOMAIN ledgers = Phases
      /\ ledgers[phase] \in Seq(Codes) /\ Len(ledgers[phase]) < Days
      /\ phase \in pipe.opened /\ pipe.code \in Codes
      /\ ledgers' = [ledgers EXCEPT ![phase] = Append(@, pipe.code)]
  BY <1>2 DEF Inv, LedgerInv, PipeInv, AppendDay
<1>7. /\ DOMAIN ledgers' = Phases
      /\ ledgers'[phase] = Append(ledgers[phase], pipe.code)
      /\ \A other \in Phases \ {phase} : ledgers'[other] = ledgers[other]
  BY <1>6
<1>8. LedgerInv'
  <2>1. LedgerInv
    BY DEF Inv
  <2>2. /\ ledgers'[phase] \in Seq(Codes) /\ Len(ledgers'[phase]) =< Days
        /\ \A d \in 1..Len(ledgers'[phase]) : ledgers'[phase][d] = pipe.code
    <3>1. \A d \in 1..Len(ledgers[phase]) : ledgers[phase][d] = pipe.code
      BY <1>6, <2>1 DEF LedgerInv
    <3>2. ledgers'[phase] \in Seq(Codes) /\ Len(ledgers'[phase]) = Len(ledgers[phase]) + 1
      BY <1>6, <1>7
    <3>3. Len(ledgers'[phase]) =< Days
      BY <1>6, <3>2, ExperimentAssumption
    <3>4. ASSUME NEW d \in 1..Len(ledgers'[phase]) PROVE ledgers'[phase][d] = pipe.code
      <4>1. CASE d = Len(ledgers[phase]) + 1
        BY <1>6, <1>7, <4>1
      <4>2. CASE d # Len(ledgers[phase]) + 1
        BY <1>6, <1>7, <3>1, <3>2, <4>2
      <4> QED BY <4>1, <4>2
    <3> QED BY <3>2, <3>3, <3>4
  <2>3. \A other \in Phases \ {phase} :
          /\ ledgers'[other] \in Seq(Codes) /\ Len(ledgers'[other]) =< Days
          /\ \A d, e \in 1..Len(ledgers'[other]) : ledgers'[other][d] = ledgers'[other][e]
          /\ other \in pipe.opened => \A d \in 1..Len(ledgers'[other]) : ledgers'[other][d] = pipe.code
    BY <1>7, <2>1 DEF LedgerInv
  <2>4. \A d, e \in 1..Len(ledgers'[phase]) : ledgers'[phase][d] = ledgers'[phase][e]
    BY <2>2
  <2>5. pipe' = pipe /\ pipe.opened \subseteq Phases
    BY <1>3 DEF Inv, StageInv
  <2>6. ASSUME NEW other \in pipe.opened, NEW d \in 1..Len(ledgers'[other]) PROVE ledgers'[other][d] = pipe.code
    BY <2>2, <2>3, <2>5
  <2>7. ASSUME NEW other \in Phases
        PROVE  /\ ledgers'[other] \in Seq(Codes) /\ Len(ledgers'[other]) =< Days
               /\ \A d, e \in 1..Len(ledgers'[other]) : ledgers'[other][d] = ledgers'[other][e]
    <3>1. CASE other = phase
      BY <2>2, <2>4, <3>1
    <3>2. CASE other # phase
      BY <2>3, <3>2
    <3> QED BY <3>1, <3>2
  <2> QED BY <1>7, <2>5, <2>6, <2>7 DEF LedgerInv
<1>9. StageInv'
  <2>1. StageInv
    BY DEF Inv
  <2>2. \A n \in 1..StageCount : Entered(n)' <=> Entered(n)
    BY <1>3 DEF Entered
  <2>3. Entered(5) => phase # "mapping_fit" /\ ledgers'["mapping_fit"] = ledgers["mapping_fit"]
    BY <1>2, <1>7 DEF Phases
  <2>4. Entered(7) => phase # "validation" /\ ledgers'["validation"] = ledgers["validation"]
    BY <1>2, <1>7 DEF Phases
  <2> QED BY <1>3, <2>1, <2>2, <2>3, <2>4 DEF StageInv, StageCount
<1>10. ReportInv'
  BY <1>3 DEF Inv, ReportInv, ReportIsBacked
<1>11. WalkInv' /\ OutputInv'
  <2>1. OutputInv
    BY DEF Inv
  <2> QED BY <1>2, <1>3, <2>1 DEF WalkInv, OutputInv, WalkStages, Validations, Frozens, Replays
<1>12. ReportFollowsArtifacts'
  BY <1>3 DEF Inv, ReportFollowsArtifacts
<1> QED BY <1>4, <1>5, <1>8, <1>9, <1>10, <1>11, <1>12 DEF Inv

-----------------------------------------------------------------------------
(* The reports.                                                             *)

(* A report that its run backs joins the others.                            *)
LEMMA SubmitInv ==
    ASSUME Inv, NEW status \in {"completed", "failed-model-cash"},
           Submit(status), ReportIsBacked(Report(status)), pipe.stage # None
    PROVE  Inv'
<1>1. UNCHANGED <<ledgers, outputs, runs>> /\ Begin(runs) /\ runs \in Nat /\ runs \in 2..runs
  BY ExperimentAssumption DEF Submit, Inv, ReportInv, PipeInv
<1>2. /\ DOMAIN pipe' = Fields /\ pipe'.stage = "publishing" /\ pipe'.code = pipe.code
      /\ pipe'.profile = pipe.profile /\ pipe'.opened = pipe.opened /\ pipe'.tested = pipe.tested
      /\ pipe'.freeze = pipe.freeze /\ pipe'.frozen = pipe.frozen
  BY DEF Submit, Inv, PipeInv, Fields
<1>3. PubInv'
  BY <1>1, BeginInv DEF Inv
<1>4. PipeInv'
  BY <1>1, <1>2 DEF Inv, PipeInv
<1>5. LedgerInv'
  BY <1>1, <1>2 DEF Inv, LedgerInv
<1>6. StageInv'
  <2>1. \A n \in 1..StageCount : pipe'.stage # Stages[n] /\ ~Entered(n)'
    BY <1>2, StageNames DEF Entered, StageCount
  <2>2. StageInv
    BY DEF Inv
  <2> QED BY <1>2, <2>1, <2>2 DEF StageInv, StageCount
<1>7. ReportInv'
  <2>1. /\ DOMAIN reports' = DOMAIN reports \union {runs}
        /\ \A n \in DOMAIN reports' : reports'[n] = IF n = runs THEN Report(status) ELSE reports[n]
    BY DEF Submit
  <2>2. runs' \in 1..MaxRuns /\ DOMAIN reports' \subseteq 2..runs'
    BY <1>1, <2>1 DEF Inv, ReportInv
  <2>3. ASSUME NEW n \in DOMAIN reports' PROVE ReportIsBacked(reports'[n])
    <3>1. CASE n = runs
      BY <2>1, <3>1
    <3>2. CASE n # runs
      <4>1. reports'[n] = reports[n] /\ n \in DOMAIN reports
        BY <2>1, <3>2
      <4> QED BY <4>1 DEF Inv, ReportInv
    <3> QED BY <3>1, <3>2
  <2> QED BY <2>2, <2>3 DEF ReportInv, ReportIsBacked
<1>8. WalkInv' /\ OutputInv'
  BY <1>1, <1>2 DEF Inv, WalkInv, OutputInv, WalkStages, Validations, Frozens, Replays
<1>9. ReportFollowsArtifacts'
  BY <1>1 DEF Inv, ReportFollowsArtifacts
<1> QED BY <1>3, <1>4, <1>5, <1>6, <1>7, <1>8, <1>9 DEF Inv

(* The completed run has loaded every day of both phases, and replayed what *)
(* it froze.                                                                *)
LEMMA PublishReportInv == Inv /\ PublishReport => Inv'
<1> SUFFICES ASSUME Inv, PublishReport PROVE Inv'
  OBVIOUS
<1>1. pipe.stage = Stages[12] /\ Submit("completed")
  BY DEF PublishReport
<1>2. 12 \in 1..StageCount
  BY DEF StageCount
<1>3. /\ \A phase \in Phases : phase \in pipe.opened /\ Len(ledgers[phase]) = Days
      /\ pipe.mapping = Phases /\ pipe.used = Phases
      /\ pipe.freeze = [model |-> pipe.code, mapping |-> Phases]
  BY <1>1, <1>2, StageFacts DEF Phases
<1>4. ASSUME NEW phase \in Phases PROVE ledgers[phase] = [d \in 1..Days |-> pipe.code]
  <2>1. ledgers[phase] \in Seq(Codes) /\ DOMAIN ledgers[phase] = 1..Days
    BY <1>3 DEF Inv, LedgerInv
  <2>2. ledgers[phase] \in [1..Days -> Codes]
    BY <1>3, <2>1
  <2>3. \A d \in 1..Days : ledgers[phase][d] = pipe.code
    BY <1>3 DEF Inv, LedgerInv
  <2>4. ledgers[phase] = [d \in 1..Days |-> ledgers[phase][d]]
    BY <2>2
  <2> QED BY <2>3, <2>4
<1>5. ReportIsBacked(Report("completed"))
  BY <1>3, <1>4 DEF ReportIsBacked, Report
<1>6. pipe.stage # None
  BY <1>1, <1>2, StageNames
<1> QED BY <1>1, <1>5, <1>6, SubmitInv

LEMMA PublishModelFailureInv == Inv /\ PublishModelFailure => Inv'
<1> SUFFICES ASSUME Inv, PublishModelFailure PROVE Inv'
  OBVIOUS
<1>1. pipe.stage = Stages[2] /\ Submit("failed-model-cash")
  BY DEF PublishModelFailure
<1>2. 2 \in 1..StageCount
  BY DEF StageCount
<1>3. pipe.opened = {} /\ ~pipe.tested
  BY <1>1, <1>2, StageFacts
<1>4. ReportIsBacked(Report("failed-model-cash"))
  BY <1>3 DEF ReportIsBacked, Report
<1>5. pipe.stage # None
  BY <1>1, <1>2, StageNames
<1> QED BY <1>1, <1>4, <1>5, SubmitInv

LEMMA WriteFilesInv == Inv /\ WriteFiles => Inv'
<1> SUFFICES ASSUME Inv, WriteFiles PROVE Inv'
  OBVIOUS
<1>1. UNCHANGED <<pipe, ledgers, outputs, reports, runs>> /\ PublicationStep
  BY DEF WriteFiles
<1>2. PubInv'
  BY <1>1, PublicationStepInv DEF Inv
<1>3. PipeInv' /\ ReportInv'
  BY <1>1 DEF Inv, PipeInv, ReportInv, ReportIsBacked
<1>4. LedgerInv'
  BY <1>1 DEF Inv, LedgerInv
<1>5. StageInv'
  BY <1>1 DEF Inv, StageInv, Entered
<1>6. WalkInv' /\ OutputInv' /\ ReportFollowsArtifacts'
  BY <1>1 DEF Inv, WalkInv, PairIsBound, OutputInv, ReportFollowsArtifacts
<1> QED BY <1>2, <1>3, <1>4, <1>5, <1>6 DEF Inv

-----------------------------------------------------------------------------
(* The walk-forward profile.                                                *)

(* A stage of this profile leaves what the other profile relies on alone.   *)
LEMMA WalkKeeps ==
    ASSUME Inv, pipe.stage \in WalkStages, pipe'.stage \in WalkStages, DOMAIN pipe' = Fields,
           pipe'.profile = pipe.profile, pipe'.code = pipe.code, pipe'.opened = pipe.opened,
           pipe'.tested => pipe'.freeze # Nothing \/ pipe'.frozen # Nothing,
           UNCHANGED <<pubVars, ledgers, reports, runs>>
    PROVE  PubInv' /\ PipeInv' /\ LedgerInv' /\ StageInv' /\ ReportInv'
<1>1. PubInv'
  BY PubStutter DEF Inv
<1>2. PipeInv'
  BY DEF Inv, PipeInv, WalkStages, None
<1>3. LedgerInv'
  BY DEF Inv, LedgerInv
<1>4. StageInv'
  <2>1. \A n \in 1..StageCount : pipe'.stage # Stages[n] /\ ~Entered(n)'
    BY StageNames DEF Entered, StageCount
  <2>2. StageInv
    BY DEF Inv
  <2> QED BY <2>1, <2>2 DEF StageInv, StageCount
<1>5. ReportInv'
  BY DEF Inv, ReportInv, ReportIsBacked
<1> QED BY <1>1, <1>2, <1>3, <1>4, <1>5

(* The stages before the first output is written.                           *)
Computing == WalkStages \ {"write_mapping", "write_json", "write_markdown"}

LEMMA GotoKeeps ==
    ASSUME Inv, NEW stage \in Computing, NEW from \in Computing, NEW next, Goto(stage, from, next),
           DOMAIN next = Fields,
           next.profile = pipe.profile, next.code = pipe.code, next.opened = pipe.opened,
           next.tested => next.freeze # Nothing \/ next.frozen # Nothing,
           WalkInv'
    PROVE  Inv'
<1>1. /\ pipe.stage = from /\ pipe'.stage = stage /\ DOMAIN pipe' = Fields
      /\ pipe'.profile = pipe.profile /\ pipe'.code = pipe.code /\ pipe'.opened = pipe.opened
      /\ pipe'.tested = next.tested /\ pipe'.freeze = next.freeze /\ pipe'.frozen = next.frozen
  BY DEF Goto, Fields
<1>2. UNCHANGED <<pubVars, ledgers, outputs, reports, runs>>
  BY DEF Goto, Internal
<1>3. from \in WalkStages /\ stage \in WalkStages
  BY DEF Computing
<1>4. PubInv' /\ PipeInv' /\ LedgerInv' /\ StageInv' /\ ReportInv'
  BY <1>1, <1>2, <1>3, WalkKeeps
<1>5. OutputInv'
  BY <1>1, <1>2 DEF Inv, OutputInv, Computing
<1>6. ReportFollowsArtifacts'
  BY <1>2 DEF Inv, ReportFollowsArtifacts
<1> QED BY <1>4, <1>5, <1>6 DEF Inv

LEMMA PipeFields == Inv => DOMAIN pipe = Fields /\ (pipe.tested => pipe.freeze # Nothing \/ pipe.frozen # Nothing)
BY DEF Inv, PipeInv, StageInv

(* Nothing is validated yet.                                                *)
LEMMA EarlyStages ==
    ASSUME Inv, LoadInputs \/ Prepare \/ EvaluateModels \/ BuildMappings
    PROVE  Inv'
<1>1. DOMAIN pipe = Fields
  BY PipeFields
<1>2. PICK stage, from, next : /\ stage \in {"prepare", "evaluate", "map", "validate"}
                              /\ from \in {"load", "prepare", "evaluate", "map"}
                              /\ Goto(stage, from, next)
                              /\ DOMAIN next = Fields
                              /\ \A f \in Fields \ {"models", "mappings"} : next[f] = pipe[f]
  <2>1. CASE LoadInputs
    BY <1>1, <2>1 DEF LoadInputs
  <2>2. CASE Prepare
    BY <1>1, <2>2 DEF Prepare
  <2>3. CASE EvaluateModels
    <3>1. PICK models : Goto("map", "evaluate", [pipe EXCEPT !.models = models])
      BY <2>3 DEF EvaluateModels
    <3>2. /\ DOMAIN [pipe EXCEPT !.models = models] = Fields
          /\ \A f \in Fields \ {"models", "mappings"} : [pipe EXCEPT !.models = models][f] = pipe[f]
      BY <1>1
    <3> QED BY <3>1, <3>2
  <2>4. CASE BuildMappings
    <3>1. PICK mappings : Goto("validate", "map", [pipe EXCEPT !.mappings = mappings])
      BY <2>4 DEF BuildMappings
    <3>2. /\ DOMAIN [pipe EXCEPT !.mappings = mappings] = Fields
          /\ \A f \in Fields \ {"models", "mappings"} : [pipe EXCEPT !.mappings = mappings][f] = pipe[f]
      BY <1>1
    <3> QED BY <3>1, <3>2
  <2> QED BY <2>1, <2>2, <2>3, <2>4
<1>3. /\ next.profile = pipe.profile /\ next.code = pipe.code /\ next.opened = pipe.opened
      /\ next.tested = pipe.tested /\ next.freeze = pipe.freeze /\ next.frozen = pipe.frozen
  BY <1>2 DEF Fields
<1>4. pipe'.stage = stage
  BY <1>2 DEF Goto, Fields
<1>5. WalkInv'
  BY <1>2, <1>4 DEF WalkInv, Validations, Frozens, Replays
<1>6. stage \in Computing /\ from \in Computing
  BY <1>2 DEF Computing, WalkStages
<1> QED BY <1>2, <1>3, <1>5, <1>6, PipeFields, GotoKeeps

(* The selected family has a model, and a mapping bound to it.              *)
LEMMA ValidateInv == Inv /\ Validate => Inv'
<1> SUFFICES ASSUME Inv, Validate PROVE Inv'
  OBVIOUS
<1>1. PICK scores \in [DOMAIN pipe.models \intersect DOMAIN pipe.mappings -> [1..Policies -> 1..2]] :
        LET available == DOMAIN scores
            models == [f \in available |-> Validated(f, Winner(scores[f]))]
            mappings == [f \in available |-> [model |-> models[f], policy |-> Winner(scores[f])]]
            best(f) == \A g \in available : scores[f][Winner(scores[f])] >= scores[g][Winner(scores[g])]
        IN  \E family \in IF available = {} THEN {None} ELSE {f \in available : best(f)} :
              Goto("freeze", "validate",
                   [pipe EXCEPT !.models = IF available = {} THEN @ ELSE models,
                                !.mappings = mappings, !.family = family])
  BY DEF Validate
<1> DEFINE available == DOMAIN scores
           models == [f \in available |-> Validated(f, Winner(scores[f]))]
           mappings == [f \in available |-> [model |-> models[f], policy |-> Winner(scores[f])]]
           next(family) == [pipe EXCEPT !.models = IF available = {} THEN @ ELSE models,
                                        !.mappings = mappings, !.family = family]
<1>2. PICK family : /\ Goto("freeze", "validate", next(family))
                    /\ available = {} => family = None
                    /\ available # {} => family \in available
  BY <1>1
<1>3. DOMAIN pipe = Fields
  BY PipeFields
<1>4. /\ DOMAIN next(family) = Fields
      /\ next(family).profile = pipe.profile /\ next(family).code = pipe.code
      /\ next(family).opened = pipe.opened /\ next(family).tested = pipe.tested
      /\ next(family).freeze = pipe.freeze /\ next(family).frozen = pipe.frozen
  BY <1>3 DEF Fields
<1>5. /\ next(family).family = family /\ next(family).mappings = mappings
      /\ available # {} => next(family).models = models
  BY <1>3 DEF Fields
<1>6. /\ models = [f \in available |-> models[f]] /\ DOMAIN models = available
      /\ mappings = [f \in available |-> mappings[f]] /\ DOMAIN mappings = available
      /\ \A f \in available : mappings[f].model = models[f]
  OBVIOUS
<1> HIDE DEF next, models, mappings, available
<1>7. /\ pipe'.stage = "freeze" /\ pipe'.family = next(family).family
      /\ pipe'.models = next(family).models /\ pipe'.mappings = next(family).mappings
  BY <1>2, <1>4 DEF Goto, Fields
<1>8. pipe'.family # None => PairIsBound'
  BY <1>2, <1>5, <1>6, <1>7 DEF PairIsBound
<1>9. WalkInv'
  BY <1>7, <1>8 DEF WalkInv, Frozens, Validations, Replays
<1>10. "freeze" \in Computing /\ "validate" \in Computing
  BY DEF Computing, WalkStages
<1> QED BY <1>2, <1>4, <1>9, <1>10, PipeFields, GotoKeeps

(* The frozen pair is the one in memory, and stays it.                      *)
LEMMA FreezeArtifactsInv == Inv /\ FreezeArtifacts => Inv'
<1> SUFFICES ASSUME Inv, FreezeArtifacts PROVE Inv'
  OBVIOUS
<1> DEFINE next == [pipe EXCEPT !.frozen = [model |-> pipe.models, mapping |-> pipe.mappings]]
<1>1. Goto("load_test", "freeze", next)
  BY DEF FreezeArtifacts
<1>2. /\ DOMAIN next = Fields
      /\ next.profile = pipe.profile /\ next.code = pipe.code /\ next.opened = pipe.opened
      /\ next.frozen = [model |-> pipe.models, mapping |-> pipe.mappings]
      /\ next.models = pipe.models /\ next.mappings = pipe.mappings /\ next.family = pipe.family
  BY PipeFields DEF Fields
<1>3. next.frozen # Nothing
  <2>1. "model" \in DOMAIN next.frozen
    BY <1>2
  <2> QED BY <2>1 DEF Nothing
<1> HIDE DEF next
<1>4. /\ pipe.stage = "freeze" /\ pipe'.stage = "load_test" /\ pipe'.frozen = next.frozen
      /\ pipe'.models = pipe.models /\ pipe'.mappings = pipe.mappings /\ pipe'.family = pipe.family
  BY <1>1, <1>2 DEF Goto, Fields
<1>5. pipe'.family # None => PairIsBound'
  BY <1>4 DEF Inv, WalkInv, PairIsBound, Validations
<1>6. WalkInv'
  BY <1>2, <1>4, <1>5 DEF WalkInv, Frozens, Validations, Replays
<1>7. "load_test" \in Computing /\ "freeze" \in Computing
  BY DEF Computing, WalkStages
<1> QED BY <1>1, <1>2, <1>3, <1>6, <1>7, GotoKeeps

LEMMA LoadTestReplayInputsInv == Inv /\ LoadTestReplayInputs => Inv'
<1> SUFFICES ASSUME Inv, LoadTestReplayInputs PROVE Inv'
  OBVIOUS
<1> DEFINE next == [pipe EXCEPT !.tested = TRUE]
<1>1. Goto("replay", "load_test", next)
  BY DEF LoadTestReplayInputs
<1>2. /\ DOMAIN next = Fields
      /\ next.profile = pipe.profile /\ next.code = pipe.code /\ next.opened = pipe.opened
      /\ next.frozen = pipe.frozen
      /\ next.models = pipe.models /\ next.mappings = pipe.mappings /\ next.family = pipe.family
  BY PipeFields DEF Fields
<1> HIDE DEF next
<1>3. /\ pipe.stage = "load_test" /\ pipe'.stage = "replay" /\ pipe'.frozen = pipe.frozen
      /\ pipe'.models = pipe.models /\ pipe'.mappings = pipe.mappings /\ pipe'.family = pipe.family
  BY <1>1, <1>2 DEF Goto, Fields
<1>4. pipe.frozen = [model |-> pipe.models, mapping |-> pipe.mappings]
  BY <1>3 DEF Inv, WalkInv, Frozens, Validations
<1>5. next.frozen # Nothing
  <2>1. "model" \in DOMAIN pipe.frozen
    BY <1>4
  <2> QED BY <1>2, <2>1 DEF Nothing
<1>6. pipe'.family # None => PairIsBound'
  BY <1>3 DEF Inv, WalkInv, PairIsBound, Validations
<1>7. WalkInv'
  BY <1>3, <1>4, <1>6 DEF WalkInv, Frozens, Validations, Replays
<1>8. "load_test" \in Computing /\ "replay" \in Computing
  BY DEF Computing, WalkStages
<1> QED BY <1>1, <1>2, <1>5, <1>7, <1>8, GotoKeeps

LEMMA ReplayTestInv == Inv /\ ReplayTest => Inv'
<1> SUFFICES ASSUME Inv, ReplayTest PROVE Inv'
  OBVIOUS
<1> DEFINE dynamic == DOMAIN pipe.models \intersect DOMAIN pipe.mappings
           replayed == [model |-> [f \in dynamic |-> pipe.models[f]],
                        mapping |-> [f \in dynamic |-> pipe.mappings[f]]]
           next == [pipe EXCEPT !.replayed = replayed]
<1>1. Goto("write_model", "replay", next)
  BY DEF ReplayTest
<1>2. replayed = [model |-> [f \in DOMAIN pipe.models \intersect DOMAIN pipe.mappings |-> pipe.models[f]],
                  mapping |-> [f \in DOMAIN pipe.models \intersect DOMAIN pipe.mappings |-> pipe.mappings[f]]]
  OBVIOUS
<1> HIDE DEF replayed
<1>3. /\ DOMAIN next = Fields
      /\ next.profile = pipe.profile /\ next.code = pipe.code /\ next.opened = pipe.opened
      /\ next.tested = pipe.tested /\ next.freeze = pipe.freeze /\ next.frozen = pipe.frozen
      /\ next.replayed = replayed
      /\ next.models = pipe.models /\ next.mappings = pipe.mappings /\ next.family = pipe.family
  BY PipeFields DEF Fields
<1> HIDE DEF next
<1>4. /\ pipe.stage = "replay" /\ pipe'.stage = "write_model" /\ pipe'.frozen = pipe.frozen
      /\ pipe'.replayed = replayed
      /\ pipe'.models = pipe.models /\ pipe'.mappings = pipe.mappings /\ pipe'.family = pipe.family
  BY <1>1, <1>3 DEF Goto, Fields
<1>5. pipe'.family # None => PairIsBound'
  BY <1>4 DEF Inv, WalkInv, PairIsBound, Validations
<1>6. pipe'.frozen = [model |-> pipe'.models, mapping |-> pipe'.mappings]
  BY <1>4 DEF Inv, WalkInv, Frozens, Validations
<1>7. WalkInv'
  BY <1>2, <1>4, <1>5, <1>6 DEF WalkInv
<1>8. "write_model" \in Computing /\ "replay" \in Computing
  BY DEF Computing, WalkStages
<1> QED BY <1>1, <1>3, <1>7, <1>8, PipeFields, GotoKeeps

-----------------------------------------------------------------------------
(* The outputs are written one after the other.                             *)

LEMMA WriteOutputKeeps ==
    ASSUME Inv, NEW file \in OutputFiles, NEW body, NEW from \in Replays, NEW stage \in Replays,
           WriteOutput(file, body, from, [pipe EXCEPT !.stage = stage])
    PROVE  /\ PubInv' /\ PipeInv' /\ LedgerInv' /\ StageInv' /\ ReportInv' /\ WalkInv'
           /\ \A f \in Fields \ {"stage"} : pipe'[f] = pipe[f]
           /\ pipe.stage = from /\ pipe'.stage = stage /\ runs' = runs
           /\ DOMAIN outputs' = OutputFiles
           /\ outputs'[file].run = runs /\ outputs'[file].body = body
           /\ \A f \in OutputFiles \ {file} : outputs'[f] = outputs[f]
           /\ \A f \in OutputFiles : outputs'[f].run \in 1..runs'
<1>1. /\ DOMAIN pipe' = Fields /\ pipe.stage = from /\ pipe'.stage = stage
      /\ \A f \in Fields \ {"stage"} : pipe'[f] = pipe[f]
  BY PipeFields DEF WriteOutput, Fields
<1>2. UNCHANGED <<pubVars, ledgers, reports, runs>>
  BY DEF WriteOutput
<1>3. pipe.stage \in WalkStages /\ pipe'.stage \in WalkStages
  BY <1>1 DEF Replays, WalkStages
<1>4. /\ pipe'.profile = pipe.profile /\ pipe'.code = pipe.code /\ pipe'.opened = pipe.opened
      /\ pipe'.tested = pipe.tested /\ pipe'.freeze = pipe.freeze /\ pipe'.frozen = pipe.frozen
      /\ pipe'.models = pipe.models /\ pipe'.mappings = pipe.mappings /\ pipe'.family = pipe.family
      /\ pipe'.replayed = pipe.replayed
  BY <1>1 DEF Fields
<1>5. PubInv' /\ PipeInv' /\ LedgerInv' /\ StageInv' /\ ReportInv'
  BY <1>1, <1>2, <1>3, <1>4, PipeFields, WalkKeeps
<1>6. WalkInv'
  <2>1. WalkInv
    BY DEF Inv
  <2>2. pipe.stage \in Replays /\ pipe'.stage \in Replays
    BY <1>1
  <2>3. Replays \subseteq Validations /\ Replays \subseteq Frozens
    BY DEF Replays, Validations, Frozens
  <2> QED BY <1>4, <2>1, <2>2, <2>3 DEF WalkInv, PairIsBound
<1>7. DOMAIN outputs = OutputFiles /\ (\A f \in OutputFiles : outputs[f].run \in 1..runs) /\ runs \in 1..runs
  BY ExperimentAssumption DEF Inv, OutputInv, ReportInv
<1>8. /\ DOMAIN outputs' = OutputFiles
      /\ outputs'[file].run = runs /\ outputs'[file].body = body
      /\ \A f \in OutputFiles \ {file} : outputs'[f] = outputs[f]
  BY <1>7 DEF WriteOutput
<1>9. \A f \in OutputFiles : outputs'[f].run \in 1..runs'
  BY <1>2, <1>7, <1>8
<1> QED BY <1>1, <1>2, <1>5, <1>6, <1>8, <1>9

(* The selected pair, while the outputs are written.                        *)
LEMMA PairIsReady ==
    ASSUME Inv, pipe.stage \in Replays
    PROVE  /\ pipe.family # None =>
                /\ PairIsBound /\ Selected
                /\ pipe.frozen.model[pipe.family] = pipe.models[pipe.family]
                /\ pipe.frozen.mapping[pipe.family] = pipe.mappings[pipe.family]
                /\ pipe.frozen = pipe.replayed
<1>1. WalkInv /\ pipe.stage \in Validations /\ pipe.stage \in Frozens
  BY DEF Inv, Replays, Validations, Frozens
<1> SUFFICES ASSUME pipe.family # None
             PROVE  /\ PairIsBound /\ Selected
                    /\ pipe.frozen.model[pipe.family] = pipe.models[pipe.family]
                    /\ pipe.frozen.mapping[pipe.family] = pipe.mappings[pipe.family]
                    /\ pipe.frozen = pipe.replayed
  OBVIOUS
<1>2. PairIsBound /\ Selected
  BY <1>1 DEF WalkInv, PairIsBound, Selected
<1>3. pipe.frozen = [model |-> pipe.models, mapping |-> pipe.mappings]
  BY <1>1 DEF WalkInv
<1>4. pipe.frozen = pipe.replayed
  <2>1. DOMAIN pipe.models = DOMAIN pipe.mappings
    BY <1>2 DEF PairIsBound
  <2>2. /\ pipe.models = [f \in DOMAIN pipe.models \intersect DOMAIN pipe.mappings |-> pipe.models[f]]
        /\ pipe.mappings = [f \in DOMAIN pipe.models \intersect DOMAIN pipe.mappings |-> pipe.mappings[f]]
    BY <1>2, <2>1 DEF PairIsBound
  <2> QED BY <1>1, <1>3, <2>2 DEF WalkInv
<1> QED BY <1>2, <1>3, <1>4

LEMMA WriteModelInv == Inv /\ WriteModel => Inv'
<1> SUFFICES ASSUME Inv, WriteModel PROVE Inv'
  OBVIOUS
<1> DEFINE body == IF Selected THEN pipe.models[pipe.family] ELSE Nothing
<1>1. WriteOutput("model", body, "write_model", [pipe EXCEPT !.stage = "write_mapping"])
  BY DEF WriteModel
<1>2. "model" \in OutputFiles /\ "write_model" \in Replays /\ "write_mapping" \in Replays
  BY DEF OutputFiles, Replays
<1>3. pipe.stage = "write_model" /\ pipe.stage \in Replays
  BY <1>1, <1>2 DEF WriteOutput
<1>4. pipe.family # None => body = pipe.models[pipe.family]
  BY <1>3, PairIsReady
<1> HIDE DEF body
<1>5. /\ PubInv' /\ PipeInv' /\ LedgerInv' /\ StageInv' /\ ReportInv' /\ WalkInv'
      /\ \A f \in Fields \ {"stage"} : pipe'[f] = pipe[f]
      /\ pipe'.stage = "write_mapping" /\ runs' = runs
      /\ DOMAIN outputs' = OutputFiles
      /\ outputs'["model"].run = runs /\ outputs'["model"].body = body
      /\ \A f \in OutputFiles \ {"model"} : outputs'[f] = outputs[f]
      /\ \A f \in OutputFiles : outputs'[f].run \in 1..runs'
  BY <1>1, <1>2, WriteOutputKeeps
<1>6. pipe'.family = pipe.family /\ pipe'.models = pipe.models
  BY <1>5 DEF Fields
<1>7. /\ outputs'["mapping"] = outputs["mapping"] /\ outputs'["json"] = outputs["json"]
      /\ outputs'["markdown"] = outputs["markdown"]
  BY <1>5 DEF OutputFiles
<1>8. /\ outputs["markdown"].run =< outputs["json"].run /\ outputs["json"].run =< outputs["mapping"].run
      /\ outputs["mapping"].run =< outputs["model"].run /\ outputs["model"].run < runs
      /\ \A f \in OutputFiles : outputs[f].run \in 1..runs
      /\ runs \in Nat
  BY <1>3, ExperimentAssumption DEF Inv, OutputInv, ReportInv, ReportFollowsArtifacts, Replays, WalkStages
<1>9. \A f \in OutputFiles : outputs[f].run \in Int
  BY <1>8
<1>10. outputs["mapping"].run < runs /\ outputs["json"].run < runs
  BY <1>8, <1>9 DEF OutputFiles
<1>11. OutputInv'
  BY <1>4, <1>5, <1>6, <1>7, <1>10 DEF OutputInv
<1>12. ReportFollowsArtifacts'
  <2>1. \A f \in OutputFiles : outputs[f].run =< runs
    BY <1>8, <1>9
  <2>2. /\ outputs'["markdown"].run =< outputs'["json"].run
        /\ outputs'["json"].run =< outputs'["mapping"].run
        /\ outputs'["mapping"].run =< outputs'["model"].run
    BY <1>5, <1>7, <1>8, <2>1 DEF OutputFiles
  <2>3. outputs'["model"].run # outputs'["json"].run
    BY <1>5, <1>7, <1>8, <1>9, <1>10 DEF OutputFiles
  <2> QED BY <2>2, <2>3 DEF ReportFollowsArtifacts
<1> QED BY <1>5, <1>11, <1>12 DEF Inv

LEMMA WriteMappingInv == Inv /\ WriteMapping => Inv'
<1> SUFFICES ASSUME Inv, WriteMapping PROVE Inv'
  OBVIOUS
<1> DEFINE body == IF Selected THEN pipe.mappings[pipe.family] ELSE Nothing
<1>1. WriteOutput("mapping", body, "write_mapping", [pipe EXCEPT !.stage = "write_json"])
  BY DEF WriteMapping
<1>2. "mapping" \in OutputFiles /\ "write_mapping" \in Replays /\ "write_json" \in Replays
  BY DEF OutputFiles, Replays
<1>3. pipe.stage = "write_mapping" /\ pipe.stage \in Replays
  BY <1>1, <1>2 DEF WriteOutput
<1>4. pipe.family # None => body = pipe.mappings[pipe.family]
  BY <1>3, PairIsReady
<1> HIDE DEF body
<1>5. /\ PubInv' /\ PipeInv' /\ LedgerInv' /\ StageInv' /\ ReportInv' /\ WalkInv'
      /\ \A f \in Fields \ {"stage"} : pipe'[f] = pipe[f]
      /\ pipe'.stage = "write_json" /\ runs' = runs
      /\ DOMAIN outputs' = OutputFiles
      /\ outputs'["mapping"].run = runs /\ outputs'["mapping"].body = body
      /\ \A f \in OutputFiles \ {"mapping"} : outputs'[f] = outputs[f]
      /\ \A f \in OutputFiles : outputs'[f].run \in 1..runs'
  BY <1>1, <1>2, WriteOutputKeeps
<1>6. pipe'.family = pipe.family /\ pipe'.models = pipe.models /\ pipe'.mappings = pipe.mappings
  BY <1>5 DEF Fields
<1>7. /\ outputs'["model"] = outputs["model"] /\ outputs'["json"] = outputs["json"]
      /\ outputs'["markdown"] = outputs["markdown"]
  BY <1>5 DEF OutputFiles
<1>8. /\ outputs["markdown"].run =< outputs["json"].run /\ outputs["json"].run =< outputs["mapping"].run
      /\ outputs["model"].run = runs /\ outputs["mapping"].run < runs
      /\ pipe.family # None => outputs["model"].body = pipe.models[pipe.family]
      /\ \A f \in OutputFiles : outputs[f].run \in 1..runs
      /\ runs \in Nat
  BY <1>3, ExperimentAssumption DEF Inv, OutputInv, ReportInv, ReportFollowsArtifacts, Replays, WalkStages
<1>9. \A f \in OutputFiles : outputs[f].run \in Int
  BY <1>8
<1>10. outputs["json"].run < runs
  BY <1>8, <1>9 DEF OutputFiles
<1>11. OutputInv'
  BY <1>4, <1>5, <1>6, <1>7, <1>8, <1>10 DEF OutputInv
<1>12. ReportFollowsArtifacts'
  <2>1. \A f \in OutputFiles : outputs[f].run =< runs
    BY <1>8, <1>9
  <2>2. /\ outputs'["markdown"].run =< outputs'["json"].run
        /\ outputs'["json"].run =< outputs'["mapping"].run
        /\ outputs'["mapping"].run =< outputs'["model"].run
    BY <1>5, <1>7, <1>8, <2>1 DEF OutputFiles
  <2>3. outputs'["model"].run # outputs'["json"].run
    BY <1>5, <1>7, <1>8, <1>9, <1>10 DEF OutputFiles
  <2> QED BY <2>2, <2>3 DEF ReportFollowsArtifacts
<1> QED BY <1>5, <1>11, <1>12 DEF Inv

(* The report is written last, when the pair it describes is in place.      *)
LEMMA WriteJsonInv == Inv /\ WriteJson => Inv'
<1> SUFFICES ASSUME Inv, WriteJson PROVE Inv'
  OBVIOUS
<1> DEFINE body == [frozen |-> pipe.frozen, replayed |-> pipe.replayed, family |-> pipe.family]
<1>1. WriteOutput("json", body, "write_json", [pipe EXCEPT !.stage = "write_markdown"])
  BY DEF WriteJson
<1>2. "json" \in OutputFiles /\ "write_json" \in Replays /\ "write_markdown" \in Replays
  BY DEF OutputFiles, Replays
<1>3. pipe.stage = "write_json" /\ pipe.stage \in Replays
  BY <1>1, <1>2 DEF WriteOutput
<1>4. body.frozen = pipe.frozen /\ body.replayed = pipe.replayed /\ body.family = pipe.family
  OBVIOUS
<1> HIDE DEF body
<1>5. /\ PubInv' /\ PipeInv' /\ LedgerInv' /\ StageInv' /\ ReportInv' /\ WalkInv'
      /\ pipe'.stage = "write_markdown" /\ runs' = runs
      /\ DOMAIN outputs' = OutputFiles
      /\ outputs'["json"].run = runs /\ outputs'["json"].body = body
      /\ \A f \in OutputFiles \ {"json"} : outputs'[f] = outputs[f]
      /\ \A f \in OutputFiles : outputs'[f].run \in 1..runs'
  BY <1>1, <1>2, WriteOutputKeeps
<1>6. /\ outputs'["model"] = outputs["model"] /\ outputs'["mapping"] = outputs["mapping"]
      /\ outputs'["markdown"] = outputs["markdown"]
  BY <1>5 DEF OutputFiles
<1>7. /\ outputs["markdown"].run =< outputs["json"].run /\ outputs["mapping"].run =< outputs["model"].run
      /\ outputs["mapping"].run = runs /\ outputs["json"].run < runs
      /\ pipe.family # None => /\ outputs["model"].body = pipe.models[pipe.family]
                               /\ outputs["mapping"].body = pipe.mappings[pipe.family]
      /\ \A f \in OutputFiles : outputs[f].run \in 1..runs
      /\ runs \in Nat
  BY <1>3, ExperimentAssumption DEF Inv, OutputInv, ReportInv, ReportFollowsArtifacts, Replays, WalkStages
<1>8. \A f \in OutputFiles : outputs[f].run \in Int
  BY <1>7
<1>9. outputs["markdown"].run =< runs
  BY <1>7, <1>8 DEF OutputFiles
<1>10. OutputInv'
  BY <1>5 DEF OutputInv
<1>11. body.family # None =>
         /\ body.frozen.model[body.family] = outputs["model"].body
         /\ body.frozen.mapping[body.family] = outputs["mapping"].body
         /\ body.frozen = body.replayed
         /\ outputs["mapping"].body.model = outputs["model"].body
  BY <1>3, <1>4, <1>7, PairIsReady DEF PairIsBound
<1>12. ReportFollowsArtifacts'
  <2>1. /\ outputs'["markdown"].run =< outputs'["json"].run
        /\ outputs'["json"].run =< outputs'["mapping"].run
        /\ outputs'["mapping"].run =< outputs'["model"].run
    BY <1>5, <1>6, <1>7, <1>9
  <2> QED BY <1>5, <1>6, <1>11, <2>1 DEF ReportFollowsArtifacts
<1> QED BY <1>5, <1>10, <1>12 DEF Inv

LEMMA WriteMarkdownInv == Inv /\ WriteMarkdown => Inv'
<1> SUFFICES ASSUME Inv, WriteMarkdown PROVE Inv'
  OBVIOUS
<1>1. /\ pipe.stage = "write_markdown" /\ pipe' = Stopped
      /\ outputs' = [outputs EXCEPT !["markdown"] = [run |-> runs, body |-> Nothing]]
      /\ UNCHANGED <<pubVars, ledgers, reports, runs>>
  BY DEF WriteMarkdown, WriteOutput
<1>2. PubInv'
  BY <1>1, PubStutter DEF Inv
<1>3. PipeInv' /\ LedgerInv' /\ StageInv' /\ ReportInv' /\ WalkInv'
  BY <1>1, StopKeeps
<1>4. /\ DOMAIN outputs = OutputFiles /\ (\A f \in OutputFiles : outputs[f].run \in 1..runs)
      /\ runs \in 1..runs /\ outputs["json"].run = runs
  BY <1>1, ExperimentAssumption DEF Inv, OutputInv, ReportInv, WalkStages
<1>5. /\ DOMAIN outputs' = OutputFiles /\ outputs'["markdown"].run = runs
      /\ \A f \in OutputFiles \ {"markdown"} : outputs'[f] = outputs[f]
  BY <1>1, <1>4 DEF OutputFiles
<1>6. OutputInv'
  <2>1. pipe'.stage \notin WalkStages
    BY <1>1, StoppedFields DEF WalkStages, None
  <2>2. \A f \in OutputFiles : outputs'[f].run \in 1..runs'
    BY <1>1, <1>4, <1>5
  <2> QED BY <1>5, <2>1, <2>2 DEF OutputInv
<1>7. ReportFollowsArtifacts'
  <2>1. /\ outputs'["model"] = outputs["model"] /\ outputs'["mapping"] = outputs["mapping"]
        /\ outputs'["json"] = outputs["json"]
    BY <1>5 DEF OutputFiles
  <2>2. outputs'["markdown"].run =< outputs'["json"].run
    BY <1>4, <1>5, <2>1
  <2> QED BY <2>1, <2>2 DEF Inv, ReportFollowsArtifacts
<1> QED BY <1>2, <1>3, <1>6, <1>7 DEF Inv

-----------------------------------------------------------------------------
(* The results.                                                             *)

LEMMA NextInv == Inv /\ [Next]_vars => Inv'
<1> SUFFICES ASSUME Inv, [Next]_vars PROVE Inv'
  OBVIOUS
<1>1. CASE \E profile \in {"three_day", "walk_forward"}, code \in Codes, resume \in BOOLEAN :
             Start(profile, code, resume)
  BY <1>1, StartInv
<1>2. CASE ThreeDay
  <2>1. CASE \E phase \in Phases : OpenLedger(phase) \/ AppendDay(phase)
    BY <2>1, OpenLedgerInv, AppendDayInv
  <2>2. CASE VerifySources \/ FitModel \/ FreezeCandidates \/ LoadMappingEvidence \/ ReportValidation
             \/ SelectBaseline
    BY <2>2, PlainStages
  <2>3. CASE BuildStrictMapping \/ RebuildFinalMapping
    BY <2>3, MappingStages
  <2>4. CASE CreateFreeze \/ LoadTestInputs \/ RunComparisons
    BY <2>4, CreateFreezeInv, LoadTestInputsInv, RunComparisonsInv
  <2>5. CASE PublishReport \/ PublishModelFailure \/ WriteFiles \/ EndPublication
    BY <2>5, PublishReportInv, PublishModelFailureInv, WriteFilesInv, EndPublicationInv
  <2> QED BY <1>2, <2>1, <2>2, <2>3, <2>4, <2>5 DEF ThreeDay
<1>3. CASE WalkForward
  <2>1. CASE LoadInputs \/ Prepare \/ EvaluateModels \/ BuildMappings
    BY <2>1, EarlyStages
  <2>2. CASE Validate \/ FreezeArtifacts \/ LoadTestReplayInputs \/ ReplayTest
    BY <2>2, ValidateInv, FreezeArtifactsInv, LoadTestReplayInputsInv, ReplayTestInv
  <2>3. CASE WriteModel \/ WriteMapping \/ WriteJson \/ WriteMarkdown
    BY <2>3, WriteModelInv, WriteMappingInv, WriteJsonInv, WriteMarkdownInv
  <2> QED BY <1>3, <2>1, <2>2, <2>3 DEF WalkForward
<1>4. CASE Fails
  BY <1>4, FailsInv
<1>5. CASE Crash
  BY <1>5, CrashInv
<1>6. CASE UNCHANGED vars
  <2>1. UNCHANGED <<pubVars, pipe, ledgers, outputs, reports, runs>>
    BY <1>6 DEF vars
  <2>2. PubInv'
    BY <2>1, PubStutter DEF Inv
  <2>3. PipeInv' /\ ReportInv'
    BY <2>1 DEF Inv, PipeInv, ReportInv, ReportIsBacked
  <2>4. LedgerInv'
    BY <2>1 DEF Inv, LedgerInv
  <2>5. StageInv'
    BY <2>1 DEF Inv, StageInv, Entered
  <2>6. WalkInv' /\ OutputInv' /\ ReportFollowsArtifacts'
    BY <2>1 DEF Inv, WalkInv, PairIsBound, OutputInv, ReportFollowsArtifacts
  <2> QED BY <2>2, <2>3, <2>4, <2>5, <2>6 DEF Inv
<1> QED BY <1>1, <1>2, <1>3, <1>4, <1>5, <1>6 DEF Next

LEMMA SpecInv == Spec => []Inv
<1>1. Init => Inv
  BY InitInv
<1>2. Inv /\ [Next]_vars => Inv'
  BY NextInv
<1> QED BY <1>1, <1>2, PTL DEF Spec

(* Whatever fails, and wherever a run of write_bytes_atomic dies, the       *)
(* contents of the last complete publication are on disk, and a call that   *)
(* ends has put all the files in place, or none unless its rollback failed. *)
THEOREM PublicationStaysRecoverable == Spec => []PublicationIsRecoverable
<1>1. Inv => PublicationIsRecoverable
  BY PubInvImplies DEF Inv
<1> QED BY <1>1, SpecInv, PTL

(* A report of the three-day profile on disk rests on rows of its own run   *)
(* identity for every day of both phases, and describes the mapping that    *)
(* was frozen before the Test interval was loaded, however often earlier    *)
(* runs, of this or other code, failed and were resumed.                    *)
THEOREM ReportsStayBacked == Spec => []ReportsAreBacked
<1>1. ASSUME Inv PROVE ReportsAreBacked
  <2>1. TypeOK
    <3>1. ASSUME NEW phase \in Phases PROVE Range(ledgers[phase]) \subseteq Codes
      <4>1. ledgers[phase] \in Seq(Codes)
        BY <1>1 DEF Inv, LedgerInv
      <4> QED BY <4>1 DEF Range
    <3>2. \A phase \in Phases : Len(ledgers[phase]) =< Days
      BY <1>1 DEF Inv, LedgerInv
    <3>3. PubTypeOK
      BY <1>1 DEF Inv, PubInv
    <3>4. /\ pipe.profile \in {None, "three_day", "walk_forward"}
          /\ pipe.stage \in Range(Stages) \union WalkStages \union {None, "publishing"}
      BY <1>1 DEF Inv, PipeInv
    <3>5. runs \in 1..MaxRuns /\ DOMAIN reports \subseteq 2..runs
      BY <1>1 DEF Inv, ReportInv
    <3> QED BY <3>1, <3>2, <3>3, <3>4, <3>5 DEF TypeOK
  <2>2. \A n \in DOMAIN reports : ReportIsBacked(reports[n])
    BY <1>1 DEF Inv, ReportInv
  <2>3. EvidenceIsOwn
    BY <2>2 DEF EvidenceIsOwn, ReportIsBacked
  <2>4. TestedIsFrozen
    <3>1. pipe.tested => pipe.freeze # Nothing \/ pipe.frozen # Nothing
      BY <1>1 DEF Inv, StageInv
    <3> QED BY <2>2, <3>1 DEF TestedIsFrozen, ReportIsBacked
  <2> QED BY <2>1, <2>3, <2>4 DEF ReportsAreBacked
<1> QED BY <1>1, SpecInv, PTL

(* The walk-forward outputs on disk are never older than the report that    *)
(* describes them, and those of its run are the pair it froze and replayed, *)
(* wherever a run stopped between two of the files.                         *)
THEOREM ReportsStayBehindArtifacts == Spec => []ReportFollowsArtifacts
<1>1. Inv => ReportFollowsArtifacts
  BY DEF Inv
<1> QED BY <1>1, SpecInv, PTL

-----------------------------------------------------------------------------
(* The feature history that the pipelines load.                            *)

LEMMA ProductsAscend ==
    ASSUME NEW n \in Int, NEW m \in Int, NEW d \in Nat \ {0}, n < m
    PROVE  n * d < m * d
<1>1. (m - n) * d >= 1
  OBVIOUS
<1>2. m * d - n * d = (m - n) * d
  OBVIOUS
<1>3. m * d \in Int /\ n * d \in Int
  OBVIOUS
<1> QED BY <1>1, <1>2, <1>3

LEMMA IntervalTypes ==
    /\ WindowLength \in Nat /\ WindowLength >= 1 /\ DayLength \in Nat \ {0}
    /\ HistoryStart \in Int /\ HistoryEnd \in Int
    /\ HistoryStart + WindowLength < HistoryEnd
<1> USE HistoryAssumption
<1>1. WindowLength \in Nat /\ WindowLength >= 1
  BY DEF WindowLength
<1>2. 3 * DayLength < HistoryDays * DayLength
  BY ProductsAscend
<1>3. HistoryDays * DayLength \in Int
  OBVIOUS
<1> QED BY <1>1, <1>2, <1>3 DEF HistoryEnd, WindowLength

LEMMA EpisodesAscend ==
    /\ DOMAIN Episodes = 1..(HistoryDays - 3) /\ HistoryDays - 3 \in Nat
    /\ \A i \in DOMAIN Episodes :
         /\ Episodes[i] \in Int
         /\ HistoryStart + WindowLength <= Episodes[i] /\ Episodes[i] < HistoryEnd
    /\ \A i, j \in DOMAIN Episodes : i < j => Episodes[i] < Episodes[j]
<1> USE HistoryAssumption
<1>1. DOMAIN Episodes = 1..(HistoryDays - 3) /\ HistoryDays - 3 \in Nat
  BY DEF Episodes
<1>2. ASSUME NEW i \in DOMAIN Episodes
      PROVE  /\ (i - 1) * DayLength \in Int /\ (i - 1) * DayLength >= 0
             /\ Episodes[i] = HistoryStart + WindowLength + (i - 1) * DayLength
  <2>1. i \in Nat /\ i >= 1
    BY <1>1
  <2>2. (i - 1) * DayLength \in Nat
    BY <2>1
  <2> QED BY <2>2, <1>1 DEF Episodes
<1>3. ASSUME NEW i \in DOMAIN Episodes PROVE Episodes[i] < HistoryEnd
  <2>1. i - 1 \in Int /\ HistoryDays - 3 \in Int /\ i - 1 < HistoryDays - 3
    BY <1>1
  <2>2. (i - 1) * DayLength < (HistoryDays - 3) * DayLength
    BY <2>1, ProductsAscend
  <2>3. (HistoryDays - 3) * DayLength = HistoryDays * DayLength - 3 * DayLength
    OBVIOUS
  <2>4. HistoryDays * DayLength \in Int
    OBVIOUS
  <2> QED BY <1>2, <2>2, <2>3, <2>4 DEF HistoryEnd, WindowLength
<1>4. ASSUME NEW i \in DOMAIN Episodes, NEW j \in DOMAIN Episodes, i < j
      PROVE  Episodes[i] < Episodes[j]
  <2>1. i - 1 \in Int /\ j - 1 \in Int /\ i - 1 < j - 1
    BY <1>1, <1>4
  <2>2. (i - 1) * DayLength < (j - 1) * DayLength
    BY <2>1, ProductsAscend
  <2> QED BY <1>2, <2>2, IntervalTypes
<1> QED BY <1>1, <1>2, <1>3, <1>4, IntervalTypes

LEMMA MinutesAre ==
    ASSUME NEW first \in Int, NEW end \in Int, first <= end
    PROVE  /\ Minutes(first, end) \in Seq(Int)
           /\ Len(Minutes(first, end)) = end - first
           /\ DOMAIN Minutes(first, end) = 1..(end - first)
           /\ \A i \in 1..(end - first) : Minutes(first, end)[i] = first + i - 1
BY DEF Minutes

LEMMA MinutesGoOn ==
    ASSUME NEW first \in Int, NEW end \in Int, first <= end
    PROVE  Append(Minutes(first, end), end) = Minutes(first, end + 1)
<1> DEFINE longer == Append(Minutes(first, end), end)
<1> HIDE DEF longer
<1>0. /\ Minutes(first, end) \in Seq(Int) /\ Len(Minutes(first, end)) = end - first
      /\ \A i \in 1..(end - first) : Minutes(first, end)[i] = first + i - 1
  BY MinutesAre
<1>1. longer \in Seq(Int) /\ Len(longer) = end + 1 - first
  BY <1>0 DEF longer
<1>2. ASSUME NEW i \in 1..(end + 1 - first) PROVE longer[i] = first + i - 1
  <2>1. CASE i \in 1..(end - first)
    <3>1. i \in 1..Len(Minutes(first, end))
      BY <1>0, <2>1
    <3>2. longer[i] = Minutes(first, end)[i]
      BY <1>0, <3>1 DEF longer
    <3> QED BY <1>0, <2>1, <3>2
  <2>2. CASE i = end - first + 1
    BY <1>0, <2>2 DEF longer
  <2> QED BY <2>1, <2>2
<1>3. /\ Minutes(first, end + 1) \in Seq(Int) /\ Len(Minutes(first, end + 1)) = end + 1 - first
      /\ \A i \in 1..(end + 1 - first) : Minutes(first, end + 1)[i] = first + i - 1
  BY MinutesAre
<1>4. longer = Minutes(first, end + 1)
  BY <1>1, <1>2, <1>3, SeqEqual
<1> QED BY <1>4 DEF longer

LEMMA MinutesFallOut ==
    ASSUME NEW first \in Int, NEW end \in Int, first < end
    PROVE  Tail(Minutes(first, end)) = Minutes(first + 1, end)
<1> DEFINE rest == Tail(Minutes(first, end))
<1>1. /\ Minutes(first, end) \in Seq(Int) /\ Len(Minutes(first, end)) = end - first
      /\ \A i \in 1..(end - first) : Minutes(first, end)[i] = first + i - 1
  BY MinutesAre
<1>2. rest \in Seq(Int) /\ Len(rest) = end - first - 1
  BY <1>1
<1>3. \A i \in 1..(end - first - 1) : rest[i] = Minutes(first, end)[i + 1]
  BY <1>1
<1>4. \A i \in 1..(end - first - 1) : rest[i] = first + i
  BY <1>1, <1>3
<1>5. /\ Minutes(first + 1, end) \in Seq(Int) /\ Len(Minutes(first + 1, end)) = end - first - 1
      /\ \A i \in 1..(end - first - 1) : Minutes(first + 1, end)[i] = first + i
  BY MinutesAre
<1> HIDE DEF rest
<1>6. rest = Minutes(first + 1, end)
  BY <1>2, <1>4, <1>5, SeqEqual
<1> QED BY <1>6 DEF rest

(* The window before a minute: three days, or what there is of them.        *)
WindowBegin(minute) ==
    IF minute - WindowLength < HistoryStart THEN HistoryStart ELSE minute - WindowLength

WindowAt(minute) == Minutes(WindowBegin(minute), minute)

LEMMA WindowSlides ==
    ASSUME NEW minute \in Int, HistoryStart <= minute
    PROVE  Slides(WindowAt(minute), minute) = WindowAt(minute + 1)
<1>1. WindowBegin(minute) \in Int /\ WindowBegin(minute) <= minute
  BY IntervalTypes DEF WindowBegin
<1>2. Append(WindowAt(minute), minute) = Minutes(WindowBegin(minute), minute + 1)
  BY <1>1, MinutesGoOn DEF WindowAt
<1>3. Len(Minutes(WindowBegin(minute), minute + 1)) = minute + 1 - WindowBegin(minute)
  <2>1. minute + 1 \in Int /\ WindowBegin(minute) <= minute + 1
    BY <1>1
  <2> DEFINE end == minute + 1
  <2> HIDE DEF end
  <2>2. end \in Int /\ WindowBegin(minute) <= end
    BY <2>1 DEF end
  <2>3. Len(Minutes(WindowBegin(minute), end)) = end - WindowBegin(minute)
    BY <1>1, <2>2, MinutesAre
  <2> QED BY <1>1, <2>3 DEF end
<1>4. CASE minute - WindowLength < HistoryStart
  <2>1. WindowBegin(minute) = HistoryStart /\ WindowBegin(minute + 1) = HistoryStart
    BY <1>4, IntervalTypes DEF WindowBegin
  <2>2. ~(minute + 1 - HistoryStart > WindowLength)
    BY <1>4, IntervalTypes
  <2> QED BY <1>2, <1>3, <2>1, <2>2 DEF Slides, WindowAt
<1>5. CASE ~(minute - WindowLength < HistoryStart)
  <2>1. /\ WindowBegin(minute) = minute - WindowLength
        /\ WindowBegin(minute + 1) = WindowBegin(minute) + 1
    BY <1>5, IntervalTypes DEF WindowBegin
  <2>2. minute + 1 - WindowBegin(minute) > WindowLength
    BY <2>1, IntervalTypes
  <2>3. Tail(Minutes(WindowBegin(minute), minute + 1)) = Minutes(WindowBegin(minute) + 1, minute + 1)
    BY <1>1, MinutesFallOut
  <2> QED BY <1>2, <1>3, <2>1, <2>2, <2>3 DEF Slides, WindowAt
<1> QED BY <1>4, <1>5

LEMMA WindowOfEpisode ==
    ASSUME NEW i \in DOMAIN Episodes
    PROVE  /\ WindowAt(Episodes[i]) = Minutes(Episodes[i] - WindowLength, Episodes[i])
           /\ Len(WindowAt(Episodes[i])) = WindowLength
           /\ WindowAt(Episodes[i])[1] = Episodes[i] - WindowLength
           /\ WindowAt(Episodes[i]) \in Seq(Int)
<1>1. Episodes[i] \in Int /\ HistoryStart + WindowLength <= Episodes[i]
  BY EpisodesAscend
<1>2. WindowBegin(Episodes[i]) = Episodes[i] - WindowLength
  BY <1>1, IntervalTypes DEF WindowBegin
<1>3. /\ Minutes(Episodes[i] - WindowLength, Episodes[i]) \in Seq(Int)
      /\ Len(Minutes(Episodes[i] - WindowLength, Episodes[i])) = WindowLength
      /\ Minutes(Episodes[i] - WindowLength, Episodes[i])[1] = Episodes[i] - WindowLength
  <2>1. Episodes[i] - WindowLength \in Int /\ Episodes[i] - WindowLength <= Episodes[i]
    BY <1>1, IntervalTypes
  <2>2. Episodes[i] - (Episodes[i] - WindowLength) = WindowLength /\ 1 \in 1..WindowLength
    BY <1>1, IntervalTypes
  <2> DEFINE first == Episodes[i] - WindowLength
  <2>3. /\ Minutes(first, Episodes[i]) \in Seq(Int)
        /\ Len(Minutes(first, Episodes[i])) = Episodes[i] - first
        /\ \A n \in 1..(Episodes[i] - first) : Minutes(first, Episodes[i])[n] = first + n - 1
    BY <1>1, <2>1, MinutesAre
  <2> QED BY <1>1, <2>1, <2>2, <2>3
<1> QED BY <1>2, <1>3 DEF WindowAt

-----------------------------------------------------------------------------
WasRead(row) == row \in ArchiveRows /\ Earlier(row, <<archiveNo, rowNo>>)
RowCounts(row) == row \in ArchiveRows /\ InInterval(OpenedAt(row))

LoadingOK ==
    /\ kline \in Seq(Seq(Int))
    /\ archiveNo \in Nat \ {0} /\ rowNo \in Nat \ {0}
    /\ expectedMinute \in Int /\ HistoryStart <= expectedMinute /\ expectedMinute <= HistoryEnd
    /\ loading \in {"loading", "accepted", "refused"}
    /\ window = WindowAt(expectedMinute)
    /\ vectors \in Seq([anchor : Int, candles : Seq(Int)])

(* What was read of the interval are its minutes up to the expected one,    *)
(* once each and in order.                                                 *)
ReadOK ==
    /\ \A a \in DOMAIN kline : a < archiveNo => kline[a] # <<>>
    /\ \A row : RowCounts(row) /\ WasRead(row) => OpenedAt(row) < expectedMinute
    /\ \A minute \in HistoryStart..(expectedMinute - 1) :
         \E row : WasRead(row) /\ OpenedAt(row) = minute
    /\ \A row, other :
         /\ RowCounts(row) /\ RowCounts(other) /\ WasRead(row) /\ WasRead(other)
         /\ Earlier(row, other)
         => OpenedAt(row) < OpenedAt(other)

HistoryInv ==
    /\ LoadingOK
    /\ VectorsAreAsOf
    /\ loading = "loading" => ReadOK
    /\ AcceptanceIsExact

LEMMA RowsAre ==
    ASSUME kline \in Seq(Seq(Int)), NEW row
    PROVE  row \in ArchiveRows <=>
             \E a \in 1..Len(kline) : \E i \in 1..Len(kline[a]) : row = <<a, i>>
<1>1. \A a \in 1..Len(kline) : kline[a] \in Seq(Int)
  OBVIOUS
<1>2. DOMAIN kline = 1..Len(kline) /\ \A a \in 1..Len(kline) : DOMAIN kline[a] = 1..Len(kline[a])
  BY <1>1
<1>3. row \in ArchiveRows <=> \E a \in DOMAIN kline : row \in {a} \X DOMAIN kline[a]
  BY Zenon DEF ArchiveRows
<1> QED BY <1>2, <1>3

LEMMA RowTypes ==
    ASSUME kline \in Seq(Seq(Int)), NEW row \in ArchiveRows
    PROVE  /\ row = <<row[1], row[2]>>
           /\ row[1] \in DOMAIN kline /\ row[1] \in Nat \ {0}
           /\ row[2] \in Nat \ {0} /\ row[2] <= Len(kline[row[1]])
           /\ kline[row[1]] # <<>>
           /\ OpenedAt(row) \in Int
<1>1. PICK a \in 1..Len(kline) : \E i \in 1..Len(kline[a]) : row = <<a, i>>
  BY RowsAre
<1>2. PICK i \in 1..Len(kline[a]) : row = <<a, i>>
  BY <1>1
<1>3. row[1] = a /\ row[2] = i
  BY <1>2
<1>4. kline[a] \in Seq(Int)
  OBVIOUS
<1>5. kline[a][i] \in Int /\ i \in Nat \ {0} /\ i <= Len(kline[a]) /\ kline[a] # <<>>
  BY <1>4
<1>6. OpenedAt(row) = kline[a][i]
  BY <1>3 DEF OpenedAt
<1> QED BY <1>2, <1>3, <1>5, <1>6

(* The archives do not change, so neither does what is said of them.        *)
LEMMA ArchivesStay ==
    ASSUME kline' = kline
    PROVE  /\ ArchiveRows' = ArchiveRows
           /\ IsWhole' = IsWhole
           /\ \A row : OpenedAt(row)' = OpenedAt(row) /\ RowCounts(row)' = RowCounts(row)
           /\ \A row, other : Earlier(row, other)' = Earlier(row, other)
<1>1. ArchiveRows' = ArchiveRows
  BY DEF ArchiveRows
<1>2. \A row : OpenedAt(row)' = OpenedAt(row)
  BY DEF OpenedAt
<1>3. \A row, other : Earlier(row, other)' = Earlier(row, other)
  BY DEF Earlier
<1>4. \A row : RowCounts(row)' = RowCounts(row)
  BY <1>1, <1>2 DEF RowCounts, InInterval, HistoryEnd
<1>5. IsWhole' = IsWhole
  BY <1>1, <1>2, <1>3 DEF IsWhole, InInterval, HistoryEnd
<1> QED BY <1>1, <1>2, <1>3, <1>4, <1>5

(* Whole archives have the expected minute ahead.                           *)
LEMMA ExpectedIsAhead ==
    ASSUME LoadingOK, ReadOK, IsWhole, expectedMinute < HistoryEnd
    PROVE  \E row : RowCounts(row) /\ ~WasRead(row) /\ OpenedAt(row) = expectedMinute
<1>1. expectedMinute \in HistoryStart..(HistoryEnd - 1)
  BY IntervalTypes DEF LoadingOK
<1>2. PICK row \in ArchiveRows : OpenedAt(row) = expectedMinute
  BY <1>1 DEF IsWhole
<1>3. RowCounts(row)
  BY <1>2 DEF RowCounts, InInterval, LoadingOK
<1>4. ~WasRead(row)
  BY <1>2, <1>3 DEF ReadOK, LoadingOK
<1> QED BY <1>2, <1>3, <1>4

(* The vectors go up to the expected minute.                                *)
LEMMA NextEpisode ==
    ASSUME LoadingOK, VectorsAreAsOf, NEW j \in DOMAIN Episodes, Episodes[j] = expectedMinute + 1
    PROVE  j = Len(vectors) + 1
<1>1. DOMAIN vectors = 1..Len(vectors) /\ Len(vectors) \in Nat
  BY DEF LoadingOK
<1>2. j \notin DOMAIN vectors /\ j \in Nat /\ j >= 1
  BY EpisodesAscend DEF VectorsAreAsOf, LoadingOK
<1>3. j > Len(vectors)
  BY <1>1, <1>2
<1>4. ASSUME j > Len(vectors) + 1 PROVE FALSE
  <2> DEFINE n == Len(vectors) + 1
  <2>1. n \in DOMAIN Episodes /\ n < j /\ n \notin DOMAIN vectors
    BY <1>1, <1>4, EpisodesAscend
  <2> HIDE DEF n
  <2>2. Episodes[n] < Episodes[j] /\ Episodes[n] \in Int
    BY <2>1, EpisodesAscend
  <2>3. Episodes[n] <= expectedMinute
    BY <2>2 DEF LoadingOK
  <2> QED BY <2>1, <2>3 DEF VectorsAreAsOf
<1> QED BY <1>1, <1>2, <1>3, <1>4

-----------------------------------------------------------------------------
(* The row that is read, and what was read after it.                        *)
LEMMA RowAtHand ==
    ASSUME LoadingOK, ReadRow
    PROVE  LET hand == <<archiveNo, rowNo>> IN
           /\ hand \in ArchiveRows /\ ~WasRead(hand)
           /\ OpenedAt(hand) = kline[archiveNo][rowNo]
           /\ \A row : WasRead(row)' <=> WasRead(row) \/ row = hand
           /\ \A row \in ArchiveRows : ~WasRead(row) /\ row # hand => Earlier(hand, row)
<1> DEFINE hand == <<archiveNo, rowNo>>
<1>1. kline \in Seq(Seq(Int)) /\ archiveNo \in Nat \ {0} /\ rowNo \in Nat \ {0}
  BY DEF LoadingOK
<1>2. archiveNo \in 1..Len(kline) /\ rowNo \in 1..Len(kline[archiveNo])
  BY <1>1 DEF ReadRow
<1>3. hand \in ArchiveRows
  BY <1>1, <1>2, RowsAre
<1>4. hand[1] = archiveNo /\ hand[2] = rowNo
  OBVIOUS
<1> HIDE DEF hand
<1>5. \A row : Earlier(row, hand) <=> row[1] < archiveNo \/ (row[1] = archiveNo /\ row[2] < rowNo)
  BY <1>4 DEF Earlier
<1>6. ~WasRead(hand)
  BY <1>1, <1>4, <1>5 DEF WasRead, hand
<1>7. OpenedAt(hand) = kline[archiveNo][rowNo]
  BY <1>4 DEF OpenedAt
<1>8. ASSUME NEW row \in ArchiveRows
      PROVE  /\ Earlier(row, <<archiveNo, rowNo>>)' <=> Earlier(row, hand) \/ row = hand
             /\ ~Earlier(row, hand) /\ row # hand => Earlier(hand, row)
  <2>1. row = <<row[1], row[2]>> /\ row[1] \in Nat /\ row[2] \in Nat
    BY <1>1, RowTypes
  <2>2. row = hand <=> row[1] = archiveNo /\ row[2] = rowNo
    BY <2>1 DEF hand
  <2>3. Earlier(row, <<archiveNo, rowNo>>)' <=>
          row[1] < archiveNo \/ (row[1] = archiveNo /\ row[2] < rowNo + 1)
    BY DEF Earlier, ReadRow
  <2>4. Earlier(hand, row) <=> archiveNo < row[1] \/ (row[1] = archiveNo /\ rowNo < row[2])
    BY <1>4 DEF Earlier
  <2> QED BY <1>1, <1>5, <2>1, <2>2, <2>3, <2>4
<1>9. ArchiveRows' = ArchiveRows
  BY ArchivesStay DEF ReadRow
<1> QED BY <1>3, <1>6, <1>7, <1>8, <1>9 DEF WasRead, hand

(* A row of the interval that is not the expected one: nothing whole.       *)
LEMMA UnexpectedIsNotWhole ==
    ASSUME LoadingOK, ReadOK, ReadRow,
           InInterval(kline[archiveNo][rowNo]), kline[archiveNo][rowNo] # expectedMinute
    PROVE  ~IsWhole
<1> DEFINE hand == <<archiveNo, rowNo>>
<1>1. /\ hand \in ArchiveRows /\ ~WasRead(hand)
      /\ OpenedAt(hand) = kline[archiveNo][rowNo]
      /\ \A row \in ArchiveRows : ~WasRead(row) /\ row # hand => Earlier(hand, row)
  BY RowAtHand
<1>2. \A row : WasRead(row) => Earlier(row, hand)
  BY DEF WasRead
<1> HIDE DEF hand
<1>3. OpenedAt(hand) \in Int /\ expectedMinute \in Int
  BY <1>1, RowTypes DEF LoadingOK
<1>4. InInterval(OpenedAt(hand)) /\ OpenedAt(hand) # expectedMinute
  BY <1>1
<1>5. SUFFICES ASSUME IsWhole PROVE FALSE
  OBVIOUS
<1>6. CASE OpenedAt(hand) < expectedMinute
  <2>1. OpenedAt(hand) \in HistoryStart..(expectedMinute - 1)
    BY <1>3, <1>4, <1>6, IntervalTypes DEF InInterval
  <2>2. PICK row : WasRead(row) /\ OpenedAt(row) = OpenedAt(hand)
    BY <2>1 DEF ReadOK
  <2>3. row \in ArchiveRows /\ Earlier(row, hand)
    BY <1>2, <2>2 DEF WasRead
  <2>4. OpenedAt(row) < OpenedAt(hand)
    BY <1>1, <1>4, <1>5, <2>2, <2>3 DEF IsWhole
  <2> QED BY <1>3, <2>2, <2>4
<1>7. CASE OpenedAt(hand) > expectedMinute
  <2>1. expectedMinute < HistoryEnd
    BY <1>3, <1>4, <1>7, IntervalTypes DEF InInterval
  <2>2. PICK row : RowCounts(row) /\ ~WasRead(row) /\ OpenedAt(row) = expectedMinute
    BY <1>5, <2>1, ExpectedIsAhead
  <2>3. row \in ArchiveRows /\ InInterval(OpenedAt(row)) /\ Earlier(hand, row)
    BY <1>1, <1>4, <2>2 DEF RowCounts
  <2>4. OpenedAt(hand) < OpenedAt(row)
    BY <1>1, <1>4, <1>5, <2>3 DEF IsWhole
  <2> QED BY <1>3, <1>7, <2>2, <2>4
<1> QED BY <1>3, <1>4, <1>6, <1>7

(* The window before an anchor is full.                                     *)
LEMMA AnchorsMeetFullWindows ==
    ASSUME LoadingOK, expectedMinute + 1 \in Anchors
    PROVE  Len(Slides(window, expectedMinute)) = WindowLength
<1>1. PICK j \in DOMAIN Episodes : Episodes[j] = expectedMinute + 1
  BY DEF Anchors
<1>2. Slides(window, expectedMinute) = WindowAt(Episodes[j])
  BY <1>1, WindowSlides DEF LoadingOK
<1> QED BY <1>2, WindowOfEpisode

LEMMA SkippingKeeps ==
    ASSUME HistoryInv, ReadRow, ~InInterval(kline[archiveNo][rowNo])
    PROVE  HistoryInv'
<1> DEFINE hand == <<archiveNo, rowNo>>
<1>1. UNCHANGED <<kline, archiveNo, window, expectedMinute, vectors, loading>> /\ rowNo' = rowNo + 1
  BY DEF ReadRow
<1>2. LoadingOK'
  BY <1>1 DEF HistoryInv, LoadingOK, WindowAt, WindowBegin, Minutes, HistoryEnd
<1>3. VectorsAreAsOf' /\ AcceptanceIsExact'
  BY <1>1, ArchivesStay DEF HistoryInv, VectorsAreAsOf, AcceptanceIsExact
<1>4. ~RowCounts(hand) /\ \A row : WasRead(row)' <=> WasRead(row) \/ row = hand
  BY RowAtHand DEF HistoryInv, RowCounts
<1> HIDE DEF hand
<1>5. ReadOK /\ loading = "loading"
  BY DEF HistoryInv, ReadRow
<1>6. \A row : RowCounts(row) => (WasRead(row)' <=> WasRead(row))
  BY <1>4
<1>7. ReadOK'
  BY <1>1, <1>4, <1>5, <1>6, ArchivesStay DEF ReadOK
<1> QED BY <1>2, <1>3, <1>7 DEF HistoryInv

LEMMA RefusalKeeps ==
    ASSUME HistoryInv, Refuse, kline' = kline, archiveNo' \in Nat \ {0}, rowNo' \in Nat \ {0}, ~IsWhole
    PROVE  HistoryInv'
<1>1. UNCHANGED <<kline, window, expectedMinute, vectors>> /\ loading' = "refused"
  BY DEF Refuse
<1>2. LoadingOK'
  BY <1>1 DEF HistoryInv, LoadingOK, WindowAt, WindowBegin, Minutes, HistoryEnd
<1>3. VectorsAreAsOf'
  BY <1>1 DEF HistoryInv, VectorsAreAsOf
<1>4. AcceptanceIsExact'
  BY <1>1, ArchivesStay DEF AcceptanceIsExact
<1> QED BY <1>1, <1>2, <1>3, <1>4 DEF HistoryInv

(* The expected candle is taken.                                            *)
LEMMA TakingKeeps ==
    ASSUME HistoryInv, ReadRow, loading' = "loading",
           InInterval(kline[archiveNo][rowNo]), kline[archiveNo][rowNo] = expectedMinute,
           window' = Slides(window, expectedMinute), expectedMinute' = expectedMinute + 1,
           vectors' = IF expectedMinute + 1 \in Anchors
                      THEN Append(vectors, [anchor |-> expectedMinute + 1,
                                            candles |-> Slides(window, expectedMinute)])
                      ELSE vectors
    PROVE  HistoryInv'
<1> DEFINE hand == <<archiveNo, rowNo>>
<1>0. LoadingOK /\ VectorsAreAsOf /\ ReadOK
  BY DEF HistoryInv, ReadRow
<1>1. kline' = kline /\ archiveNo' = archiveNo /\ rowNo' = rowNo + 1
  BY DEF ReadRow
<1>2. /\ expectedMinute \in Int /\ HistoryStart <= expectedMinute /\ expectedMinute < HistoryEnd
      /\ window = WindowAt(expectedMinute)
  BY <1>0 DEF InInterval, LoadingOK
<1>3. /\ hand \in ArchiveRows /\ ~WasRead(hand) /\ OpenedAt(hand) = expectedMinute
      /\ \A row : WasRead(row)' <=> WasRead(row) \/ row = hand
  BY <1>0, RowAtHand
<1>4. \A row : WasRead(row) => Earlier(row, hand)
  BY DEF WasRead
<1>5. \A row : WasRead(row) => ~Earlier(hand, row)
  <2>1. ASSUME NEW row, WasRead(row), Earlier(hand, row) PROVE FALSE
    <3>1. row[1] \in Int /\ row[2] \in Int /\ archiveNo \in Int /\ rowNo \in Int
      BY <1>0, <2>1, RowTypes DEF WasRead, LoadingOK
    <3>2. hand[1] = archiveNo /\ hand[2] = rowNo
      OBVIOUS
    <3> QED BY <1>4, <2>1, <3>1, <3>2 DEF Earlier
  <2> QED BY <2>1
<1> HIDE DEF hand
<1>6. window' = WindowAt(expectedMinute + 1)
  BY <1>2, WindowSlides
<1>7. ReadOK'
  <2>1. \A row : RowCounts(row) /\ WasRead(row) => OpenedAt(row) < expectedMinute /\ OpenedAt(row) \in Int
    BY <1>0, RowTypes DEF ReadOK, LoadingOK, RowCounts
  <2>2. \A row : RowCounts(row) /\ (WasRead(row) \/ row = hand) => OpenedAt(row) < expectedMinute + 1
    BY <1>2, <1>3, <2>1
  <2>3. \A minute \in HistoryStart..expectedMinute :
          \E row : (WasRead(row) \/ row = hand) /\ OpenedAt(row) = minute
    <3>1. ASSUME NEW minute \in HistoryStart..expectedMinute
          PROVE  minute \in HistoryStart..(expectedMinute - 1) \/ minute = expectedMinute
      BY <1>2, IntervalTypes
    <3> QED BY <1>0, <1>3, <3>1 DEF ReadOK
  <2>4. ~Earlier(hand, hand)
    <3>1. hand[1] = archiveNo /\ hand[2] = rowNo
      BY DEF hand
    <3> QED BY <1>0, <3>1 DEF Earlier, LoadingOK
  <2>5. \A row, other :
          /\ RowCounts(row) /\ RowCounts(other)
          /\ WasRead(row) \/ row = hand
          /\ WasRead(other) \/ other = hand
          /\ Earlier(row, other)
          => OpenedAt(row) < OpenedAt(other)
    BY <1>0, <1>3, <1>5, <2>1, <2>4 DEF ReadOK
  <2>6. \A a \in DOMAIN kline : a < archiveNo => kline[a] # <<>>
    BY <1>0 DEF ReadOK
  <2>7. expectedMinute' - 1 = expectedMinute
    BY <1>2
  <2>8. /\ \A row : RowCounts(row)' = RowCounts(row) /\ OpenedAt(row)' = OpenedAt(row)
        /\ \A row, other : Earlier(row, other)' = Earlier(row, other)
    BY <1>1, ArchivesStay
  <2>9. (\A a \in DOMAIN kline : a < archiveNo => kline[a] # <<>>)'
    BY <1>1, <2>6
  <2>10. (\A row : RowCounts(row) /\ WasRead(row) => OpenedAt(row) < expectedMinute)'
    BY <1>3, <2>2, <2>8
  <2>11. (\A minute \in HistoryStart..(expectedMinute - 1) :
            \E row : WasRead(row) /\ OpenedAt(row) = minute)'
    BY <1>3, <2>3, <2>7, <2>8
  <2>12. (\A row, other :
            /\ RowCounts(row) /\ RowCounts(other) /\ WasRead(row) /\ WasRead(other)
            /\ Earlier(row, other)
            => OpenedAt(row) < OpenedAt(other))'
    BY <1>3, <2>5, <2>8
  <2> QED BY <2>9, <2>10, <2>11, <2>12 DEF ReadOK
<1>8. VectorsAreAsOf' /\ vectors' \in Seq([anchor : Int, candles : Seq(Int)])
  <2>1. /\ DOMAIN vectors = 1..Len(vectors) /\ Len(vectors) \in Nat
        /\ vectors \in Seq([anchor : Int, candles : Seq(Int)])
    BY <1>0 DEF LoadingOK
  <2>2. CASE expectedMinute + 1 \in Anchors
    <3>1. PICK j \in DOMAIN Episodes : Episodes[j] = expectedMinute + 1
      BY <2>2 DEF Anchors
    <3>2. j = Len(vectors) + 1
      BY <1>0, <3>1, NextEpisode
    <3> DEFINE v == [anchor |-> Episodes[j], candles |-> WindowAt(Episodes[j])]
    <3>3. vectors' = Append(vectors, v)
      BY <1>6, <2>2, <3>1
    <3>4. v \in [anchor : Int, candles : Seq(Int)]
      BY EpisodesAscend, WindowOfEpisode
    <3>5. v.anchor = Episodes[j] /\ v.candles = Minutes(Episodes[j] - WindowLength, Episodes[j])
      BY WindowOfEpisode
    <3> HIDE DEF v
    <3>6. /\ vectors' \in Seq([anchor : Int, candles : Seq(Int)])
          /\ DOMAIN vectors' = 1..j /\ vectors'[j] = v
          /\ \A i \in 1..Len(vectors) : vectors'[i] = vectors[i]
      <4>1. /\ Append(vectors, v) \in Seq([anchor : Int, candles : Seq(Int)])
            /\ Len(Append(vectors, v)) = Len(vectors) + 1
            /\ Append(vectors, v)[Len(vectors) + 1] = v
            /\ \A i \in 1..Len(vectors) : Append(vectors, v)[i] = vectors[i]
        BY <2>1, <3>4, AppendProperties
      <4>2. DOMAIN Append(vectors, v) = 1..(Len(vectors) + 1)
        BY <4>1
      <4> QED BY <3>2, <3>3, <4>1, <4>2
    <3>7. \A i \in DOMAIN vectors' :
            /\ i \in DOMAIN Episodes /\ vectors'[i].anchor = Episodes[i]
            /\ vectors'[i].candles = Minutes(Episodes[i] - WindowLength, Episodes[i])
      <4>1. ASSUME NEW i \in 1..j PROVE i = j \/ i \in 1..Len(vectors)
        BY <2>1, <3>2
      <4> QED BY <1>0, <2>1, <3>5, <3>6, <4>1 DEF VectorsAreAsOf
    <3>8. ASSUME NEW i \in DOMAIN Episodes
          PROVE  i \in DOMAIN vectors' <=> Episodes[i] <= expectedMinute + 1
      <4>1. i \in Nat /\ i >= 1 /\ j \in Nat /\ Episodes[i] \in Int
        BY EpisodesAscend
      <4>2. CASE i <= j
        <5>1. Episodes[i] <= Episodes[j]
          BY <4>1, <4>2, EpisodesAscend
        <5> QED BY <3>1, <3>6, <4>1, <4>2, <5>1
      <4>3. CASE i > j
        <5>1. Episodes[i] > Episodes[j]
          BY <4>1, <4>3, EpisodesAscend
        <5>2. ~(Episodes[i] <= expectedMinute + 1)
          BY <1>2, <3>1, <4>1, <5>1
        <5> QED BY <3>6, <4>1, <4>3, <5>2
      <4> QED BY <4>1, <4>2, <4>3
    <3> QED BY <3>6, <3>7, <3>8 DEF VectorsAreAsOf, Episodes, Minutes, WindowLength
  <2>3. CASE expectedMinute + 1 \notin Anchors
    <3>1. vectors' = vectors
      BY <2>3
    <3>2. \A i \in DOMAIN Episodes :
            /\ Episodes[i] \in Int /\ Episodes[i] # expectedMinute + 1
      BY <2>3, EpisodesAscend DEF Anchors
    <3>3. \A i \in DOMAIN Episodes : Episodes[i] <= expectedMinute <=> Episodes[i] <= expectedMinute + 1
      BY <1>2, <3>2
    <3> QED BY <1>0, <2>1, <3>1, <3>3 DEF VectorsAreAsOf, Episodes, Minutes, WindowLength
  <2> QED BY <2>2, <2>3
<1>9. LoadingOK'
  <2>1. /\ expectedMinute' \in Int /\ HistoryStart <= expectedMinute' /\ expectedMinute' <= HistoryEnd
        /\ rowNo' \in Nat \ {0}
    BY <1>0, <1>1, <1>2, IntervalTypes DEF LoadingOK
  <2> QED BY <1>0, <1>1, <1>6, <1>8, <2>1 DEF LoadingOK, WindowAt, WindowBegin, Minutes, HistoryEnd
<1> QED BY <1>7, <1>8, <1>9 DEF HistoryInv, AcceptanceIsExact

LEMMA ReadRowKeeps ==
    ASSUME HistoryInv, ReadRow
    PROVE  HistoryInv'
<1> DEFINE minute == kline[archiveNo][rowNo]
<1>1. LoadingOK /\ ReadOK /\ loading = "loading" /\ kline' = kline
  BY DEF HistoryInv, ReadRow
<1>2. archiveNo' \in Nat \ {0} /\ rowNo' \in Nat \ {0}
  BY <1>1 DEF ReadRow, LoadingOK
<1>3. CASE ~InInterval(minute)
  BY <1>3, SkippingKeeps
<1>4. CASE InInterval(minute) /\ minute # expectedMinute
  <2>1. Refuse
    BY <1>4 DEF ReadRow, TakeCandle
  <2> QED BY <1>1, <1>2, <1>4, <2>1, UnexpectedIsNotWhole, RefusalKeeps
<1>5. CASE InInterval(minute) /\ minute = expectedMinute
  <2>1. ~(expectedMinute + 1 \in Anchors /\ Len(Slides(window, expectedMinute)) # WindowLength)
    BY <1>1, AnchorsMeetFullWindows
  <2>2. TakeCandle(minute)
    BY <1>5 DEF ReadRow
  <2>3. /\ loading' = "loading"
        /\ window' = Slides(window, expectedMinute) /\ expectedMinute' = expectedMinute + 1
        /\ vectors' = IF expectedMinute + 1 \in Anchors
                      THEN Append(vectors, [anchor |-> expectedMinute + 1,
                                            candles |-> Slides(window, expectedMinute)])
                      ELSE vectors
    BY <1>1, <1>5, <2>1, <2>2 DEF TakeCandle
  <2> QED BY <1>5, <2>3, TakingKeeps
<1> QED BY <1>3, <1>4, <1>5

LEMMA NextArchiveKeeps ==
    ASSUME HistoryInv, NextArchive
    PROVE  HistoryInv'
<1>1. /\ LoadingOK /\ ReadOK /\ loading = "loading"
      /\ kline' = kline /\ archiveNo' = archiveNo + 1 /\ rowNo' = 1
  BY DEF HistoryInv, NextArchive
<1>2. archiveNo \in DOMAIN kline /\ archiveNo \in Nat \ {0} /\ rowNo \in Nat
  BY <1>1 DEF NextArchive, LoadingOK
<1>3. CASE kline[archiveNo] = <<>>
  <2>1. Refuse
    BY <1>3 DEF NextArchive
  <2>2. ~IsWhole
    BY <1>2, <1>3 DEF IsWhole
  <2> QED BY <1>1, <1>2, <2>1, <2>2, RefusalKeeps
<1>4. CASE kline[archiveNo] # <<>>
  <2>1. UNCHANGED <<kline, window, expectedMinute, vectors, loading>>
    BY <1>1, <1>4 DEF NextArchive
  <2>2. ASSUME NEW row PROVE WasRead(row)' <=> WasRead(row)
    <3>1. CASE row \in ArchiveRows
      <4>1. /\ row[1] \in Nat /\ row[2] \in Nat \ {0} /\ row[2] <= Len(kline[row[1]])
            /\ Len(kline[row[1]]) \in Nat
        BY <1>1, <3>1, RowTypes DEF LoadingOK
      <4>2. rowNo > Len(kline[archiveNo])
        BY DEF NextArchive
      <4>3. Earlier(row, <<archiveNo, rowNo>>) <=>
              row[1] < archiveNo \/ (row[1] = archiveNo /\ row[2] < rowNo)
        BY DEF Earlier
      <4>4. Earlier(row, <<archiveNo, rowNo>>)' <=>
              row[1] < archiveNo + 1 \/ (row[1] = archiveNo + 1 /\ row[2] < 1)
        BY <1>1 DEF Earlier
      <4>5. row[1] = archiveNo => row[2] < rowNo
        BY <1>2, <4>1, <4>2
      <4>6. Earlier(row, <<archiveNo, rowNo>>)' <=> Earlier(row, <<archiveNo, rowNo>>)
        BY <1>2, <4>1, <4>3, <4>4, <4>5
      <4> QED BY <1>1, <4>6, ArchivesStay DEF WasRead
    <3>2. CASE row \notin ArchiveRows
      BY <1>1, <3>2, ArchivesStay DEF WasRead
    <3> QED BY <3>1, <3>2
  <2>3. LoadingOK'
    BY <1>1, <1>2, <2>1 DEF LoadingOK, WindowAt, WindowBegin, Minutes, HistoryEnd
  <2>4. VectorsAreAsOf' /\ AcceptanceIsExact'
    BY <2>1, ArchivesStay DEF HistoryInv, VectorsAreAsOf, AcceptanceIsExact
  <2>5. \A a \in DOMAIN kline : a < archiveNo + 1 => kline[a] # <<>>
    <3>1. ASSUME NEW a \in DOMAIN kline, a < archiveNo + 1 PROVE a < archiveNo \/ a = archiveNo
      BY <1>1, <1>2, <3>1 DEF LoadingOK
    <3> QED BY <1>1, <1>4, <3>1 DEF ReadOK
  <2>6. ReadOK'
    BY <1>1, <2>1, <2>2, <2>5, ArchivesStay DEF ReadOK
  <2> QED BY <2>3, <2>4, <2>6 DEF HistoryInv
<1> QED BY <1>3, <1>4

LEMMA FinishKeeps ==
    ASSUME HistoryInv, FinishHistory
    PROVE  HistoryInv'
<1> DEFINE accepted ==
        /\ expectedMinute = HistoryEnd
        /\ [i \in DOMAIN vectors |-> vectors[i].anchor] = Episodes
        /\ \A i \in DOMAIN vectors : vectors[i].candles[1] = vectors[i].anchor - WindowLength
<1>1. LoadingOK /\ VectorsAreAsOf /\ ReadOK
  BY DEF HistoryInv, FinishHistory
<1>2. /\ UNCHANGED <<kline, archiveNo, rowNo, window, expectedMinute, vectors>>
      /\ loading' = IF accepted THEN "accepted" ELSE "refused"
      /\ archiveNo > Len(kline)
  BY DEF FinishHistory
<1> HIDE DEF accepted
<1>3. \A row \in ArchiveRows : WasRead(row)
  <2>1. ASSUME NEW row \in ArchiveRows PROVE Earlier(row, <<archiveNo, rowNo>>)
    <3>1. row[1] \in Nat /\ row[1] \in DOMAIN kline
      BY <1>1, RowTypes DEF LoadingOK
    <3>2. row[1] < archiveNo
      BY <1>1, <1>2, <3>1 DEF LoadingOK
    <3> QED BY <3>2 DEF Earlier
  <2> QED BY <2>1 DEF WasRead
<1>4. ASSUME accepted PROVE IsWhole
  <2>1. expectedMinute = HistoryEnd
    BY <1>4 DEF accepted
  <2>2. \A a \in DOMAIN kline : kline[a] # <<>>
    <3>1. \A a \in DOMAIN kline : a < archiveNo
      BY <1>1, <1>2 DEF LoadingOK
    <3> QED BY <1>1, <3>1 DEF ReadOK
  <2>3. \A minute \in HistoryStart..(HistoryEnd - 1) : \E row \in ArchiveRows : OpenedAt(row) = minute
    BY <1>1, <2>1 DEF ReadOK, WasRead
  <2>4. \A row, other \in ArchiveRows :
          InInterval(OpenedAt(row)) /\ InInterval(OpenedAt(other)) /\ Earlier(row, other)
          => OpenedAt(row) < OpenedAt(other)
    BY <1>1, <1>3 DEF ReadOK, RowCounts
  <2> QED BY <2>2, <2>3, <2>4 DEF IsWhole
<1>5. ASSUME IsWhole PROVE accepted
  <2>1. expectedMinute = HistoryEnd
    <3>1. ~(expectedMinute < HistoryEnd)
      BY <1>1, <1>3, <1>5, ExpectedIsAhead DEF RowCounts
    <3> QED BY <1>1, <3>1, IntervalTypes DEF LoadingOK
  <2>2. \A i \in DOMAIN Episodes : i \in DOMAIN vectors
    BY <1>1, <2>1, EpisodesAscend, IntervalTypes DEF VectorsAreAsOf
  <2>3. DOMAIN vectors = DOMAIN Episodes
    BY <1>1, <2>2 DEF VectorsAreAsOf
  <2>4. [i \in DOMAIN vectors |-> vectors[i].anchor] = Episodes
    BY <1>1, <2>3, Zenon DEF VectorsAreAsOf, Episodes
  <2>5. ASSUME NEW i \in DOMAIN vectors
        PROVE  vectors[i].candles[1] = vectors[i].anchor - WindowLength
    <3>1. /\ i \in DOMAIN Episodes /\ vectors[i].anchor = Episodes[i]
          /\ vectors[i].candles = Minutes(Episodes[i] - WindowLength, Episodes[i])
      BY <1>1 DEF VectorsAreAsOf
    <3> QED BY <3>1, WindowOfEpisode
  <2> QED BY <2>1, <2>4, <2>5 DEF accepted
<1>6. LoadingOK'
  BY <1>1, <1>2 DEF LoadingOK, WindowAt, WindowBegin, Minutes, HistoryEnd
<1>7. VectorsAreAsOf'
  BY <1>1, <1>2 DEF VectorsAreAsOf
<1>8. loading' # "loading" /\ AcceptanceIsExact'
  BY <1>2, <1>4, <1>5, ArchivesStay DEF AcceptanceIsExact
<1> QED BY <1>6, <1>7, <1>8 DEF HistoryInv

LEMMA ArchivesAreRows ==
    ASSUME HistoryInit
    PROVE  kline \in Seq(Seq(Int))
<1> DEFINE n == Len(ArchiveBounds) - 1
<1>1. n \in Nat /\ \A a \in 1..(n + 1) : ArchiveBounds[a] \in Int
  BY HistoryAssumption
<1>2. ASSUME NEW a \in 1..n PROVE Intact[a] \in Seq(Int)
  <2>1. ArchiveBounds[a] \in Int /\ ArchiveBounds[a + 1] \in Int /\ ArchiveBounds[a] <= ArchiveBounds[a + 1]
    BY <1>1, HistoryAssumption
  <2>2. Intact[a] = [i \in 1..(ArchiveBounds[a + 1] - ArchiveBounds[a]) |-> ArchiveBounds[a] + i - 1]
    BY DEF Intact
  <2> QED BY <2>1, <2>2
<1>3. Intact \in Seq(Seq(Int)) /\ DOMAIN Intact = 1..n
  <2>1. DOMAIN Intact = 1..n
    BY DEF Intact
  <2>2. Intact = [a \in 1..n |-> Intact[a]]
    BY DEF Intact
  <2>3. Intact \in [1..n -> Seq(Int)]
    BY <1>2, <2>1, <2>2
  <2> QED BY <1>1, <2>1, <2>3
<1>4. ASSUME NEW candles \in Seq(Int), NEW damaged \in Damaged(candles)
      PROVE  damaged \in Seq(Int)
  <2>1. \A i \in DOMAIN candles : RemoveAt(candles, i) \in Seq(Int)
    BY ConcatProperties DEF RemoveAt
  <2>2. \A i \in DOMAIN candles : InsertAt(candles, i, candles[i]) \in Seq(Int)
    BY ConcatProperties DEF InsertAt
  <2>3. \A i \in 1..(Len(candles) - 1) :
          [candles EXCEPT ![i] = candles[i + 1], ![i + 1] = candles[i]] \in Seq(Int)
    OBVIOUS
  <2>4. \/ damaged = <<>>
        \/ \E i \in DOMAIN candles :
             damaged = RemoveAt(candles, i) \/ damaged = InsertAt(candles, i, candles[i])
        \/ \E i \in 1..(Len(candles) - 1) :
             damaged = [candles EXCEPT ![i] = candles[i + 1], ![i + 1] = candles[i]]
    <3>1. \/ damaged \in {<<>>}
          \/ damaged \in UNION {{RemoveAt(candles, i), InsertAt(candles, i, candles[i])} : i \in DOMAIN candles}
          \/ damaged \in {[candles EXCEPT ![i] = candles[i + 1], ![i + 1] = candles[i]] :
                             i \in 1..(Len(candles) - 1)}
      BY Zenon DEF Damaged
    <3> QED BY <3>1, Zenon
  <2>5. <<>> \in Seq(Int)
    OBVIOUS
  <2> QED BY <2>1, <2>2, <2>3, <2>4, <2>5
<1>5. CASE kline = Intact
  BY <1>3, <1>5
<1>6. CASE \E a \in DOMAIN Intact : \E candles \in Damaged(Intact[a]) : kline = [Intact EXCEPT ![a] = candles]
  <2>1. PICK a \in DOMAIN Intact : \E candles \in Damaged(Intact[a]) : kline = [Intact EXCEPT ![a] = candles]
    BY <1>6
  <2>2. PICK candles \in Damaged(Intact[a]) : kline = [Intact EXCEPT ![a] = candles]
    BY <2>1
  <2>3. candles \in Seq(Int)
    BY <1>2, <1>3, <1>4
  <2> QED BY <1>3, <2>2, <2>3
<1> QED BY <1>5, <1>6 DEF HistoryInit

LEMMA HistoryBegins ==
    ASSUME HistoryInit
    PROVE  HistoryInv
<1>1. /\ archiveNo = 1 /\ rowNo = 1 /\ window = <<>> /\ vectors = <<>>
      /\ expectedMinute = HistoryStart /\ loading = "loading"
  BY DEF HistoryInit
<1>2. WindowAt(HistoryStart) = <<>>
  <2>1. WindowBegin(HistoryStart) = HistoryStart
    BY IntervalTypes DEF WindowBegin
  <2>2. Len(Minutes(HistoryStart, HistoryStart)) = 0 /\ Minutes(HistoryStart, HistoryStart) \in Seq(Int)
    BY MinutesAre, IntervalTypes
  <2> QED BY <2>1, <2>2 DEF WindowAt
<1>3. LoadingOK
  BY <1>1, <1>2, ArchivesAreRows, IntervalTypes DEF LoadingOK
<1>4. VectorsAreAsOf
  <2>1. \A i \in DOMAIN Episodes : ~(Episodes[i] <= HistoryStart)
    BY EpisodesAscend, IntervalTypes
  <2> QED BY <1>1, <2>1 DEF VectorsAreAsOf
<1>5. \A row : ~WasRead(row)
  <2>1. ASSUME NEW row \in ArchiveRows PROVE ~Earlier(row, <<1, 1>>)
    <3>1. row[1] \in Nat \ {0} /\ row[2] \in Nat \ {0}
      BY <1>3, RowTypes DEF LoadingOK
    <3> QED BY <3>1 DEF Earlier
  <2> QED BY <1>1, <2>1 DEF WasRead
<1>6. ReadOK
  <2>1. \A a \in DOMAIN kline : ~(a < 1)
    BY <1>3 DEF LoadingOK
  <2>2. HistoryStart..(HistoryStart - 1) = {}
    BY IntervalTypes
  <2> QED BY <1>1, <1>5, <2>1, <2>2 DEF ReadOK
<1> QED BY <1>1, <1>3, <1>4, <1>6 DEF HistoryInv, AcceptanceIsExact

LEMMA HistoryRests ==
    ASSUME HistoryInv, UNCHANGED historyVars
    PROVE  HistoryInv'
<1>1. UNCHANGED <<kline, archiveNo, rowNo, window, expectedMinute, vectors, loading>>
  BY DEF historyVars
<1>2. LoadingOK'
  BY <1>1 DEF HistoryInv, LoadingOK, WindowAt, WindowBegin, Minutes, HistoryEnd
<1>3. VectorsAreAsOf' /\ AcceptanceIsExact'
  BY <1>1, ArchivesStay DEF HistoryInv, VectorsAreAsOf, AcceptanceIsExact
<1>4. \A row : WasRead(row)' <=> WasRead(row)
  BY <1>1, ArchivesStay DEF WasRead, Earlier
<1>5. ReadOK => ReadOK'
  BY <1>1, <1>4, ArchivesStay DEF ReadOK
<1> QED BY <1>1, <1>2, <1>3, <1>5 DEF HistoryInv

-----------------------------------------------------------------------------
(* The days that are cut out of a timeline.                                 *)

LEMMA BisectOfMinutes ==
    ASSUME NEW first \in Int, NEW end \in Int, first <= end, NEW minute \in Int
    PROVE  BisectLeft(Minutes(first, end), minute) =
             IF minute <= first THEN 0
             ELSE IF minute <= end THEN minute - first
             ELSE end - first
<1> DEFINE count == IF minute <= first THEN 0
                    ELSE IF minute <= end THEN minute - first
                    ELSE end - first
           before == {i \in DOMAIN Minutes(first, end) : Minutes(first, end)[i] < minute}
<1>1. count \in Nat
  OBVIOUS
<1>2. before = 1..count
  <2>1. /\ DOMAIN Minutes(first, end) = 1..(end - first)
        /\ \A i \in 1..(end - first) : Minutes(first, end)[i] = first + i - 1
    BY MinutesAre
  <2>2. \A i \in 1..(end - first) : first + i - 1 < minute <=> i <= count
    OBVIOUS
  <2>3. \A i \in 1..count : i \in 1..(end - first)
    OBVIOUS
  <2>4. \A i \in 1..(end - first) : i <= count <=> i \in 1..count
    OBVIOUS
  <2> QED BY <2>1, <2>2, <2>3, <2>4
<1> HIDE DEF count, before
<1>3. Cardinality(1..count) = count
  BY <1>1, FS_Interval
<1>4. BisectLeft(Minutes(first, end), minute) = Cardinality(before)
  BY DEF BisectLeft, before
<1> QED BY <1>2, <1>3, <1>4 DEF count

(* daily_slice cuts exactly the asked day and its warm-up out of a timeline *)
(* that has them, and nothing out of one that lacks a minute of them.       *)
THEOREM SlicesAreExact ==
    ASSUME NEW first \in Int, NEW end \in Int, first <= end,
           NEW outcome \in Int, NEW warmup \in Nat
    PROVE  DailySlice(Minutes(first, end), outcome, warmup) =
             IF first <= outcome - warmup /\ outcome + DayLength <= end
             THEN Minutes(outcome - warmup, outcome + DayLength)
             ELSE NoSlice
<1> DEFINE candles == Minutes(first, end)
           begin == outcome - warmup
           close == outcome + DayLength
           left == BisectLeft(candles, begin)
           right == BisectLeft(candles, close)
           selected == SubSeq(candles, left + 1, right)
<1>1. /\ DayLength \in Nat \ {0} /\ begin \in Int /\ close \in Int
      /\ begin < close /\ close - begin = warmup + DayLength
  BY HistoryAssumption
<1>2. /\ candles \in Seq(Int) /\ Len(candles) = end - first
      /\ \A i \in 1..(end - first) : candles[i] = first + i - 1
  BY MinutesAre
<1> HIDE DEF begin, close
<1>3. /\ left = IF begin <= first THEN 0 ELSE IF begin <= end THEN begin - first ELSE end - first
      /\ right = IF close <= first THEN 0 ELSE IF close <= end THEN close - first ELSE end - first
  BY <1>1, BisectOfMinutes
<1> HIDE DEF candles, left, right
<1>4. /\ left \in Nat /\ right \in Nat /\ left <= right /\ right <= end - first
  BY <1>1, <1>3
<1>5. /\ selected \in Seq(Int) /\ Len(selected) = right - left
      /\ \A i \in 1..(right - left) : selected[i] = candles[left + i]
  <2>1. \A i \in (left + 1)..right : candles[i] \in Int
    BY <1>2, <1>4
  <2>2. left + 1 \in Int /\ right \in Int
    BY <1>4
  <2>3. /\ selected \in Seq(Int)
        /\ Len(selected) = IF left + 1 <= right THEN right - (left + 1) + 1 ELSE 0
        /\ \A i \in 1..(right - (left + 1) + 1) : selected[i] = candles[left + 1 + i - 1]
    BY <2>1, <2>2, SubSeqProperties
  <2> QED BY <1>4, <2>3
<1> HIDE DEF selected
<1>6. DailySlice(candles, outcome, warmup) =
        IF /\ Len(selected) = warmup + DayLength
           /\ selected[1] = begin
           /\ selected[Len(selected)] = close - 1
        THEN selected ELSE NoSlice
  <2>1. DailySlice(candles, outcome, warmup) =
          IF /\ Len(selected) = warmup + DayLength
             /\ selected[1] = outcome - warmup
             /\ Last(selected) = outcome + DayLength - 1
          THEN selected ELSE NoSlice
    BY DEF DailySlice, selected, left, right, begin, close
  <2>2. Last(selected) = selected[Len(selected)]
    BY DEF Last
  <2>3. begin = outcome - warmup /\ close - 1 = outcome + DayLength - 1
    BY HistoryAssumption DEF begin, close
  <2> QED BY <2>1, <2>2, <2>3
<1>7. CASE first <= begin /\ close <= end
  <2>1. left = begin - first /\ right = close - first
    BY <1>1, <1>3, <1>7
  <2>2. Len(selected) = close - begin
    BY <1>1, <1>5, <2>1
  <2>3. \A i \in 1..(close - begin) : selected[i] = begin + i - 1
    BY <1>1, <1>2, <1>4, <1>5, <2>1, SMTT(30)
  <2>4. /\ Minutes(begin, close) \in Seq(Int) /\ Len(Minutes(begin, close)) = close - begin
        /\ \A i \in 1..(close - begin) : Minutes(begin, close)[i] = begin + i - 1
    BY <1>1, MinutesAre
  <2>5. selected = Minutes(begin, close)
    BY <1>5, <2>2, <2>3, <2>4, SeqEqual
  <2>6. selected[1] = begin /\ selected[Len(selected)] = close - 1
    BY <1>1, <2>2, <2>3
  <2> QED BY <1>1, <1>6, <1>7, <2>2, <2>5, <2>6 DEF candles, begin, close
<1>8. CASE ~(first <= begin /\ close <= end)
  <2>1. right - left < close - begin
    BY <1>1, <1>3, <1>8
  <2> QED BY <1>1, <1>4, <1>5, <1>6, <1>8, <2>1 DEF candles, begin, close
<1> QED BY <1>7, <1>8

-----------------------------------------------------------------------------
(* Rows of archives that are read one after the other.                      *)

(* A set of numbers has a smallest one.                                     *)
LEMMA Smallest ==
    ASSUME NEW S \in SUBSET Nat, S # {}
    PROVE  \E n \in S : \A m \in S : n =< m
<1> DEFINE R == OpToRel(<, Nat)
<1>1. IsWellFoundedOn(R, Nat)
  BY NatLessThanWellFounded
<1>2. \A x, y \in Nat : x < y => <<x, y>> \in R
  BY DEF OpToRel
<1> HIDE DEF R
<1>3. PICK n \in S : \A y \in S : ~ (<<y, n>> \in R)
  BY <1>1, WFMin
<1>4. ASSUME NEW m \in S PROVE n =< m
  <2>1. n \in Nat /\ m \in Nat /\ ~(<<m, n>> \in R)
    BY <1>3
  <2>2. ~(m < n)
    BY <1>2, <2>1
  <2> QED BY <2>1, <2>2
<1> QED BY <1>4

(* A set that has 0 and the successors of its numbers up to n has them all. *)
LEMMA InductionUpTo ==
    ASSUME NEW n \in Nat, NEW S, 0 \in S, \A k \in 1..n : k - 1 \in S => k \in S
    PROVE  \A k \in 0..n : k \in S
<1> DEFINE T == (0..n) \ S
<1>1. SUFFICES ASSUME T # {} PROVE FALSE
  OBVIOUS
<1>2. T \in SUBSET Nat
  OBVIOUS
<1>3. \A m \in 0..n : m \notin S => m \in T
  OBVIOUS
<1>4. \A m \in T : m \in 0..n /\ m \notin S /\ m # 0
  OBVIOUS
<1> HIDE DEF T
<1>5. PICK k \in T : \A m \in T : k =< m
  BY <1>1, <1>2, Smallest
<1>6. k \in 1..n /\ k - 1 \in 0..n /\ ~(k =< k - 1)
  BY <1>4, <1>5
<1>7. k - 1 \in S
  BY <1>3, <1>5, <1>6
<1> QED
  BY <1>4, <1>5, <1>6, <1>7

(* One value after the other, each from the one before.                     *)
IsCourse(f, n, V, base, step) ==
    /\ f = [i \in 0..n |-> f[i]]
    /\ f[0] = base
    /\ \A i \in 0..n : f[i] \in V
    /\ \A i \in 1..n : f[i] = step[<<i, f[i - 1]>>]

LEMMA CoursesExist ==
    ASSUME NEW n \in Nat, NEW V, NEW base \in V, NEW step,
           \A i \in 1..n, v \in V : step[<<i, v>>] \in V
    PROVE  \E f : IsCourse(f, n, V, base, step)
<1> DEFINE S == {k \in 0..n : \E f : IsCourse(f, k, V, base, step)}
<1>1. 0 \in S
  <2>1. IsCourse([i \in 0..0 |-> base], 0, V, base, step)
    BY DEF IsCourse
  <2> QED
    BY <2>1
<1>2. ASSUME NEW k \in 1..n, k - 1 \in S PROVE k \in S
  <2>1. PICK f : IsCourse(f, k - 1, V, base, step)
    BY <1>2
  <2> DEFINE g == [i \in 0..k |-> IF i = k THEN step[<<k, f[k - 1]>>] ELSE f[i]]
  <2>2. g[0] = base /\ g = [i \in 0..k |-> g[i]]
    BY <2>1 DEF IsCourse
  <2>3. f[k - 1] \in V
    BY <2>1 DEF IsCourse
  <2>4. \A i \in 0..k : g[i] \in V
    BY <2>1, <2>3 DEF IsCourse
  <2>5. \A i \in 1..k : g[i] = step[<<i, g[i - 1]>>]
    <3>1. \A i \in 1..k : i = k \/ (i # k /\ i \in 1..(k - 1) /\ i \in 0..k)
      OBVIOUS
    <3>2. \A i \in 1..k : i - 1 \in 0..k /\ i - 1 # k /\ g[i - 1] = f[i - 1]
      OBVIOUS
    <3>3. \A i \in 1..(k - 1) : f[i] = step[<<i, f[i - 1]>>]
      BY <2>1 DEF IsCourse
    <3>4. \A i \in 0..k : i # k => g[i] = f[i]
      OBVIOUS
    <3>5. g[k] = step[<<k, f[k - 1]>>]
      OBVIOUS
    <3> HIDE DEF g
    <3> QED
      BY <3>1, <3>2, <3>3, <3>4, <3>5
  <2>6. IsCourse(g, k, V, base, step)
    BY <2>2, <2>4, <2>5 DEF IsCourse
  <2> QED
    BY <2>6
<1>3. n \in S
  <2>1. n \in 0..n
    OBVIOUS
  <2> HIDE DEF S
  <2> QED
    BY <1>1, <1>2, <2>1, InductionUpTo
<1> QED
  BY <1>3

(* The rows of the archives up to the i-th, one after the other: f has them *)
(* all, nothing else, and those of the interval in their order.             *)
HasRows(rows, i) ==
    /\ rows \in Seq(Int)
    /\ \A p \in 1..Len(rows) : \E row \in ArchiveRows : row[1] <= i /\ rows[p] = OpenedAt(row)
    /\ \A row \in ArchiveRows : row[1] <= i => \E p \in 1..Len(rows) : rows[p] = OpenedAt(row)

Ascends(rows) ==
    \A p, q \in 1..Len(rows) :
        p < q /\ InInterval(rows[p]) /\ InInterval(rows[q]) => rows[p] < rows[q]

LEMMA RowsGoOn ==
    ASSUME kline \in Seq(Seq(Int)), IsWhole, NEW i \in 1..Len(kline),
           NEW rows, HasRows(rows, i - 1), Ascends(rows)
    PROVE  HasRows(rows \o kline[i], i) /\ Ascends(rows \o kline[i])
<1> DEFINE L == Len(rows)
           K == Len(kline[i])
           all == rows \o kline[i]
<1>1. /\ kline[i] \in Seq(Int) /\ rows \in Seq(Int) /\ L \in Nat /\ K \in Nat /\ i \in Nat
  BY LenProperties DEF HasRows
<1>2. /\ all \in Seq(Int) /\ Len(all) = L + K
      /\ \A p \in 1..(L + K) : all[p] = IF p <= L THEN rows[p] ELSE kline[i][p - L]
  BY <1>1, ConcatProperties
<1>3. ASSUME NEW k \in 1..K
      PROVE  <<i, k>> \in ArchiveRows /\ OpenedAt(<<i, k>>) = kline[i][k]
  BY RowsAre DEF OpenedAt
<1>4. \A row \in ArchiveRows : row[1] \in Nat
  BY RowTypes
<1>5. \A row \in ArchiveRows : row[1] <= i =>
        row[1] <= i - 1 \/ \E k \in 1..K : row = <<i, k>>
  <2>1. SUFFICES ASSUME NEW row \in ArchiveRows, row[1] <= i, ~(row[1] <= i - 1)
                 PROVE  \E k \in 1..K : row = <<i, k>>
    OBVIOUS
  <2>2. row[1] = i
    BY <1>1, <1>4, <2>1
  <2>3. row = <<row[1], row[2]>> /\ row[2] \in Nat \ {0} /\ row[2] <= Len(kline[row[1]])
    BY RowTypes
  <2>4. row[2] \in 1..K
    BY <1>1, <2>2, <2>3
  <2> QED
    BY <2>2, <2>3, <2>4
<1> HIDE DEF all, L, K
<1>6. ASSUME NEW p \in 1..(L + K)
      PROVE  \/ p \in 1..L /\ all[p] = rows[p]
             \/ p > L /\ p - L \in 1..K /\ all[p] = kline[i][p - L]
  BY <1>1, <1>2
<1>7. ASSUME NEW p \in 1..L
      PROVE  \E row \in ArchiveRows : row[1] <= i - 1 /\ rows[p] = OpenedAt(row)
  BY DEF HasRows, L
<1>8. HasRows(all, i)
  <2>1. ASSUME NEW p \in 1..(L + K)
        PROVE  \E row \in ArchiveRows : row[1] <= i /\ all[p] = OpenedAt(row)
    <3>1. CASE p \in 1..L /\ all[p] = rows[p]
      <4>1. PICK row \in ArchiveRows : row[1] <= i - 1 /\ rows[p] = OpenedAt(row)
        BY <1>7, <3>1
      <4>2. row[1] <= i
        BY <1>1, <1>4, <4>1
      <4> QED
        BY <3>1, <4>1, <4>2
    <3>2. CASE p > L /\ p - L \in 1..K /\ all[p] = kline[i][p - L]
      <4>1. <<i, p - L>> \in ArchiveRows /\ OpenedAt(<<i, p - L>>) = kline[i][p - L]
        BY <1>3, <3>2
      <4>2. <<i, p - L>>[1] <= i
        BY <1>1
      <4> QED
        BY <3>2, <4>1, <4>2
    <3> QED
      BY <1>6, <3>1, <3>2
  <2>2. ASSUME NEW row \in ArchiveRows, row[1] <= i
        PROVE  \E p \in 1..(L + K) : all[p] = OpenedAt(row)
    <3>1. CASE row[1] <= i - 1
      <4>1. PICK p \in 1..L : rows[p] = OpenedAt(row)
        BY <3>1 DEF HasRows, L
      <4>2. p \in 1..(L + K) /\ all[p] = rows[p]
        BY <1>1, <1>2
      <4> QED
        BY <4>1, <4>2
    <3>2. CASE \E k \in 1..K : row = <<i, k>>
      <4>1. PICK k \in 1..K : row = <<i, k>>
        BY <3>2
      <4>2. L + k \in 1..(L + K) /\ ~(L + k <= L) /\ (L + k) - L = k
        BY <1>1
      <4>3. all[L + k] = kline[i][k]
        BY <1>2, <4>2
      <4> QED
        BY <1>3, <4>1, <4>2, <4>3
    <3> QED
      BY <1>5, <2>2, <3>1, <3>2
  <2> QED
    BY <1>2, <2>1, <2>2 DEF HasRows
<1>9. ASSUME NEW p \in 1..(L + K), NEW q \in 1..(L + K), p < q,
             InInterval(all[p]), InInterval(all[q])
      PROVE  all[p] < all[q]
  <2>1. CASE q \in 1..L /\ all[q] = rows[q]
    <3>1. p \in 1..L /\ all[p] = rows[p]
      BY <1>1, <1>2, <1>9, <2>1
    <3> QED
      BY <1>9, <2>1, <3>1 DEF Ascends, L
  <2>2. CASE q > L /\ q - L \in 1..K /\ all[q] = kline[i][q - L]
    <3> DEFINE other == <<i, q - L>>
    <3>1. other \in ArchiveRows /\ OpenedAt(other) = all[q]
      BY <1>3, <2>2
    <3>2. CASE p \in 1..L /\ all[p] = rows[p]
      <4>1. PICK row \in ArchiveRows : row[1] <= i - 1 /\ rows[p] = OpenedAt(row)
        BY <1>7, <3>2
      <4>2. Earlier(row, other)
        BY <1>1, <1>4, <4>1 DEF Earlier
      <4> QED
        BY <1>9, <3>1, <3>2, <4>1, <4>2 DEF IsWhole
    <3>3. CASE p > L /\ p - L \in 1..K /\ all[p] = kline[i][p - L]
      <4>1. <<i, p - L>> \in ArchiveRows /\ OpenedAt(<<i, p - L>>) = all[p]
        BY <1>3, <3>3
      <4>2. p - L < q - L
        BY <1>1, <1>9
      <4>3. Earlier(<<i, p - L>>, other)
        BY <4>2 DEF Earlier
      <4> QED
        BY <1>9, <3>1, <4>1, <4>3 DEF IsWhole
    <3> QED
      BY <1>6, <3>2, <3>3
  <2> QED
    BY <1>6, <2>1, <2>2
<1>10. Ascends(all)
  BY <1>2, <1>9 DEF Ascends
<1> QED
  BY <1>8, <1>10 DEF all

(* FlattenSeq of whole archives.                                            *)
LEMMA FlattenedRows ==
    ASSUME kline \in Seq(Seq(Int)), IsWhole
    PROVE  HasRows(FlattenSeq(kline), Len(kline)) /\ Ascends(FlattenSeq(kline))
<1> DEFINE n == Len(kline)
           step == [x \in (1..n) \X Seq(Int) |-> x[2] \o kline[x[1]]]
           Flattens(g) == g = [i \in 1..n |-> IF i = 1 THEN kline[i] ELSE g[i - 1] \o kline[i]]
<1>1. n \in Nat /\ \A i \in 1..n : kline[i] \in Seq(Int)
  OBVIOUS
<1>2. n # 0
  <2>1. SUFFICES ASSUME n = 0 PROVE FALSE
    OBVIOUS
  <2>2. HistoryStart \in HistoryStart..(HistoryEnd - 1)
    BY IntervalTypes
  <2>3. PICK row \in ArchiveRows : TRUE
    BY <2>2 DEF IsWhole
  <2> QED
    BY <2>1, <2>3, RowsAre
<1>3. \A i \in 1..n, v \in Seq(Int) : step[<<i, v>>] = v \o kline[i] /\ step[<<i, v>>] \in Seq(Int)
  <2>1. \A i \in 1..n, v \in Seq(Int) : v \o kline[i] \in Seq(Int)
    BY <1>1, ConcatProperties
  <2> QED
    BY <2>1
<1> HIDE DEF step
<1>4. <<>> \in Seq(Int)
  OBVIOUS
<1>5. PICK f : IsCourse(f, n, Seq(Int), <<>>, step)
  <2> HIDE DEF n
  <2> QED
    BY <1>1, <1>3, <1>4, CoursesExist
<1>6. ASSUME NEW i \in 1..n PROVE f[i] = f[i - 1] \o kline[i]
  <2>1. i - 1 \in 0..n
    BY <1>1
  <2>2. f[i - 1] \in Seq(Int) /\ f[i] = step[<<i, f[i - 1]>>]
    BY <1>5, <2>1 DEF IsCourse
  <2> QED
    BY <1>3, <2>2
<1>7. f[1] = kline[1]
  <2>1. 1 \in 1..n /\ f[0] = <<>>
    BY <1>1, <1>2, <1>5 DEF IsCourse
  <2>2. f[1] = <<>> \o kline[1]
    <3>1. ASSUME NEW i \in 1..n, i = 1 PROVE f[i] = f[0] \o kline[i]
      <4>1. i - 1 = 0
        BY <3>1
      <4>2. f[i] = f[i - 1] \o kline[i]
        BY <1>6
      <4> QED
        BY <4>1, <4>2
    <3> QED
      BY <2>1, <3>1
  <2> QED
    BY <1>1, <2>1, <2>2, ConcatEmptySeq
<1> DEFINE h == [i \in 1..n |-> f[i]]
<1>8. Flattens(h)
  <2>1. ASSUME NEW i \in 1..n
        PROVE  h[i] = IF i = 1 THEN kline[i] ELSE h[i - 1] \o kline[i]
    <3>1. i # 1 => i - 1 \in 1..n /\ h[i - 1] = f[i - 1]
      BY <1>1
    <3> QED
      BY <1>6, <1>7, <3>1
  <2> QED
    BY <2>1
<1> HIDE DEF h
<1> DEFINE g == CHOOSE x : Flattens(x)
<1>9. Flattens(g)
  BY <1>8
<1>10. FlattenSeq(kline) = g[n]
  BY <1>2 DEF FlattenSeq
<1> HIDE DEF g
<1>11. \A i \in 1..n : g[i] = IF i = 1 THEN kline[i] ELSE g[i - 1] \o kline[i]
  BY <1>9
<1> HIDE DEF Flattens
<1> DEFINE S == {i \in 0..n : i = 0 \/ (HasRows(g[i], i) /\ Ascends(g[i]))}
<1>12. HasRows(<<>>, 0) /\ Ascends(<<>>)
  <2>1. \A row \in ArchiveRows : row[1] \in Nat \ {0}
    BY RowTypes
  <2> QED
    BY <1>4, <2>1 DEF HasRows, Ascends
<1>13. ASSUME NEW i \in 1..n, i - 1 \in S PROVE i \in S
  <2>1. CASE i = 1
    <3>1. HasRows(<<>> \o kline[1], 1) /\ Ascends(<<>> \o kline[1])
      <4> DEFINE none == <<>>
             one == 1
      <4>1. HasRows(none, one - 1) /\ Ascends(none) /\ one \in 1..Len(kline)
        BY <1>12, <2>1
      <4> HIDE DEF none, one
      <4>2. HasRows(none \o kline[one], one) /\ Ascends(none \o kline[one])
        BY <4>1, RowsGoOn
      <4> QED
        BY <4>2 DEF none, one
    <3>2. <<>> \o kline[1] = g[1]
      BY <1>1, <1>11, <2>1, ConcatEmptySeq
    <3> QED
      BY <2>1, <3>1, <3>2
  <2>2. CASE i # 1
    <3>1. HasRows(g[i - 1], i - 1) /\ Ascends(g[i - 1])
      BY <1>13, <2>2
    <3>2. HasRows(g[i - 1] \o kline[i], i) /\ Ascends(g[i - 1] \o kline[i])
      BY <3>1, RowsGoOn
    <3> QED
      BY <1>11, <2>2, <3>2
  <2> QED
    BY <2>1, <2>2
<1>14. 0 \in S
  BY <1>1
<1>15. n \in S
  <2>1. n \in 0..n
    BY <1>1
  <2> HIDE DEF S, n
  <2> QED
    BY <1>1, <1>13, <1>14, <2>1, InductionUpTo
<1> QED
  BY <1>2, <1>10, <1>15

(* What is streamed of them: the minutes of the interval, each once and in  *)
(* their order.                                                            *)
Strict(s) == \A p, q \in 1..Len(s) : p < q => s[p] < s[q]

Filtered(s, rows, i) ==
    /\ s \in Seq(Int)
    /\ \A p \in 1..Len(s) : \E j \in 1..i : InInterval(rows[j]) /\ s[p] = rows[j]
    /\ \A j \in 1..i : InInterval(rows[j]) => \E p \in 1..Len(s) : s[p] = rows[j]
    /\ Strict(s)

LEMMA FilterGoesOn ==
    ASSUME NEW rows \in Seq(Int), Ascends(rows), NEW i \in 1..Len(rows), NEW s,
           Filtered(s, rows, i - 1)
    PROVE  Filtered(IF InInterval(rows[i]) THEN Append(s, rows[i]) ELSE s, rows, i)
<1>1. /\ s \in Seq(Int) /\ Len(s) \in Nat /\ rows[i] \in Int /\ i \in Nat
      /\ \A j \in 1..i : j = i \/ j \in 1..(i - 1)
      /\ \A j \in 1..(i - 1) : j \in 1..i /\ j < i /\ j \in 1..Len(rows)
  BY LenProperties DEF Filtered
<1>2. CASE ~InInterval(rows[i])
  <2>1. \A p \in 1..Len(s) : \E j \in 1..i : InInterval(rows[j]) /\ s[p] = rows[j]
    BY <1>1 DEF Filtered
  <2>2. \A j \in 1..i : InInterval(rows[j]) => \E p \in 1..Len(s) : s[p] = rows[j]
    BY <1>1, <1>2 DEF Filtered
  <2> QED
    BY <1>2, <2>1, <2>2 DEF Filtered
<1>3. CASE InInterval(rows[i])
  <2> DEFINE L == Len(s)
             r == Append(s, rows[i])
  <2>1. /\ r \in Seq(Int) /\ Len(r) = L + 1 /\ r[L + 1] = rows[i]
        /\ \A p \in 1..L : r[p] = s[p]
    BY <1>1, AppendProperties
  <2>2. L \in Nat /\ \A p \in 1..(L + 1) : p = L + 1 \/ p \in 1..L
    BY <1>1
  <2> HIDE DEF r, L
  <2>3. ASSUME NEW p \in 1..(L + 1)
        PROVE  \E j \in 1..i : InInterval(rows[j]) /\ r[p] = rows[j]
    <3>1. CASE p = L + 1
      <4>1. i \in 1..i
        BY <1>1
      <4> QED
        BY <1>3, <2>1, <3>1, <4>1
    <3>2. CASE p \in 1..L
      <4>1. PICK j \in 1..(i - 1) : InInterval(rows[j]) /\ s[p] = rows[j]
        BY <3>2 DEF Filtered, L
      <4> QED
        BY <1>1, <2>1, <3>2, <4>1
    <3> QED
      BY <2>2, <3>1, <3>2
  <2>4. ASSUME NEW j \in 1..i, InInterval(rows[j])
        PROVE  \E p \in 1..(L + 1) : r[p] = rows[j]
    <3>1. CASE j = i
      <4>1. L + 1 \in 1..(L + 1)
        BY <2>2
      <4> QED
        BY <2>1, <3>1, <4>1
    <3>2. CASE j \in 1..(i - 1)
      <4>1. PICK p \in 1..L : s[p] = rows[j]
        BY <2>4, <3>2 DEF Filtered, L
      <4>2. p \in 1..(L + 1)
        BY <2>2
      <4> QED
        BY <2>1, <4>1, <4>2
    <3> QED
      BY <1>1, <3>1, <3>2
  <2>5. ASSUME NEW p \in 1..(L + 1), NEW q \in 1..(L + 1), p < q PROVE r[p] < r[q]
    <3>1. p \in 1..L
      BY <2>2, <2>5
    <3>2. CASE q \in 1..L
      <4>1. s[p] < s[q]
        BY <2>5, <3>1, <3>2 DEF Filtered, Strict, L
      <4> QED
        BY <2>1, <3>1, <3>2, <4>1
    <3>3. CASE q = L + 1
      <4>1. PICK j \in 1..(i - 1) : InInterval(rows[j]) /\ s[p] = rows[j]
        BY <3>1 DEF Filtered, L
      <4>2. rows[j] < rows[i]
        BY <1>1, <1>3, <4>1 DEF Ascends
      <4> QED
        BY <2>1, <3>1, <3>3, <4>1, <4>2
    <3> QED
      BY <2>2, <3>2, <3>3
  <2>6. Filtered(r, rows, i)
    BY <2>1, <2>3, <2>4, <2>5 DEF Filtered, Strict
  <2> QED
    BY <1>3, <2>6 DEF r
<1> QED
  BY <1>2, <1>3

LEMMA StreamIsFiltered ==
    ASSUME NEW rows \in Seq(Int), Ascends(rows), rows = FlattenSeq(kline)
    PROVE  Filtered(Streamed, rows, Len(rows))
<1> DEFINE n == Len(rows)
           step == [x \in (1..n) \X Seq(Int) |->
                      IF InInterval(rows[x[1]]) THEN Append(x[2], rows[x[1]]) ELSE x[2]]
           Keeps(g) == g = [i \in 0..n |->
                      IF i = 0 THEN <<>>
                      ELSE IF InInterval(rows[i]) THEN Append(g[i - 1], rows[i])
                      ELSE g[i - 1]]
<1>1. n \in Nat /\ \A i \in 1..n : rows[i] \in Int
  OBVIOUS
<1>2. \A i \in 1..n, v \in Seq(Int) :
        /\ step[<<i, v>>] = IF InInterval(rows[i]) THEN Append(v, rows[i]) ELSE v
        /\ step[<<i, v>>] \in Seq(Int)
  BY <1>1, AppendProperties
<1> HIDE DEF step
<1>3. <<>> \in Seq(Int)
  OBVIOUS
<1>4. PICK f : IsCourse(f, n, Seq(Int), <<>>, step)
  <2> HIDE DEF n
  <2> QED
    BY <1>1, <1>2, <1>3, CoursesExist
<1>5. ASSUME NEW i \in 0..n
      PROVE  f[i] = IF i = 0 THEN <<>>
                    ELSE IF InInterval(rows[i]) THEN Append(f[i - 1], rows[i])
                    ELSE f[i - 1]
  <2>1. CASE i = 0
    BY <1>4, <2>1 DEF IsCourse
  <2>2. CASE i # 0
    <3>1. i \in 1..n /\ i - 1 \in 0..n
      BY <1>1, <2>2
    <3>2. f[i - 1] \in Seq(Int) /\ f[i] = step[<<i, f[i - 1]>>]
      BY <1>4, <3>1 DEF IsCourse
    <3> QED
      BY <1>2, <2>2, <3>1, <3>2
  <2> QED
    BY <2>1, <2>2
<1>6. f = [i \in 0..n |-> f[i]]
  BY <1>4 DEF IsCourse
<1>7. Keeps(f)
  BY <1>5, <1>6
<1> DEFINE g == CHOOSE x : Keeps(x)
<1>8. Keeps(g)
  BY <1>7
<1>9. Streamed = g[n]
  BY DEF Streamed
<1> HIDE DEF g
<1>10. \A i \in 0..n :
         g[i] = IF i = 0 THEN <<>>
                ELSE IF InInterval(rows[i]) THEN Append(g[i - 1], rows[i])
                ELSE g[i - 1]
  BY <1>8
<1> HIDE DEF Keeps
<1> DEFINE S == {i \in 0..n : Filtered(g[i], rows, i)}
<1>11. 0 \in S
  <2>1. g[0] = <<>> /\ 0 \in 0..n
    BY <1>1, <1>10
  <2>2. Filtered(<<>>, rows, 0)
    BY <1>3 DEF Filtered, Strict
  <2> QED
    BY <2>1, <2>2
<1>12. ASSUME NEW i \in 1..n, i - 1 \in S PROVE i \in S
  <2>1. Filtered(g[i - 1], rows, i - 1) /\ i # 0 /\ i \in 0..n
    BY <1>1, <1>12
  <2>2. Filtered(IF InInterval(rows[i]) THEN Append(g[i - 1], rows[i]) ELSE g[i - 1], rows, i)
    BY <2>1, FilterGoesOn
  <2> QED
    BY <1>10, <2>1, <2>2
<1>13. n \in S
  <2>1. n \in 0..n
    BY <1>1
  <2> HIDE DEF S, n
  <2> QED
    BY <1>1, <1>11, <1>12, <2>1, InductionUpTo
<1> QED
  BY <1>9, <1>13

(* Numbers that ascend without a gap are minutes.                           *)
LEMMA StrictIsMinutes ==
    ASSUME NEW first \in Int, NEW end \in Int, first <= end, NEW s \in Seq(Int), Strict(s),
           \A p \in 1..Len(s) : first <= s[p] /\ s[p] < end,
           \A m \in first..(end - 1) : \E p \in 1..Len(s) : s[p] = m
    PROVE  s = Minutes(first, end)
<1> DEFINE n == Len(s)
<1>1. n \in Nat /\ \A p \in 1..n : s[p] \in Int
  OBVIOUS
<1> DEFINE S == {i \in 0..n : \A p \in 1..i : s[p] = first + p - 1}
<1>2. 0 \in S
  BY <1>1
<1>3. ASSUME NEW i \in 1..n, i - 1 \in S PROVE i \in S
  <2>1. \A p \in 1..(i - 1) : s[p] = first + p - 1
    BY <1>3
  <2>2. s[i] >= first + i - 1
    <3>1. CASE i = 1
      BY <1>1, <3>1
    <3>2. CASE i # 1
      <4>1. i - 1 \in 1..n /\ i - 1 < i /\ i - 1 \in 1..(i - 1)
        BY <1>1, <3>2
      <4>2. s[i - 1] < s[i] /\ s[i - 1] = first + (i - 1) - 1
        BY <2>1, <4>1 DEF Strict
      <4> QED
        BY <1>1, <4>1, <4>2
    <3> QED
      BY <3>1, <3>2
  <2>3. first + i - 1 \in first..(end - 1)
    BY <1>1, <2>2
  <2>4. PICK p \in 1..n : s[p] = first + i - 1
    BY <2>3
  <2>5. ~(p < i)
    BY <1>1, <2>1, <2>4
  <2>6. ~(i < p)
    <3>1. SUFFICES ASSUME i < p PROVE FALSE
      OBVIOUS
    <3>2. s[i] < s[p]
      BY <3>1 DEF Strict
    <3> QED
      BY <1>1, <2>2, <2>4, <3>2
  <2>7. p = i
    BY <1>1, <2>5, <2>6
  <2>8. s[i] = first + i - 1
    BY <2>4, <2>7
  <2>9. \A k \in 1..i : k = i \/ k \in 1..(i - 1)
    BY <1>1
  <2>10. i \in 0..n
    BY <1>1
  <2> QED
    BY <2>1, <2>8, <2>9, <2>10
<1>4. n \in S
  <2>1. n \in 0..n
    BY <1>1
  <2> HIDE DEF S, n
  <2> QED
    BY <1>1, <1>2, <1>3, <2>1, InductionUpTo
<1>5. \A p \in 1..n : s[p] = first + p - 1
  BY <1>4
<1> HIDE DEF S, n
<1>6. ~(n < end - first)
  <2>1. SUFFICES ASSUME n < end - first PROVE FALSE
    OBVIOUS
  <2>2. first + n \in first..(end - 1)
    BY <1>1, <2>1
  <2>3. PICK p \in 1..n : s[p] = first + n
    BY <2>2 DEF n
  <2> QED
    BY <1>1, <1>5, <2>3
<1>7. ~(n > end - first)
  <2>1. SUFFICES ASSUME n > end - first PROVE FALSE
    OBVIOUS
  <2>2. n \in 1..n
    BY <1>1, <2>1
  <2>3. s[n] < end
    BY <2>2 DEF n
  <2> QED
    BY <1>1, <1>5, <2>1, <2>2, <2>3
<1>8. n = end - first
  BY <1>1, <1>6, <1>7
<1>9. /\ Minutes(first, end) \in Seq(Int) /\ Len(Minutes(first, end)) = end - first
      /\ \A i \in 1..(end - first) : Minutes(first, end)[i] = first + i - 1
  BY MinutesAre
<1> QED
  BY <1>5, <1>8, <1>9, SeqEqual DEF n

LEMMA StreamIsTheInterval ==
    ASSUME kline \in Seq(Seq(Int)), IsWhole
    PROVE  Streamed = Minutes(HistoryStart, HistoryEnd)
<1> DEFINE rows == FlattenSeq(kline)
           n == Len(kline)
<1>1. HasRows(rows, n) /\ Ascends(rows)
  BY FlattenedRows
<1>2. rows \in Seq(Int)
  BY <1>1 DEF HasRows
<1>3. Filtered(Streamed, rows, Len(rows))
  BY <1>1, <1>2, StreamIsFiltered
<1> HIDE DEF rows
<1>4. /\ Streamed \in Seq(Int) /\ Strict(Streamed)
      /\ HistoryStart \in Int /\ HistoryEnd \in Int /\ HistoryStart <= HistoryEnd
  BY <1>3, IntervalTypes DEF Filtered
<1>5. ASSUME NEW p \in 1..Len(Streamed)
      PROVE  HistoryStart <= Streamed[p] /\ Streamed[p] < HistoryEnd
  <2>1. PICK j \in 1..Len(rows) : InInterval(rows[j]) /\ Streamed[p] = rows[j]
    BY <1>3 DEF Filtered
  <2> QED
    BY <2>1 DEF InInterval
<1>6. ASSUME NEW m \in HistoryStart..(HistoryEnd - 1)
      PROVE  \E p \in 1..Len(Streamed) : Streamed[p] = m
  <2>1. PICK row \in ArchiveRows : OpenedAt(row) = m
    BY DEF IsWhole
  <2>2. row[1] <= n
    <3>1. row[1] \in DOMAIN kline
      BY RowTypes
    <3> QED
      BY <3>1
  <2>3. PICK j \in 1..Len(rows) : rows[j] = OpenedAt(row)
    BY <1>1, <2>2 DEF HasRows
  <2>4. InInterval(rows[j])
    BY <1>4, <2>1, <2>3 DEF InInterval
  <2>5. PICK p \in 1..Len(Streamed) : Streamed[p] = rows[j]
    BY <1>3, <2>4 DEF Filtered
  <2> QED
    BY <2>1, <2>3, <2>5
<1> QED
  BY <1>4, <1>5, <1>6, StrictIsMinutes

(* The days of what is accepted.                                            *)
LEMMA AcceptedDays ==
    ASSUME kline \in Seq(Seq(Int)), AcceptanceIsExact
    PROVE  DaysAreExact
<1> SUFFICES ASSUME loading = "accepted"
             PROVE  /\ IsTimeline(Streamed)
                    /\ \A outcome \in Anchors, warmup \in 0..WindowLength :
                         DailySlice(Streamed, outcome, warmup)
                             = Minutes(outcome - warmup, outcome + DayLength)
  BY DEF DaysAreExact
<1>1. IsWhole
  BY DEF AcceptanceIsExact
<1>2. Streamed = Minutes(HistoryStart, HistoryEnd)
  BY <1>1, StreamIsTheInterval
<1>3. HistoryStart \in Int /\ HistoryEnd \in Int /\ HistoryStart <= HistoryEnd
  BY IntervalTypes
<1>4. IsTimeline(Streamed)
  <2>1. /\ Len(Minutes(HistoryStart, HistoryEnd)) = HistoryEnd - HistoryStart
        /\ \A i \in 1..(HistoryEnd - HistoryStart) :
             Minutes(HistoryStart, HistoryEnd)[i] = HistoryStart + i - 1
    BY <1>3, MinutesAre
  <2>2. ASSUME NEW i \in 1..(Len(Streamed) - 1)
        PROVE  Streamed[i + 1] = Streamed[i] + 1
    <3>1. i \in 1..(HistoryEnd - HistoryStart) /\ i + 1 \in 1..(HistoryEnd - HistoryStart)
      BY <1>2, <1>3, <2>1
    <3>2. Streamed[i] = HistoryStart + i - 1 /\ Streamed[i + 1] = HistoryStart + (i + 1) - 1
      BY <1>2, <2>1, <3>1
    <3> QED
      BY <1>3, <3>2
  <2> QED
    BY <2>2 DEF IsTimeline
<1>5. ASSUME NEW outcome \in Anchors, NEW warmup \in 0..WindowLength
      PROVE  DailySlice(Streamed, outcome, warmup) = Minutes(outcome - warmup, outcome + DayLength)
  <2>1. /\ outcome \in Int /\ warmup \in Nat
        /\ HistoryStart <= outcome - warmup /\ outcome + DayLength <= HistoryEnd
    <3>1. PICK i \in DOMAIN Episodes : outcome = Episodes[i]
      BY DEF Anchors
    <3>2. /\ i \in 1..(HistoryDays - 3) /\ HistoryDays \in Nat
          /\ Episodes[i] \in Int /\ HistoryStart + WindowLength <= Episodes[i]
          /\ Episodes[i] = HistoryStart + WindowLength + (i - 1) * DayLength
      BY <3>1, EpisodesAscend, HistoryAssumption DEF Episodes
    <3>3. i \in Int /\ HistoryDays - 3 \in Int /\ i <= HistoryDays - 3
      BY <3>2
    <3>4. i * DayLength <= (HistoryDays - 3) * DayLength
      <4>1. CASE i = HistoryDays - 3
        BY <4>1, <3>3, IntervalTypes
      <4>2. CASE i < HistoryDays - 3
        BY <4>2, <3>3, IntervalTypes, ProductsAscend
      <4> QED
        BY <3>3, <4>1, <4>2
    <3>5. /\ (i - 1) * DayLength = i * DayLength - DayLength
          /\ (HistoryDays - 3) * DayLength = HistoryDays * DayLength - WindowLength
          /\ i * DayLength \in Int /\ HistoryDays * DayLength \in Int
          /\ HistoryEnd = HistoryStart + HistoryDays * DayLength
      BY <3>2, <3>3, IntervalTypes DEF WindowLength, HistoryEnd
    <3>6. Episodes[i] + DayLength <= HistoryEnd
      BY <3>2, <3>4, <3>5, IntervalTypes
    <3> QED
      BY <3>1, <3>2, <3>6, IntervalTypes
  <2>2. DailySlice(Minutes(HistoryStart, HistoryEnd), outcome, warmup) =
          IF HistoryStart <= outcome - warmup /\ outcome + DayLength <= HistoryEnd
          THEN Minutes(outcome - warmup, outcome + DayLength)
          ELSE NoSlice
    BY <1>3, <2>1, SlicesAreExact
  <2> QED
    BY <1>2, <2>1, <2>2
<1> QED
  BY <1>4, <1>5

(* load_three_day_feature_history has no look-ahead: the i-th vector is of  *)
(* the i-th episode and of the three days before its anchor, and no anchor  *)
(* is passed without one.  It accepts exactly the archives that have the    *)
(* candles of the interval once each and in order, and out of what it has   *)
(* accepted daily_slice cuts every day of a backtest with its warm-up.      *)
THEOREM HistoryStaysExact == HistorySpec => []HistoryIsExact
<1>1. HistoryInit => HistoryInv
  BY HistoryBegins
<1>2. HistoryInv /\ [HistoryNext]_historyVars => HistoryInv'
  BY ReadRowKeeps, NextArchiveKeeps, FinishKeeps, HistoryRests DEF HistoryNext
<1>3. HistoryInv => HistoryIsExact
  <2> SUFFICES ASSUME HistoryInv PROVE HistoryIsExact
    OBVIOUS
  <2>1. kline \in Seq(Seq(Int)) /\ VectorsAreAsOf /\ AcceptanceIsExact
    BY DEF HistoryInv, LoadingOK
  <2> QED
    BY <2>1, AcceptedDays DEF HistoryIsExact
<1> QED BY <1>1, <1>2, <1>3, PTL DEF HistorySpec

-----------------------------------------------------------------------------
(* The rows of a feature cache.                                             *)

(* The calendar *)

LEMMA CalendarTypes ==
    /\ Day \in Nat \ {0} /\ Month \in Nat \ {0} /\ Horizon \in Nat
    /\ FundingMaxAge \in Nat /\ MetricsMaxAge \in Nat /\ PageLimit \in Nat \ {0}
    /\ FundingMaxAge < Month
    /\ \A t : t \in Ticks <=> t \in Int /\ 0 <= t /\ t <= Horizon
    /\ Missing \notin Ticks
  BY CalendarAssumption DEF Ticks, Missing

LEMMA MultiplesAre ==
    ASSUME NEW d \in Nat \ {0}, NEW t \in Int
    PROVE  /\ t % d = 0 => \E q \in Int : t = d * q
           /\ \A q \in Int : (d * q) % d = 0 /\ d * q \in Int
           /\ t % d \in 0..(d - 1)
           /\ (t - (t % d)) % d = 0
<1>1. t = d * (t \div d) + (t % d) /\ t \div d \in Int /\ t % d \in 0..(d - 1)
  OBVIOUS
<1>2. \A q \in Int : (d * q) % d = 0 /\ d * q \in Int
  OBVIOUS
<1> DEFINE p == t \div d
           r == t % d
<1>3. t = d * p + r /\ p \in Int /\ r \in 0..(d - 1)
  BY <1>1
<1> HIDE DEF p, r
<1>4. r = 0 => \E q \in Int : t = d * q
  BY <1>2, <1>3
<1>5. t - r = d * p
  <2> DEFINE s == d * p
  <2>1. s \in Int
    BY <1>2, <1>3
  <2> HIDE DEF s
  <2>2. t = s + r
    BY <1>3 DEF s
  <2> QED
    BY <1>3, <2>1, <2>2 DEF s
<1>6. (t - r) % d = 0
  BY <1>2, <1>3, <1>5
<1> QED
  BY <1>1, <1>2, <1>4, <1>6 DEF r

(* Different multiples of d are d apart.                                    *)
LEMMA MultiplesApart ==
    ASSUME NEW d \in Nat \ {0}, NEW a \in Int, NEW b \in Int,
           a % d = 0, b % d = 0, a < b
    PROVE  a + d <= b
<1>1. PICK x \in Int : a = d * x
  BY MultiplesAre
<1>2. PICK y \in Int : b = d * y
  BY MultiplesAre
<1>3. x < y
  <2>1. SUFFICES ASSUME ~(x < y) PROVE FALSE
    OBVIOUS
  <2>2. d * y <= d * x
    BY <2>1
  <2> QED
    BY <1>1, <1>2, <2>2
<1>4. d * (x + 1) <= d * y
  BY <1>3
<1>5. d * (x + 1) = d * x + d
  OBVIOUS
<1> QED
  BY <1>1, <1>2, <1>4, <1>5

LEMMA MonthStarts ==
    ASSUME NEW t \in Int
    PROVE  /\ MonthStart(t) \in Int /\ MonthStart(t) % Month = 0
           /\ MonthStart(t) <= t /\ t < MonthStart(t) + Month
<1> DEFINE r == t % Month
<1>1. r \in 0..(Month - 1) /\ (t - r) % Month = 0
  BY CalendarTypes, MultiplesAre
<1> HIDE DEF r
<1>2. MonthStart(t) = t - r
  BY DEF MonthStart, r
<1> QED
  BY <1>1, <1>2, CalendarTypes

LEMMA MonthOf ==
    ASSUME NEW t \in Int, NEW m \in Int, m % Month = 0
    PROVE  /\ m <= t => m <= MonthStart(t)
           /\ m <= t /\ t < m + Month => MonthStart(t) = m
           /\ MonthStart(m) = m
<1> DEFINE s == MonthStart(t)
<1>1. s \in Int /\ s % Month = 0 /\ s <= t /\ t < s + Month
  BY MonthStarts
<1>2. MonthStart(m) \in Int /\ MonthStart(m) % Month = 0
      /\ MonthStart(m) <= m /\ m < MonthStart(m) + Month
  BY MonthStarts
<1>3. m > s => s + Month <= m
  BY <1>1, CalendarTypes, MultiplesApart
<1>4. m < s => m + Month <= s
  BY <1>1, CalendarTypes, MultiplesApart
<1>5. MonthStart(m) < m => MonthStart(m) + Month <= m
  BY <1>2, CalendarTypes, MultiplesApart
<1> HIDE DEF s
<1> QED
  BY <1>1, <1>2, <1>3, <1>4, <1>5, CalendarTypes DEF s

LEMMA DayStarts ==
    ASSUME NEW t \in Int
    PROVE  /\ DayStart(t) \in Int /\ DayStart(t) <= t
           /\ t % Month = 0 => DayStart(t) = t
<1> DEFINE r == t % Day
<1>1. r \in 0..(Day - 1)
  BY CalendarTypes, MultiplesAre
<1>2. t % Month = 0 => r = 0
  <2>1. SUFFICES ASSUME t % Month = 0 PROVE r = 0
    OBVIOUS
  <2>2. PICK q \in Int : t = Month * q
    BY <2>1, CalendarTypes, MultiplesAre
  <2>3. PICK k \in Int : Month = Day * k
    <3>1. Month \in Int /\ Month % Day = 0 /\ Day \in Nat \ {0}
      BY CalendarAssumption
    <3>2. Month % Day = 0 => \E k \in Int : Month = Day * k
      BY ONLY <3>1, MultiplesAre
    <3> QED
      BY <3>1, <3>2
  <2>4. t = Day * (k * q) /\ k * q \in Int
    <3>1. \A x, y, z \in Int : (x * y) * z = x * (y * z) /\ y * z \in Int
      OBVIOUS
    <3>2. Day \in Int /\ t = (Day * k) * q
      BY <2>2, <2>3, CalendarTypes
    <3> QED
      BY <3>1, <3>2
  <2>5. (Day * (k * q)) % Day = 0
    BY <2>4, CalendarTypes, MultiplesAre
  <2> QED
    BY <2>4, <2>5
<1> HIDE DEF r
<1>3. DayStart(t) = t - r
  BY DEF DayStart, r
<1> QED
  BY <1>1, <1>2, <1>3, CalendarTypes

(* Extremes *)

LEMMA LatestTick ==
    ASSUME NEW S \in SUBSET Ticks, S # {}
    PROVE  Max(S) \in S /\ \A t \in S : t <= Max(S)
<1> DEFINE ahead == {n \in Nat : Horizon - n \in S}
<1>1. \A t \in S : t \in Int /\ Horizon - t \in ahead
  <2>1. \A t \in S : t \in Int /\ Horizon - t \in Nat /\ Horizon - (Horizon - t) = t
    BY CalendarTypes
  <2> QED
    BY <2>1
<1>2. PICK n \in ahead : \A m \in ahead : n =< m
  <2>1. ahead # {} /\ ahead \in SUBSET Nat
    BY <1>1
  <2> HIDE DEF ahead
  <2> QED
    BY <2>1, Smallest
<1>3. Horizon - n \in S /\ n \in Nat
  BY <1>2
<1>4. \A t \in S : t <= Horizon - n
  <2>1. ASSUME NEW t \in S PROVE t <= Horizon - n
    <3>1. n =< Horizon - t /\ t \in Int
      BY <1>1, <1>2
    <3> QED
      BY <1>3, <3>1, CalendarTypes
  <2> QED
    BY <2>1
<1>5. \E x \in S : \A y \in S : x >= y
  <2>1. \A y \in S : Horizon - n >= y
    BY <1>1, <1>3, <1>4, CalendarTypes
  <2> QED
    BY <1>3, <2>1
<1>6. Max(S) \in S /\ \A y \in S : Max(S) >= y
  BY <1>5 DEF Max
<1> QED
  BY <1>1, <1>6

LEMMA PairExtremes ==
    ASSUME NEW a \in Int, NEW b \in Int
    PROVE  /\ Max({a, b}) = IF a >= b THEN a ELSE b
           /\ Min({a, b}) = IF a <= b THEN a ELSE b
<1>1. \E x \in {a, b} : \A y \in {a, b} : x >= y
  OBVIOUS
<1>2. \E x \in {a, b} : \A y \in {a, b} : x <= y
  OBVIOUS
<1>3. Max({a, b}) \in {a, b} /\ \A y \in {a, b} : Max({a, b}) >= y
  BY <1>1 DEF Max
<1>4. Min({a, b}) \in {a, b} /\ \A y \in {a, b} : Min({a, b}) <= y
  BY <1>2 DEF Min
<1> QED
  BY <1>3, <1>4

(* What merge_feature_rows has moved up to *)

LEMMA AsOfIs ==
    ASSUME NEW rows \in SUBSET Ticks, NEW close \in Ticks, NEW maxAge \in Nat
    PROVE  \/ /\ AsOf(rows, close, maxAge) = Missing
              /\ \A t \in rows : ~(close - maxAge <= t /\ t <= close)
           \/ /\ AsOf(rows, close, maxAge) \in rows
              /\ close - maxAge <= AsOf(rows, close, maxAge)
              /\ AsOf(rows, close, maxAge) <= close
              /\ \A t \in rows : t <= close => t <= AsOf(rows, close, maxAge)
<1> DEFINE past == {t \in rows : t <= close}
<1>1. AsOf(rows, close, maxAge) =
        IF past = {} \/ close - Max(past) > maxAge THEN Missing ELSE Max(past)
  BY DEF AsOf
<1>2. CASE past = {}
  BY <1>1, <1>2
<1>3. CASE past # {}
  <2>1. Max(past) \in past /\ \A t \in past : t <= Max(past)
    BY <1>3, LatestTick
  <2> DEFINE last == Max(past)
  <2>2. /\ last \in rows /\ last <= close /\ last \in Int /\ close \in Int
        /\ \A t \in rows : t \in Int /\ (t <= close => t <= last)
    BY <2>1, CalendarTypes
  <2>3. AsOf(rows, close, maxAge) = IF close - last > maxAge THEN Missing ELSE last
    BY <1>1, <1>3
  <2> HIDE DEF last, past
  <2> QED
    BY <2>2, <2>3
<1> QED
  BY <1>2, <1>3

(* Values that are too old or yet to come do not matter.                    *)
LEMMA SameAsOf ==
    ASSUME NEW R \in SUBSET Ticks, NEW S \in SUBSET Ticks, NEW close \in Ticks,
           NEW maxAge \in Nat,
           \A t \in Ticks : close - maxAge <= t /\ t <= close => (t \in R <=> t \in S)
    PROVE  AsOf(R, close, maxAge) = AsOf(S, close, maxAge)
<1> DEFINE r == AsOf(R, close, maxAge)
           s == AsOf(S, close, maxAge)
<1>1. \/ r = Missing /\ \A t \in R : ~(close - maxAge <= t /\ t <= close)
      \/ /\ r \in R /\ close - maxAge <= r /\ r <= close
         /\ \A t \in R : t <= close => t <= r
  BY AsOfIs
<1>2. \/ s = Missing /\ \A t \in S : ~(close - maxAge <= t /\ t <= close)
      \/ /\ s \in S /\ close - maxAge <= s /\ s <= close
         /\ \A t \in S : t <= close => t <= s
  BY AsOfIs
<1>3. (r \in R => r \in Int /\ r \in Ticks) /\ (s \in S => s \in Int /\ s \in Ticks)
  BY CalendarTypes
<1> HIDE DEF r, s
<1>4. r = s
  BY <1>1, <1>2, <1>3
<1> QED
  BY <1>4 DEF r, s

(* The pages of a range of funding rates are all of it. *)

Published(from, to) == {t \in published : from <= t /\ t <= to}

LEMMA PagesAreAll ==
    ASSUME published \in SUBSET Ticks, NEW from \in Int, NEW to \in Int, from <= to
    PROVE  FundingPages(from, to) = Published(from, to)
<1> DEFINE D == (from - 1)..to
           Behind(last) == {t \in published : last < t /\ t <= to}
           Upto(last, t) == {u \in Behind(last) : u <= t}
           Page(last) == {t \in Behind(last) : Cardinality(Upto(last, t)) <= PageLimit}
           Read(g, last) ==
               IF last >= to THEN {}
               ELSE IF Cardinality(Page(last)) < PageLimit THEN Page(last)
               ELSE Page(last) \union g[Max(Page(last))]
           Pages(g) == g = [last \in D |-> Read(g, last)]
<1>1. ASSUME NEW last \in D
      PROVE  /\ Behind(last) \in SUBSET Ticks
             /\ \A t \in Behind(last) : t \in Int /\ t \in D /\ last < t
             /\ IsFiniteSet(Behind(last))
  <2>1. Behind(last) \in SUBSET Ticks /\ \A t \in Behind(last) : t \in Int /\ t \in D /\ last < t
    BY CalendarTypes
  <2>2. IsFiniteSet(Ticks)
    BY CalendarTypes, FS_Interval DEF Ticks
  <2> QED
    BY <2>1, <2>2, FS_Subset
<1>2. ASSUME NEW last \in D, NEW t \in Behind(last)
      PROVE  /\ IsFiniteSet(Upto(last, t)) /\ Cardinality(Upto(last, t)) \in Nat
             /\ \A u \in Behind(last) : u <= t =>
                  Cardinality(Upto(last, u)) <= Cardinality(Upto(last, t))
  <2>1. ASSUME NEW u \in Behind(last)
        PROVE  IsFiniteSet(Upto(last, u)) /\ Cardinality(Upto(last, u)) \in Nat
    <3>1. Upto(last, u) \subseteq Behind(last)
      OBVIOUS
    <3> QED
      BY <1>1, <3>1, FS_Subset, FS_CardinalityType
  <2>2. ASSUME NEW u \in Behind(last), u <= t
        PROVE  Cardinality(Upto(last, u)) <= Cardinality(Upto(last, t))
    <3>1. Upto(last, u) \subseteq Upto(last, t)
      <4>1. \A w \in Behind(last) : w \in Int
        BY <1>1
      <4>2. \A w \in Behind(last) : w <= u => w <= t
        BY <2>2, <4>1
      <4> HIDE DEF Behind
      <4> QED
        BY <4>2
    <3> HIDE DEF Upto, Behind
    <3> QED
      BY <2>1, <3>1, FS_Subset
  <2> HIDE DEF Upto, Behind
  <2> QED
    BY <2>1, <2>2
<1>3. ASSUME NEW last \in D
      PROVE  /\ Page(last) \subseteq Behind(last)
             /\ IsFiniteSet(Page(last)) /\ Cardinality(Page(last)) \in Nat
             /\ \A t \in Behind(last), u \in Page(last) : t <= u => t \in Page(last)
  <2>1. Page(last) \subseteq Behind(last)
    OBVIOUS
  <2>2. IsFiniteSet(Page(last)) /\ Cardinality(Page(last)) \in Nat
    BY <1>1, <2>1, FS_Subset, FS_CardinalityType
  <2>3. ASSUME NEW t \in Behind(last), NEW u \in Page(last), t <= u PROVE t \in Page(last)
    <3>1. u \in Behind(last) /\ Cardinality(Upto(last, u)) <= PageLimit
      OBVIOUS
    <3> HIDE DEF Upto, Behind
    <3>2. /\ Cardinality(Upto(last, t)) <= Cardinality(Upto(last, u))
          /\ Cardinality(Upto(last, t)) \in Nat /\ Cardinality(Upto(last, u)) \in Nat
      BY <1>2, <2>3, <3>1
    <3> QED
      BY <3>1, <3>2, CalendarTypes
  <2> HIDE DEF Page, Behind
  <2> QED
    BY <2>1, <2>2, <2>3
<1>4. ASSUME NEW last \in D, Cardinality(Page(last)) < PageLimit
      PROVE  Page(last) = Behind(last)
  <2> DEFINE rest == Behind(last) \ Page(last)
  <2>1. SUFFICES ASSUME rest # {} PROVE FALSE
    BY <1>3
  <2>2. PICK t \in rest : \A u \in rest : t =< u
    <3>1. rest \in SUBSET Nat
      BY CalendarTypes
    <3> HIDE DEF rest
    <3> QED
      BY <2>1, <3>1, Smallest
  <2>3. t \in Behind(last) /\ t \notin Page(last) /\ t \in Int
    BY <1>1, <2>2
  <2>4. Upto(last, t) \ {t} \subseteq Page(last)
    <3>1. ASSUME NEW u \in Upto(last, t), u # t PROVE u \in Page(last)
      <4>1. u \in Behind(last) /\ u <= t /\ u \in Int
        BY <1>1
      <4>2. ~(t =< u)
        BY <2>3, <3>1, <4>1
      <4>3. u \in rest => t =< u
        BY <2>2
      <4> HIDE DEF Behind, Page, Upto
      <4> QED
        BY <4>1, <4>2, <4>3
    <3> HIDE DEF Page, Upto
    <3> QED
      BY <3>1
  <2>5. t \in Upto(last, t)
    BY <2>3
  <2> DEFINE U == Upto(last, t)
  <2>6. IsFiniteSet(U) /\ Cardinality(U) \in Nat
    BY <1>2, <2>3
  <2>7. ~(Cardinality(U) <= PageLimit)
    BY <2>3
  <2> HIDE DEF U, Page, Behind, Upto, rest
  <2>8. Cardinality(U \ {t}) <= Cardinality(Page(last))
    BY <1>3, <2>4, FS_Subset DEF U
  <2>9. Cardinality(U \ {t}) = Cardinality(U) - 1
    BY <2>5, <2>6, FS_RemoveElement DEF U
  <2> QED
    BY <1>3, <1>4, <2>6, <2>7, <2>8, <2>9, CalendarTypes
<1>5. ASSUME NEW last \in D, ~(last >= to), ~(Cardinality(Page(last)) < PageLimit)
      PROVE  /\ Max(Page(last)) \in D /\ last < Max(Page(last))
             /\ Page(last) \union Behind(Max(Page(last))) = Behind(last)
  <2>1. Page(last) # {}
    <3>1. Cardinality({}) = 0
      BY FS_EmptySet
    <3> HIDE DEF Page
    <3> QED
      BY <1>5, <3>1, CalendarTypes
  <2>2. Page(last) \in SUBSET Ticks
    BY <1>1, <1>3
  <2> DEFINE m == Max(Page(last))
  <2>3. m \in Page(last) /\ \A t \in Page(last) : t <= m
    <3> HIDE DEF Page
    <3> QED
      BY <2>1, <2>2, LatestTick
  <2> HIDE DEF m
  <2>4. m \in Behind(last) /\ m \in D /\ last < m /\ m \in Int
    BY <1>1, <1>3, <2>3
  <2>5. ASSUME NEW t \in Behind(last) PROVE t \in Page(last) \/ t \in Behind(m)
    <3>1. CASE t <= m
      <4> HIDE DEF Page, Behind
      <4> QED
        BY <1>3, <2>3, <3>1
    <3>2. CASE ~(t <= m)
      BY <1>1, <2>4, <3>2
    <3> QED
      BY <3>1, <3>2
  <2>6. Behind(m) \subseteq Behind(last)
    <3>1. last \in Int /\ \A t \in published : t \in Int
      BY CalendarTypes
    <3>2. \A t \in published : m < t => last < t
      BY <2>4, <3>1
    <3> QED
      BY <3>2
  <2> HIDE DEF Page, Behind
  <2> QED
    BY <1>3, <2>4, <2>5, <2>6 DEF m
<1>6. ASSUME NEW last \in D, NEW g,
             \A k \in D : last < k => g[k] = Behind(k)
      PROVE  Read(g, last) = Behind(last)
  <2>1. CASE last >= to
    <3>1. last \in Int
      OBVIOUS
    <3>2. \A t \in published : ~(last < t /\ t <= to)
      BY <2>1, <3>1, CalendarTypes
    <3> QED
      BY <2>1, <3>2
  <2>2. CASE ~(last >= to) /\ Cardinality(Page(last)) < PageLimit
    BY <1>4, <2>2
  <2>3. CASE ~(last >= to) /\ ~(Cardinality(Page(last)) < PageLimit)
    <3> HIDE DEF Page, Behind
    <3> QED
      BY <1>5, <1>6, <2>3
  <2> QED
    BY <2>1, <2>2, <2>3
<1>7. Pages([last \in D |-> Behind(last)])
  <2> DEFINE b == [last \in D |-> Behind(last)]
  <2>1. \A last \in D : b[last] = Behind(last)
    OBVIOUS
  <2>2. ASSUME NEW last \in D PROVE Read(b, last) = Behind(last)
    <3>1. \A k \in D : last < k => b[k] = Behind(k)
      BY <2>1
    <3> HIDE DEF b, D, Read, Behind
    <3> QED
      BY <1>6, <3>1
  <2> HIDE DEF Read, Behind, D
  <2> QED
    BY <2>2
<1> DEFINE g == CHOOSE x : Pages(x)
<1>8. Pages(g)
  <2> HIDE DEF Pages
  <2> QED
    BY <1>7
<1>9. FundingPages(from, to) = g[from - 1]
  BY DEF FundingPages
<1> HIDE DEF g
<1>10. \A last \in D : g[last] = Read(g, last)
  <2> HIDE DEF Read, D
  <2> QED
    BY <1>8
<1> DEFINE n == to - from + 1
           S == {k \in 0..n : \A last \in D : to - last <= k => g[last] = Behind(last)}
<1>11. n \in Nat /\ \A last \in D : last \in Int /\ to - last \in 0..n
  OBVIOUS
<1> HIDE DEF Pages, Read, Behind, Page, Upto, D
<1>12. 0 \in S
  <2>1. ASSUME NEW last \in D, to - last <= 0 PROVE g[last] = Behind(last)
    <3>1. \A k \in D : ~(last < k)
      BY <1>11, <2>1 DEF D
    <3>2. \A k \in D : last < k => g[k] = Behind(k)
      BY <3>1
    <3> QED
      BY <1>6, <1>10, <3>2
  <2>2. 0 \in 0..n
    BY <1>11
  <2> QED
    BY <2>1, <2>2
<1>13. ASSUME NEW k \in 1..n, k - 1 \in S PROVE k \in S
  <2>1. ASSUME NEW last \in D, to - last <= k PROVE g[last] = Behind(last)
    <3>1. ASSUME NEW later \in D, last < later PROVE g[later] = Behind(later)
      <4>1. to - later <= k - 1
        BY <1>11, <2>1, <3>1
      <4> QED
        BY <1>13, <4>1
    <3> QED
      BY <1>6, <1>10, <3>1
  <2>2. k \in 0..n
    BY <1>11
  <2> QED
    BY <2>1, <2>2
<1>14. n \in S
  <2>1. n \in 0..n
    BY <1>11
  <2> HIDE DEF S, n
  <2> QED
    BY <1>11, <1>12, <1>13, <2>1, InductionUpTo
<1>15. from - 1 \in D
  BY DEF D
<1>16. g[from - 1] = Behind(from - 1)
  BY <1>11, <1>14, <1>15
<1>17. Behind(from - 1) = Published(from, to)
  <2>1. \A t \in published : t \in Int
    BY CalendarTypes
  <2> QED
    BY <2>1 DEF Behind, Published
<1> QED
  BY <1>9, <1>16, <1>17

(* The build *)

(* A chunk ends with its month or with the range.  A range of funding rates *)
(* that was asked for begins further back than any that a later chunk asks  *)
(* for, so none of those is taken for one that was loaded already.          *)
BuildInv ==
    /\ BuildTypeOK
    /\ request.start < request.end
    /\ \A t \in published : t <= request.now
    /\ request.start <= cursor /\ cursor <= request.end
    /\ cursor = request.start \/ cursor = request.end \/ cursor % Month = 0
    /\ cursor < request.end => \A r \in fundingRequests : r[1] < cursor - FundingMaxAge
    /\ MergedRowsAreAsOf

ChunkEnd == Min({request.end, MonthStart(cursor) + Month})
Building == BuildInv /\ cursor < request.end

LEMMA ChunkIs ==
    ASSUME Building
    PROVE  /\ cursor \in Ticks /\ cursor \in Int /\ ChunkEnd \in Ticks /\ ChunkEnd \in Int
           /\ request.start \in Int /\ request.end \in Int
           /\ request.now \in Int /\ request.start <= cursor
           /\ cursor < ChunkEnd /\ ChunkEnd <= request.end
           /\ ChunkEnd = request.end \/ ChunkEnd % Month = 0
           /\ ChunkEnd <= MonthStart(cursor) + Month
           /\ published \in SUBSET Ticks
<1>1. /\ cursor \in Ticks /\ cursor \in Int /\ cursor < request.end /\ request.start <= cursor
      /\ request.end \in Ticks /\ request.end \in Int /\ request.start \in Int
      /\ request.now \in Int /\ published \in SUBSET Ticks
  BY CalendarTypes DEF Building, BuildInv, BuildTypeOK
<1> DEFINE m == MonthStart(cursor)
<1>2. m \in Int /\ m % Month = 0 /\ m <= cursor /\ cursor < m + Month
  BY <1>1, MonthStarts
<1>3. (m + Month) % Month = 0
  <2>1. PICK q \in Int : m = Month * q
    BY <1>2, CalendarTypes, MultiplesAre
  <2>2. m + Month = Month * (q + 1) /\ q + 1 \in Int
    BY <2>1, CalendarTypes
  <2>3. (Month * (q + 1)) % Month = 0
    BY <2>2, CalendarTypes, MultiplesAre
  <2> QED
    BY <2>2, <2>3
<1> HIDE DEF m
<1>4. ChunkEnd = IF request.end <= m + Month THEN request.end ELSE m + Month
  <2>1. m + Month \in Int
    BY <1>2, CalendarTypes
  <2> QED
    BY <1>1, <2>1, PairExtremes DEF ChunkEnd, m
<1>5. ChunkEnd \in Int /\ cursor < ChunkEnd /\ ChunkEnd <= request.end /\ ChunkEnd <= m + Month
  BY <1>1, <1>2, <1>4, CalendarTypes
<1>6. ChunkEnd \in Ticks
  BY <1>1, <1>5, CalendarTypes
<1> QED
  BY <1>1, <1>3, <1>4, <1>5, <1>6 DEF m

(* The months whose funding archives a chunk asks for *)
LEMMA MonthsAskedFor ==
    ASSUME Building, NEW m \in FundingMonths(cursor, ChunkEnd)
    PROVE  /\ m \in Int /\ m % Month = 0 /\ m < ChunkEnd /\ m < MonthStart(request.now)
           /\ FundingArchiveStart(cursor) = cursor - FundingMaxAge
           /\ ChunkEnd % Month = 0 => m < ChunkEnd - FundingMaxAge
<1> DEFINE e == ChunkEnd
<1>1. /\ m \in Int /\ m % Month = 0 /\ m < e /\ m < MonthStart(request.now)
      /\ MonthStart(FundingArchiveStart(cursor)) <= m
  BY ChunkIs, CalendarTypes DEF FundingMonths
<1>2. /\ MonthStart(request.now) \in Int /\ MonthStart(request.now) % Month = 0
      /\ MonthStart(cursor) \in Int
  BY ChunkIs, MonthStarts
<1>3. cursor < MonthStart(request.now)
  <2>1. SUFFICES ASSUME ~(cursor < MonthStart(request.now)) PROVE FALSE
    OBVIOUS
  <2>2. MonthStart(request.now) <= cursor /\ FundingArchiveStart(cursor) = cursor
    BY <1>2, <2>1, ChunkIs DEF FundingArchiveStart
  <2>3. MonthStart(request.now) <= MonthStart(cursor)
    BY <1>2, <2>2, ChunkIs, MonthOf
  <2> QED
    BY <1>1, <1>2, <2>2, <2>3
<1>4. FundingArchiveStart(cursor) = cursor - FundingMaxAge
  BY <1>3 DEF FundingArchiveStart
<1>5. ASSUME e % Month = 0 PROVE m < e - FundingMaxAge
  <2>1. e \in Int
    BY ChunkIs
  <2> HIDE DEF e
  <2>2. m + Month <= e
    BY <1>1, <1>5, <2>1, CalendarTypes, MultiplesApart
  <2> QED
    BY <1>1, <2>1, <2>2, CalendarTypes
<1> QED
  BY <1>1, <1>4, <1>5

LEMMA FallbackIs ==
    ASSUME Building, NEW m \in FundingMonths(cursor, ChunkEnd)
    PROVE  FallbackRange(cursor, ChunkEnd, m) =
             <<IF cursor - FundingMaxAge >= m THEN cursor - FundingMaxAge ELSE m,
               IF ChunkEnd <= m + Month THEN ChunkEnd ELSE m + Month>>
<1>1. /\ m \in Int /\ cursor - FundingMaxAge \in Int /\ ChunkEnd \in Int /\ m + Month \in Int
      /\ FundingArchiveStart(cursor) = cursor - FundingMaxAge
  BY MonthsAskedFor, ChunkIs, CalendarTypes
<1> DEFINE a == cursor - FundingMaxAge
           b == m + Month
           e == ChunkEnd
<1>2. a \in Int /\ b \in Int /\ e \in Int
  BY <1>1
<1>3. FallbackRange(cursor, ChunkEnd, m) = <<Max({a, m}), Min({e, b})>>
  BY <1>1 DEF FallbackRange
<1> HIDE DEF a, b, e
<1>4. Max({a, m}) = (IF a >= m THEN a ELSE m) /\ Min({e, b}) = (IF e <= b THEN e ELSE b)
  BY <1>1, <1>2, PairExtremes
<1> QED
  BY <1>3, <1>4 DEF a, b, e

(* The REST range of the month that is not over *)
Later(a, b) == IF a >= b THEN a ELSE b
CurrentRange ==
    <<Later(cursor, MonthStart(request.now)) - FundingMaxAge,
      IF ChunkEnd <= request.now THEN ChunkEnd ELSE request.now>>

LEMMA RangesAre ==
    ASSUME Building, NEW r
    PROVE  r \in FundingRanges(cursor, ChunkEnd) <=>
             \/ \E m \in FundingMonths(cursor, ChunkEnd) \cap unavailable :
                  r = FallbackRange(cursor, ChunkEnd, m)
             \/ ChunkEnd > MonthStart(request.now) /\ r = CurrentRange
<1> DEFINE s == MonthStart(request.now)
           n == request.now
           e == ChunkEnd
<1>1. s \in Int /\ n \in Int /\ cursor \in Int /\ e \in Int
  BY ChunkIs, MonthStarts
<1>2. Max({cursor, s}) = Later(cursor, s) /\ Min({e, n}) = IF e <= n THEN e ELSE n
  <2> HIDE DEF s, n, e
  <2> QED
    BY <1>1, PairExtremes DEF Later
<1>3. CurrentRange = <<Max({cursor, s}) - FundingMaxAge, Min({e, n})>>
  BY <1>2 DEF CurrentRange
<1> QED
  BY <1>3, Zenon DEF FundingRanges

(* No range of this chunk was asked for before.                             *)
LEMMA RangesAreNew ==
    ASSUME Building, NEW r \in FundingRanges(cursor, ChunkEnd)
    PROVE  /\ r \in Int \X Int
           /\ r \notin fundingRequests
           /\ ChunkEnd % Month = 0 => r[1] < ChunkEnd - FundingMaxAge
<1> DEFINE e == ChunkEnd
           s == MonthStart(request.now)
<1>1. e \in Int /\ cursor \in Int /\ cursor < e /\ s \in Int /\ request.now \in Int
  BY ChunkIs, MonthStarts
<1>2. /\ r \in Int \X Int /\ r[1] \in Int /\ cursor - FundingMaxAge <= r[1]
      /\ e % Month = 0 => r[1] < e - FundingMaxAge
  <2>1. CASE \E m \in FundingMonths(cursor, ChunkEnd) \cap unavailable :
               r = FallbackRange(cursor, ChunkEnd, m)
    <3>1. PICK m \in FundingMonths(cursor, ChunkEnd) : r = FallbackRange(cursor, ChunkEnd, m)
      BY <2>1
    <3>2. r = <<IF cursor - FundingMaxAge >= m THEN cursor - FundingMaxAge ELSE m,
                IF e <= m + Month THEN e ELSE m + Month>>
      BY <3>1, FallbackIs
    <3>3. m \in Int /\ (e % Month = 0 => m < e - FundingMaxAge)
      BY MonthsAskedFor
    <3> HIDE DEF e, s
    <3>4. r[1] = IF cursor - FundingMaxAge >= m THEN cursor - FundingMaxAge ELSE m
      BY <3>2
    <3>5. r[1] \in Int /\ cursor - FundingMaxAge <= r[1]
      BY <1>1, <3>3, <3>4, CalendarTypes
    <3>6. r \in Int \X Int
      BY <1>1, <3>2, <3>3, CalendarTypes
    <3>7. e % Month = 0 => r[1] < e - FundingMaxAge
      BY <1>1, <3>3, <3>4, CalendarTypes
    <3> QED
      BY <3>5, <3>6, <3>7
  <2>2. CASE e > s /\ r = CurrentRange
    <3>1. r = <<Later(cursor, s) - FundingMaxAge, IF e <= request.now THEN e ELSE request.now>>
      BY <2>2 DEF CurrentRange
    <3> HIDE DEF e, s
    <3>2. r[1] = Later(cursor, s) - FundingMaxAge
      BY <3>1
    <3>3. Later(cursor, s) \in Int /\ cursor <= Later(cursor, s) /\ Later(cursor, s) < e
      BY <1>1, <2>2 DEF Later
    <3>4. r \in Int \X Int
      BY <1>1, <3>1, <3>3, CalendarTypes
    <3> QED
      BY <1>1, <3>2, <3>3, <3>4, CalendarTypes
  <2> QED
    BY <2>1, <2>2, RangesAre
<1>3. \A q \in fundingRequests : q[1] < cursor - FundingMaxAge
  BY DEF Building, BuildInv
<1>4. r \notin fundingRequests
  <2>1. ASSUME r \in fundingRequests PROVE FALSE
    <3>1. r[1] < cursor - FundingMaxAge
      BY <1>3, <2>1
    <3> QED
      BY <1>1, <1>2, <3>1, CalendarTypes
  <2> QED
    BY <2>1
<1> QED
  BY <1>2, <1>4

(* So the rows of a range are what was published in it.                     *)
LEMMA RangeRows ==
    ASSUME Building, NEW r \in FundingRanges(cursor, ChunkEnd)
    PROVE  /\ LoadFundingRange(r, fundingRequests) \subseteq published
           /\ r[1] < r[2] => LoadFundingRange(r, fundingRequests) = Published(r[1], r[2])
<1>1. r \in Int \X Int /\ r \notin fundingRequests /\ published \in SUBSET Ticks
  BY RangesAreNew, ChunkIs
<1> DEFINE a == r[1]
           b == r[2]
<1>2. a \in Int /\ b \in Int
  BY <1>1
<1>3. LoadFundingRange(r, fundingRequests) = IF a >= b THEN {} ELSE FundingPages(a, b)
  BY <1>1 DEF LoadFundingRange
<1> HIDE DEF a, b
<1>4. a < b => FundingPages(a, b) = Published(a, b)
  BY <1>1, <1>2, PagesAreAll
<1>5. Published(a, b) \subseteq published
  BY DEF Published
<1> QED
  BY <1>2, <1>3, <1>4, <1>5 DEF a, b

(* The funding rows of a chunk are published ones, and all that a close of  *)
(* the chunk may take, but one at the close that ends a month.              *)
LEMMA FundingIsPublished ==
    ASSUME Building
    PROVE  FundingRows(cursor, ChunkEnd) \subseteq published
<1>1. ASSUME NEW t \in FundingRows(cursor, ChunkEnd), t \notin published PROVE FALSE
  <2>1. t \in UNION {LoadFundingRange(r, fundingRequests) : r \in FundingRanges(cursor, ChunkEnd)}
    BY <1>1, Zenon DEF FundingRows
  <2>2. PICK r \in FundingRanges(cursor, ChunkEnd) : t \in LoadFundingRange(r, fundingRequests)
    BY <2>1, Zenon
  <2> QED
    BY <1>1, <2>2, RangeRows
<1> QED
  BY <1>1

LEMMA FundingCovers ==
    ASSUME Building, NEW close \in (cursor + 1)..ChunkEnd, NEW t \in published,
           close - FundingMaxAge <= t, t <= close, ~(t = close /\ close % Month = 0)
    PROVE  t \in FundingRows(cursor, ChunkEnd)
<1> DEFINE e == ChunkEnd
           s == MonthStart(request.now)
           n == request.now
           a == cursor - FundingMaxAge
<1>1. /\ t \in Int /\ close \in Int /\ cursor \in Int /\ e \in Int /\ n \in Int /\ a \in Int
      /\ t <= n /\ cursor < close /\ close <= e /\ 0 <= t
  BY ChunkIs, CalendarTypes DEF Building, BuildInv
<1>2. s \in Int /\ s % Month = 0 /\ s <= n /\ n < s + Month
  BY <1>1, MonthStarts
<1>3. a < t
  BY <1>1, CalendarTypes
<1> DEFINE m == MonthStart(t)
<1>4. m \in Int /\ m % Month = 0 /\ m <= t /\ t < m + Month
  BY <1>1, MonthStarts
<1>5. ASSUME NEW r \in FundingRanges(cursor, ChunkEnd), r[1] < r[2], r[1] <= t, t <= r[2]
      PROVE  t \in FundingRows(cursor, ChunkEnd)
  <2>1. t \in LoadFundingRange(r, fundingRequests)
    BY <1>5, RangeRows DEF Published
  <2>2. t \in UNION {LoadFundingRange(q, fundingRequests) : q \in FundingRanges(cursor, ChunkEnd)}
    BY <2>1, Zenon
  <2> QED
    BY <2>2, Zenon DEF FundingRows
<1>6. CASE m < s /\ cursor < s
  <2>1. m < e
    <3>1. m # e
      <4>1. SUFFICES ASSUME m = e PROVE FALSE
        OBVIOUS
      <4>2. t = close /\ m = close
        BY <1>1, <1>4, <4>1
      <4>3. close % Month = 0
        BY <1>4, <4>2
      <4> QED
        BY <4>2, <4>3
    <3> QED
      BY <1>1, <1>4, <3>1
  <2>2. FundingArchiveStart(cursor) = a
    BY <1>6 DEF FundingArchiveStart
  <2>3. MonthStart(a) <= m
    <3>1. MonthStart(a) \in Int /\ MonthStart(a) % Month = 0 /\ MonthStart(a) <= a
      BY <1>1, MonthStarts
    <3>2. MonthStart(a) <= t
      BY <1>1, <1>3, <3>1
    <3> HIDE DEF a
    <3> QED
      BY <1>1, <3>1, <3>2, MonthOf
  <2>4. m \in -Month..e
    BY <1>1, <1>4, <2>1, CalendarTypes
  <2>5. m \in FundingMonths(cursor, ChunkEnd)
    BY <1>4, <1>6, <2>1, <2>2, <2>3, <2>4 DEF FundingMonths
  <2>6. CASE m \notin unavailable
    <3> HIDE DEF m
    <3>1. a <= t /\ t <= e /\ m <= t /\ t < m + Month
      BY <1>1, <1>3, <1>4
    <3> QED
      BY <2>5, <2>6, <3>1 DEF FundingRows
  <2>7. CASE m \in unavailable
    <3> DEFINE r == FallbackRange(cursor, ChunkEnd, m)
    <3>1. r = <<IF a >= m THEN a ELSE m, IF e <= m + Month THEN e ELSE m + Month>>
      BY <2>5, FallbackIs
    <3>2. r \in FundingRanges(cursor, ChunkEnd)
      BY <2>5, <2>7, RangesAre
    <3> HIDE DEF r, a, e, m
    <3>3. r[1] = (IF a >= m THEN a ELSE m) /\ r[2] = (IF e <= m + Month THEN e ELSE m + Month)
      BY <3>1
    <3>4. r[1] <= t /\ t <= r[2] /\ r[1] < r[2]
      BY <1>1, <1>3, <1>4, <2>1, <3>3, CalendarTypes
    <3> QED
      BY <1>5, <3>2, <3>4
  <2> QED
    BY <2>6, <2>7
<1>7. CASE ~(m < s /\ cursor < s)
  <2>1. s <= t \/ s <= cursor
    BY <1>1, <1>2, <1>4, <1>7
  <2>2. s < e
    <3>1. CASE s <= cursor
      BY <1>1, <1>2, <3>1
    <3>2. CASE s <= t
      <4>1. s # e
        <5>1. SUFFICES ASSUME s = e PROVE FALSE
          OBVIOUS
        <5>2. t = close /\ s = close
          BY <1>1, <1>2, <3>2, <5>1
        <5>3. close % Month = 0
          BY <1>2, <5>2
        <5> QED
          BY <5>2, <5>3
      <4> QED
        BY <1>1, <1>2, <3>2, <4>1
    <3> QED
      BY <2>1, <3>1, <3>2
  <2> DEFINE r == CurrentRange
  <2>3. r \in FundingRanges(cursor, ChunkEnd)
    BY <1>1, <1>2, <2>2, RangesAre
  <2>4. r = <<Later(cursor, s) - FundingMaxAge, IF e <= n THEN e ELSE n>>
    BY DEF CurrentRange
  <2> HIDE DEF r
  <2>5. Later(cursor, s) - FundingMaxAge < t \/ (FundingMaxAge = 0 /\ t = s)
    <3>1. CASE cursor >= s
      <4>1. Later(cursor, s) = cursor
        BY <3>1 DEF Later
      <4> QED
        BY <1>3, <4>1
    <3>2. CASE ~(cursor >= s)
      <4>1. Later(cursor, s) = s /\ s <= t
        BY <1>1, <1>2, <2>1, <3>2 DEF Later
      <4> HIDE DEF s
      <4> QED
        BY <1>1, <1>2, <4>1, CalendarTypes
    <3> QED
      BY <3>1, <3>2
  <2>6. ~(FundingMaxAge = 0 /\ t = s)
    <3>1. SUFFICES ASSUME FundingMaxAge = 0, t = s PROVE FALSE
      OBVIOUS
    <3>2. t = close
      BY <1>1, <3>1
    <3>3. close % Month = 0
      BY <1>2, <3>1, <3>2
    <3> QED
      BY <3>2, <3>3
  <2>7. Later(cursor, s) \in Int
    BY <1>1, <1>2 DEF Later
  <2> HIDE DEF s, e, n, m
  <2>8. r[1] = Later(cursor, s) - FundingMaxAge /\ r[2] = (IF e <= n THEN e ELSE n)
    BY <2>4
  <2>9. r[1] <= t /\ t <= r[2] /\ r[1] < r[2]
    BY <1>1, <2>5, <2>6, <2>7, <2>8, CalendarTypes
  <2> QED
    BY <1>5, <2>3, <2>9
<1> QED
  BY <1>6, <1>7

LEMMA FundingOfRow ==
    ASSUME Building, NEW close \in (cursor + 1)..ChunkEnd, NEW value,
           value = AsOf(FundingRows(cursor, ChunkEnd), close, FundingMaxAge)
    PROVE  /\ value \in {Missing} \union Ticks
           /\ \/ value = LastPublished(close, FundingMaxAge)
              \/ /\ close % Month = 0 /\ close \in published
                 /\ value = AsOf(published \ {close}, close, FundingMaxAge)
<1> DEFINE rows == FundingRows(cursor, ChunkEnd)
<1>1. /\ rows \subseteq published /\ published \in SUBSET Ticks /\ rows \in SUBSET Ticks
      /\ close \in Ticks /\ FundingMaxAge \in Nat
  <2>1. rows \subseteq published /\ published \in SUBSET Ticks
    BY FundingIsPublished, ChunkIs
  <2>2. close \in Int /\ 0 <= close /\ close <= Horizon
    BY ChunkIs, CalendarTypes
  <2> QED
    BY <2>1, <2>2, CalendarTypes
<1>2. ASSUME NEW t \in published, close - FundingMaxAge <= t, t <= close,
             ~(t = close /\ close % Month = 0)
      PROVE  t \in rows
  BY <1>2, FundingCovers
<1> HIDE DEF rows
<1>3. value = AsOf(rows, close, FundingMaxAge)
  BY DEF rows
<1>4. value \in {Missing} \union Ticks
  BY <1>1, <1>3, AsOfIs
<1>5. CASE close % Month = 0 /\ close \in published /\ close \notin rows
  <2> DEFINE others == published \ {close}
  <2>1. others \in SUBSET Ticks /\ \A t \in Ticks :
          close - FundingMaxAge <= t /\ t <= close => (t \in rows <=> t \in others)
    BY <1>1, <1>2, <1>5
  <2> HIDE DEF others
  <2>2. AsOf(rows, close, FundingMaxAge) = AsOf(others, close, FundingMaxAge)
    BY <1>1, <2>1, SameAsOf
  <2> QED
    BY <1>3, <1>4, <1>5, <2>2 DEF others
<1>6. CASE ~(close % Month = 0 /\ close \in published /\ close \notin rows)
  <2>1. \A t \in Ticks :
          close - FundingMaxAge <= t /\ t <= close => (t \in rows <=> t \in published)
    BY <1>1, <1>2, <1>6
  <2>2. AsOf(rows, close, FundingMaxAge) = AsOf(published, close, FundingMaxAge)
    BY <1>1, <2>1, SameAsOf
  <2> QED
    BY <1>3, <1>4, <2>2 DEF LastPublished
<1> QED
  BY <1>5, <1>6

(* Behind the end of a month a chunk begins where the range or the month    *)
(* does.                                                                   *)
LEMMA ChunkBegins ==
    ASSUME Building, NEW close \in (cursor + 1)..ChunkEnd, close % Month # 0
    PROVE  cursor = Max({request.start, MonthStart(close)})
<1>1. /\ cursor \in Int /\ close \in Int /\ cursor < close /\ close <= MonthStart(cursor) + Month
      /\ MonthStart(cursor) \in Int /\ MonthStart(cursor) % Month = 0
      /\ MonthStart(cursor) <= cursor /\ request.start \in Int /\ request.start <= cursor
  BY ChunkIs, MonthStarts, CalendarTypes
<1>2. close # MonthStart(cursor) + Month
  <2>1. (MonthStart(cursor) + Month) % Month = 0
    <3>1. PICK q \in Int : MonthStart(cursor) = Month * q
      BY <1>1, CalendarTypes, MultiplesAre
    <3>2. MonthStart(cursor) + Month = Month * (q + 1) /\ q + 1 \in Int
      BY <3>1, CalendarTypes
    <3>3. (Month * (q + 1)) % Month = 0
      BY <3>2, CalendarTypes, MultiplesAre
    <3> QED
      BY <3>2, <3>3
  <2> QED
    BY <2>1
<1>3. MonthStart(close) = MonthStart(cursor)
  <2>1. close < MonthStart(cursor) + Month /\ MonthStart(cursor) <= close
    BY <1>1, <1>2, CalendarTypes
  <2> QED
    BY <1>1, <2>1, MonthOf
<1>4. cursor = request.start \/ cursor = MonthStart(cursor)
  <2>1. cursor = request.start \/ cursor % Month = 0
    <3>1. cursor # request.end
      BY ChunkIs
    <3> QED
      BY <3>1 DEF Building, BuildInv
  <2>2. cursor % Month = 0 => MonthStart(cursor) = cursor
    BY <1>1, MonthOf
  <2> QED
    BY <2>1, <2>2
<1> DEFINE m == MonthStart(cursor)
           b == request.start
<1>5. Max({b, m}) = IF b >= m THEN b ELSE m
  <2>1. m \in Int /\ b \in Int
    BY <1>1
  <2> HIDE DEF m, b
  <2> QED
    BY <2>1, PairExtremes
<1> QED
  BY <1>1, <1>3, <1>4, <1>5

LEMMA MetricsOfRow ==
    ASSUME Building, NEW close \in (cursor + 1)..ChunkEnd, NEW value,
           value = AsOf(MetricsRows(cursor, ChunkEnd), close, MetricsMaxAge)
    PROVE  /\ value \in {Missing} \union Ticks
           /\ value # Missing => /\ value \in published
                                 /\ close - MetricsMaxAge <= value /\ value <= close
           /\ /\ close - MetricsMaxAge > Max({request.start, MonthStart(close)})
              /\ close < DayStart(request.end) /\ close < DayStart(request.now)
              => value = LastPublished(close, MetricsMaxAge)
<1> DEFINE rows == MetricsRows(cursor, ChunkEnd)
           s == Max({request.start, MonthStart(close)})
<1>1. /\ rows \subseteq published /\ published \in SUBSET Ticks /\ rows \in SUBSET Ticks
      /\ close \in Ticks /\ close \in Int /\ MetricsMaxAge \in Nat
      /\ cursor \in Int /\ cursor < close /\ close <= ChunkEnd /\ ChunkEnd \in Int
  <2>1. rows \subseteq published /\ published \in SUBSET Ticks
    BY ChunkIs DEF MetricsRows
  <2>2. close \in Int /\ 0 <= close /\ close <= Horizon
    BY ChunkIs, CalendarTypes
  <2> QED
    BY <2>1, <2>2, ChunkIs, CalendarTypes
<1>2. /\ value \in {Missing} \union Ticks
      /\ value # Missing => /\ value \in published
                            /\ close - MetricsMaxAge <= value /\ value <= close
  <2> HIDE DEF rows
  <2>1. value = AsOf(rows, close, MetricsMaxAge)
    BY DEF rows
  <2> QED
    BY <1>1, <2>1, AsOfIs
<1>3. ASSUME close - MetricsMaxAge > s,
             close < DayStart(request.end), close < DayStart(request.now)
      PROVE  value = LastPublished(close, MetricsMaxAge)
  <2>1. close % Month # 0
    <3>1. SUFFICES ASSUME close % Month = 0 PROVE FALSE
      OBVIOUS
    <3>2. MonthStart(close) = close
      BY <1>1, <3>1, MonthOf
    <3>3. request.start \in Int
      BY ChunkIs
    <3>4. Max({request.start, close}) = IF request.start >= close THEN request.start ELSE close
      <4> DEFINE b == request.start
      <4> HIDE DEF b
      <4>1. b \in Int
        BY <3>3 DEF b
      <4>2. Max({b, close}) = IF b >= close THEN b ELSE close
        BY <1>1, <4>1, PairExtremes
      <4> QED
        BY <4>2 DEF b
    <3>5. s = Max({request.start, close})
      BY <3>2
    <3> HIDE DEF s
    <3>6. s \in Int /\ s >= close
      BY <1>1, <3>3, <3>4, <3>5
    <3> QED
      BY <1>1, <1>3, <3>6, CalendarTypes
  <2>2. s = cursor
    BY <2>1, ChunkBegins
  <2>3. close < DayStart(ChunkEnd)
    <3>1. CASE ChunkEnd = request.end
      BY <1>3, <3>1
    <3>2. CASE ChunkEnd % Month = 0
      <4>1. DayStart(ChunkEnd) = ChunkEnd
        BY <1>1, <3>2, DayStarts
      <4>2. close # ChunkEnd
        BY <2>1, <3>2
      <4> QED
        BY <1>1, <4>1, <4>2
    <3> QED
      BY <3>1, <3>2, ChunkIs
  <2>4. ASSUME NEW t \in published, close - MetricsMaxAge <= t, t <= close PROVE t \in rows
    <3>1. t \in Int
      BY <1>1, CalendarTypes
    <3>2. /\ DayStart(cursor) \in Int /\ DayStart(cursor) <= cursor
          /\ DayStart(ChunkEnd) \in Int /\ DayStart(request.now) \in Int
      BY <1>1, ChunkIs, DayStarts
    <3>3. cursor < t
      BY <1>1, <1>3, <2>2, <2>4, <3>1
    <3>4. /\ DayStart(cursor) <= t /\ t < DayStart(ChunkEnd) /\ t < DayStart(request.now)
          /\ t <= ChunkEnd
      BY <1>1, <1>3, <2>3, <2>4, <3>1, <3>2, <3>3
    <3> QED
      BY <3>3, <3>4 DEF MetricsRows
  <2> HIDE DEF rows, s
  <2>5. \A t \in Ticks : close - MetricsMaxAge <= t /\ t <= close => (t \in rows <=> t \in published)
    BY <1>1, <2>4
  <2>6. AsOf(rows, close, MetricsMaxAge) = AsOf(published, close, MetricsMaxAge)
    BY <1>1, <2>5, SameAsOf
  <2> QED
    BY <2>6 DEF LastPublished, rows
<1> QED
  BY <1>2, <1>3

LEMMA RowIsExact ==
    ASSUME Building, NEW close \in KlineCloses(cursor, ChunkEnd), NEW row,
           row = MergeRow(close, FundingRows(cursor, ChunkEnd), MetricsRows(cursor, ChunkEnd))
    PROVE  row \in FeatureRows /\ FundingIsAsOf(row) /\ MetricsIsAsOf(row)
<1>1. close \in (cursor + 1)..ChunkEnd
  BY DEF KlineCloses
<1>2. close \in Ticks
  <2>1. close \in Int /\ 0 <= close /\ close <= Horizon
    BY <1>1, ChunkIs, CalendarTypes
  <2> QED
    BY <2>1, CalendarTypes
<1> DEFINE f == AsOf(FundingRows(cursor, ChunkEnd), close, FundingMaxAge)
           m == AsOf(MetricsRows(cursor, ChunkEnd), close, MetricsMaxAge)
<1>3. row = [close |-> close, funding |-> f, metrics |-> m, change |-> m = close]
  BY DEF MergeRow
<1>4. /\ f \in {Missing} \union Ticks
      /\ \/ f = LastPublished(close, FundingMaxAge)
         \/ /\ close % Month = 0 /\ close \in published
            /\ f = AsOf(published \ {close}, close, FundingMaxAge)
  BY <1>1, FundingOfRow
<1>5. /\ m \in {Missing} \union Ticks
      /\ m # Missing => /\ m \in published
                        /\ close - MetricsMaxAge <= m /\ m <= close
      /\ /\ close - MetricsMaxAge > Max({request.start, MonthStart(close)})
         /\ close < DayStart(request.end) /\ close < DayStart(request.now)
         => m = LastPublished(close, MetricsMaxAge)
  BY <1>1, MetricsOfRow
<1> HIDE DEF f, m
<1>6. row \in FeatureRows
  <2>1. (m = close) \in BOOLEAN
    OBVIOUS
  <2> DEFINE b == (m = close)
  <2> HIDE DEF b
  <2>2. row = [close |-> close, funding |-> f, metrics |-> m, change |-> b] /\ b \in BOOLEAN
    BY <1>3, <2>1 DEF b
  <2> QED
    BY <1>2, <1>4, <1>5, <2>2 DEF FeatureRows
<1>7. row.close = close /\ row.funding = f /\ row.metrics = m /\ (row.change => m = close)
  <2>1. row.close = close /\ row.funding = f /\ row.metrics = m
    BY ONLY <1>3
  <2>2. row.change = (m = close)
    BY ONLY <1>3, Zenon
  <2> QED
    BY <2>1, <2>2, Zenon
<1>8. FundingIsAsOf(row)
  BY <1>4, <1>7 DEF FundingIsAsOf, ClosesMonth
<1>9. MetricsIsAsOf(row)
  BY <1>5, <1>7 DEF MetricsIsAsOf, ChunkStart
<1> QED
  BY <1>6, <1>8, <1>9

LEMMA BuildBegins ==
    ASSUME BuildInit
    PROVE  BuildInv
<1>1. /\ request \in [start : Ticks, end : Ticks, now : Ticks] /\ request.start < request.end
      /\ cursor = request.start /\ fundingRequests = {} /\ merged = {}
      /\ unavailable \subseteq Ticks
  BY DEF BuildInit
<1>2. published \subseteq 0..request.now
  <2>1. published \in UNION {kSubset(n, 0..request.now) : n \in 0..MaxPublished}
    BY DEF BuildInit
  <2>2. PICK n \in 0..MaxPublished : published \in kSubset(n, 0..request.now)
    BY <2>1, Zenon
  <2> QED
    BY <2>2 DEF kSubset
<1>3. request.now \in Ticks /\ request.start \in Ticks /\ request.end \in Ticks
  BY <1>1
<1>4. published \subseteq Ticks /\ \A t \in published : t <= request.now
  BY <1>2, <1>3, CalendarTypes
<1>5. BuildTypeOK
  BY <1>1, <1>3, <1>4 DEF BuildTypeOK
<1>6. request.start <= cursor /\ cursor <= request.end
  BY <1>1, <1>3, CalendarTypes
<1> QED
  BY <1>1, <1>4, <1>5, <1>6 DEF BuildInv, MergedRowsAreAsOf

LEMMA BuildChunkKeeps ==
    ASSUME BuildInv, BuildChunk
    PROVE  BuildInv'
<1>1. /\ cursor < request.end /\ cursor' = ChunkEnd
      /\ merged' = merged \union
           {MergeRow(t, FundingRows(cursor, ChunkEnd), MetricsRows(cursor, ChunkEnd)) :
               t \in KlineCloses(cursor, ChunkEnd)}
      /\ fundingRequests' = fundingRequests \union
           {r \in FundingRanges(cursor, ChunkEnd) : r[1] < r[2]}
      /\ UNCHANGED <<request, published, unavailable>>
  BY DEF BuildChunk, ChunkEnd
<1>2. Building
  BY <1>1 DEF Building
<1>3. ASSUME NEW r \in merged', r \notin merged
      PROVE  r \in FeatureRows /\ FundingIsAsOf(r) /\ MetricsIsAsOf(r)
  <2>1. PICK t \in KlineCloses(cursor, ChunkEnd) :
          r = MergeRow(t, FundingRows(cursor, ChunkEnd), MetricsRows(cursor, ChunkEnd))
    BY <1>1, <1>3
  <2> QED
    BY <1>2, <2>1, RowIsExact
<1>4. \A r \in merged : r \in FeatureRows /\ FundingIsAsOf(r) /\ MetricsIsAsOf(r)
  BY DEF BuildInv, MergedRowsAreAsOf, BuildTypeOK
<1>5. ASSUME NEW r \in merged'
      PROVE  r \in FeatureRows /\ FundingIsAsOf(r)' /\ MetricsIsAsOf(r)'
  <2>1. r \in FeatureRows /\ FundingIsAsOf(r) /\ MetricsIsAsOf(r)
    BY <1>3, <1>4
  <2>2. FundingIsAsOf(r)' /\ MetricsIsAsOf(r)'
    BY <1>1, <2>1 DEF FundingIsAsOf, MetricsIsAsOf, LastPublished, ClosesMonth, ChunkStart
  <2> QED
    BY <2>1, <2>2
<1>6. \A r \in FundingRanges(cursor, ChunkEnd) :
        /\ r \in Int \X Int
        /\ ChunkEnd % Month = 0 => r[1] < ChunkEnd - FundingMaxAge
  BY <1>2, RangesAreNew
<1>7. BuildTypeOK'
  <2>1. fundingRequests' \subseteq Int \X Int
    BY <1>1, <1>6 DEF BuildInv, BuildTypeOK
  <2>2. merged' \subseteq FeatureRows
    BY <1>5
  <2>3. cursor' \in Ticks
    BY <1>1, <1>2, ChunkIs
  <2> QED
    BY <1>1, <2>1, <2>2, <2>3 DEF BuildInv, BuildTypeOK
<1>8. /\ request.start <= ChunkEnd /\ ChunkEnd <= request.end
      /\ ChunkEnd = request.end \/ ChunkEnd % Month = 0
  BY <1>2, ChunkIs
<1>9. ASSUME cursor' < request'.end, NEW r \in fundingRequests'
      PROVE  r[1] < cursor' - FundingMaxAge
  <2>1. ChunkEnd < request.end /\ ChunkEnd \in Int /\ cursor \in Int /\ cursor < ChunkEnd
    BY <1>1, <1>2, <1>9, ChunkIs
  <2>2. ChunkEnd % Month = 0
    BY <1>2, <2>1, ChunkIs
  <2>3. CASE r \in fundingRequests
    <3>1. r[1] < cursor - FundingMaxAge /\ r[1] \in Int
      BY <1>1, <2>3 DEF BuildInv, BuildTypeOK
    <3> QED
      BY <1>1, <2>1, <3>1, CalendarTypes
  <2>4. CASE r \in FundingRanges(cursor, ChunkEnd)
    BY <1>1, <1>6, <2>2, <2>4
  <2> QED
    BY <1>1, <2>3, <2>4
<1>10. MergedRowsAreAsOf'
  BY <1>5, <1>7 DEF MergedRowsAreAsOf
<1> QED
  BY <1>1, <1>7, <1>8, <1>9, <1>10 DEF BuildInv

(* However a range is cut into months, whichever funding archives are       *)
(* missing and wherever the current month begins, build_cache joins every   *)
(* row as of its close: no value looks ahead or is older than allowed, and  *)
(* the funding rate is the last one published, except at a close that ends  *)
(* a month.                                                                 *)
THEOREM BuiltRowsStayAsOf == BuildSpec => []MergedRowsAreAsOf
<1>1. BuildInit => BuildInv
  BY BuildBegins
<1>2. BuildInv /\ [BuildChunk]_buildVars => BuildInv'
  <2>1. ASSUME BuildInv, UNCHANGED buildVars PROVE BuildInv'
    BY <2>1 DEF buildVars, BuildInv, BuildTypeOK, MergedRowsAreAsOf, FundingIsAsOf,
                MetricsIsAsOf, LastPublished, ClosesMonth, ChunkStart
  <2> QED
    BY <2>1, BuildChunkKeeps
<1>3. BuildInv => MergedRowsAreAsOf
  BY DEF BuildInv
<1> QED
  BY <1>1, <1>2, <1>3, PTL DEF BuildSpec
=============================================================================
