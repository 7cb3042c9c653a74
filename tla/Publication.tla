---------------------------- MODULE Publication ----------------------------
(***************************************************************************)
(* write_bytes_atomic of scripts/chart_regime_balance_diagnostic.py: it    *)
(* replaces several report files in one recoverable transaction.  The new  *)
(* contents go to temporary files, every existing destination is renamed   *)
(* to a backup, the temporaries are renamed to the destinations, and the   *)
(* backups are deleted; an error rolls the destinations back.              *)
(*                                                                         *)
(* A content is the number of the run that wrote it.  Any file-system call *)
(* may fail, a signal may raise between a rename and the line that records *)
(* it, and the process may die between any two steps.                      *)
(***************************************************************************)
EXTENDS Naturals, FiniteSets

CONSTANT Files    \* how many files one publication writes (at least two)

ASSUME FilesAssumption == Files \in Nat \ {0, 1}

VARIABLES
    final,       \* the content of each destination, Absent when there is none
    kept,        \* backup files on disk, as pairs of destination and content
    tx,          \* the transaction under way
    committed    \* the contents of the last complete set of destinations

pubVars == <<final, kept, tx, committed>>

Paths == 1..Files
Absent == 0

-----------------------------------------------------------------------------

(***************************************************************************)
(* The local variables of write_bytes_atomic: `at' is the destination the  *)
(* current loop is at, the other sets have the names of the code.          *)
(* `unclean' is set when a rollback step failed or a rename was not        *)
(* recorded.                                                               *)
(***************************************************************************)
Idle == [pc |-> "idle", at |-> 1, content |-> Absent, snapshots |-> [i \in Paths |-> Absent],
         backups |-> {}, originally_absent |-> {}, published |-> {},
         succeeded |-> FALSE, unclean |-> FALSE]

Transactions ==
    [pc : {"idle", "temporaries", "backup", "publish", "rollback", "cleanup", "returned", "raised"},
     at : 1..(Files + 1), content : Nat, snapshots : [Paths -> Nat], backups : SUBSET Paths,
     originally_absent : SUBSET Paths, published : SUBSET Paths,
     succeeded : BOOLEAN, unclean : BOOLEAN]

PubTypeOK ==
    /\ final \in [Paths -> Nat]
    /\ kept \subseteq Paths \X Nat
    /\ tx \in Transactions
    /\ committed \in [Paths -> Nat]

PubInit ==
    /\ final \in {[i \in Paths |-> Absent], [i \in Paths |-> 1]}
    /\ kept = {}
    /\ tx = Idle
    /\ committed = final

Publishing == tx.pc \in {"temporaries", "backup", "publish", "rollback", "cleanup"}

Loop(t, pc) == [t EXCEPT !.pc = pc, !.at = 1]

(* write_bytes_atomic is called; the destinations are looked at first.      *)
Begin(content) ==
    /\ ~Publishing
    /\ tx' = [Idle EXCEPT !.pc = "temporaries", !.content = content, !.snapshots = final]
    /\ UNCHANGED <<final, kept, committed>>

(***************************************************************************)
(* The temporaries are written and the names of the backups chosen.  No    *)
(* destination is touched yet; a failure has nothing to roll back.         *)
(***************************************************************************)
WriteTemporaries ==
    /\ tx.pc = "temporaries"
    /\ tx' \in {Loop(tx, "backup"), Loop(tx, "rollback")}
    /\ UNCHANGED <<final, kept, committed>>

(***************************************************************************)
(* The next destination: it must still be what the snapshot saw; a file    *)
(* is renamed to its backup, a missing one is noted as originally absent.  *)
(* The check or the rename may raise, the directory may not be flushed, or *)
(* a signal may come before the backup is recorded.                        *)
(***************************************************************************)
BackUp ==
    /\ tx.pc = "backup"
    /\ tx.at <= Files
    /\ LET i == tx.at
           next == [tx EXCEPT !.at = i + 1]
           moved == [next EXCEPT !.backups = @ \union {i}]
       IN  \/ /\ tx' = Loop(tx, "rollback")
              /\ UNCHANGED <<final, kept>>
           \/ /\ final[i] = Absent
              /\ tx' = [next EXCEPT !.originally_absent = @ \union {i}]
              /\ UNCHANGED <<final, kept>>
           \/ /\ final[i] # Absent
              /\ final' = [final EXCEPT ![i] = Absent]
              /\ kept' = kept \union {<<i, final[i]>>}
              /\ tx' \in {moved, Loop(moved, "rollback"), [Loop(tx, "rollback") EXCEPT !.unclean = TRUE]}
    /\ UNCHANGED committed

(* Every destination is out of the way.                                     *)
BackedUp ==
    /\ tx.pc = "backup"
    /\ tx.at = Files + 1
    /\ tx' = Loop(tx, "publish")
    /\ UNCHANGED <<final, kept, committed>>

(***************************************************************************)
(* The next temporary becomes the destination.  After the last one the     *)
(* publication has succeeded.                                              *)
(***************************************************************************)
Publish ==
    /\ tx.pc = "publish"
    /\ LET i == tx.at
           done == [tx EXCEPT !.at = i + 1, !.published = @ \union {i}]
           next == IF i < Files THEN done ELSE [Loop(done, "cleanup") EXCEPT !.succeeded = TRUE]
       IN  \/ /\ tx' = Loop(tx, "rollback")
              /\ UNCHANGED <<final, committed>>
           \/ /\ final' = [final EXCEPT ![i] = tx.content]
              /\ tx' \in {next, Loop(tx, "rollback"), Loop(done, "rollback")}
              /\ committed' = IF tx'.succeeded THEN final' ELSE committed
    /\ UNCHANGED kept

(* The backup of a destination, if this transaction recorded one.           *)
BackupOf(i) == {b \in kept : b[1] = i /\ i \in tx.backups /\ b[2] = tx.snapshots[i]}

(* Variant: a published destination is removed and the backup discarded.    *)
RollBackDiscarding ==
    /\ tx.pc = "rollback"
    /\ tx.at <= Files
    /\ final' = [final EXCEPT ![tx.at] = IF tx.at \in tx.published THEN Absent ELSE @]
    /\ kept' = kept \ BackupOf(tx.at)
    /\ tx' = [tx EXCEPT !.at = @ + 1, !.backups = @ \ {tx.at}]
    /\ UNCHANGED committed

(***************************************************************************)
(* The next destination is restored: what was published is removed, the    *)
(* backup renamed back, or what was absent removed.  Each call may raise,  *)
(* which is noted, and the loop goes on with the next destination.         *)
(***************************************************************************)
RollBack ==
    /\ tx.pc = "rollback"
    /\ tx.at <= Files
    /\ LET i == tx.at
           next == [tx EXCEPT !.at = i + 1]
           failed == [next EXCEPT !.unclean = TRUE]
           gone == [final EXCEPT ![i] = Absent]
       IN  \/ /\ i \notin tx.published \union tx.backups \union tx.originally_absent
              /\ tx' = next
              /\ UNCHANGED <<final, kept>>
           \/ /\ i \in tx.published \union tx.backups \union tx.originally_absent
              /\ tx' = failed
              /\ final' \in {final, IF i \in tx.published THEN gone ELSE final}
              /\ UNCHANGED kept
           \/ /\ i \in tx.backups
              /\ final' = [final EXCEPT ![i] = tx.snapshots[i]]
              /\ kept' = kept \ BackupOf(i)
              /\ tx' \in {[next EXCEPT !.backups = @ \ {i}], [failed EXCEPT !.backups = @ \ {i}]}
           \/ /\ i \in (tx.published \union tx.originally_absent) \ tx.backups
              /\ final' = gone
              /\ tx' \in {next, failed}
              /\ UNCHANGED kept
    /\ UNCHANGED committed

RolledBack ==
    /\ tx.pc = "rollback"
    /\ tx.at = Files + 1
    /\ tx' = Loop(tx, "cleanup")
    /\ UNCHANGED <<final, kept, committed>>

(***************************************************************************)
(* The temporaries are removed and, after a success only, the backups;     *)
(* what cannot be removed stays and the call raises.                       *)
(***************************************************************************)
CleanUp ==
    /\ tx.pc = "cleanup"
    /\ LET backups == UNION {BackupOf(i) : i \in Paths}
       IN  \E left \in IF tx.succeeded THEN SUBSET backups ELSE {backups} :
             /\ kept' = (kept \ backups) \union left
             /\ tx' = [tx EXCEPT !.pc = IF tx.succeeded /\ left = {} THEN "returned" ELSE "raised"]
    /\ UNCHANGED <<final, committed>>

(* The process dies in the middle of a publication.                         *)
Dies ==
    /\ Publishing
    /\ tx' = Idle
    /\ UNCHANGED <<final, kept, committed>>

PublicationStep == WriteTemporaries \/ BackUp \/ BackedUp \/ Publish \/ RollBack \/ RolledBack \/ CleanUp

-----------------------------------------------------------------------------

(***************************************************************************)
(* "retaining recoverable backups": whatever fails and wherever the process*)
(* dies, the contents of the last complete publication are still on disk,  *)
(* each in its destination or in a backup.                                 *)
(***************************************************************************)
NothingIsLost ==
    \A i \in Paths : committed[i] \in {Absent, final[i]} \/ <<i, committed[i]>> \in kept

(***************************************************************************)
(* "in one recoverable transaction": a call that returns has put all the   *)
(* files of one run in place, and one that raises has put all of them in   *)
(* place or, unless the rollback failed too, none.                         *)
(***************************************************************************)
PublicationIsAtomic ==
    LET complete == \A i \in Paths : final[i] = tx.content
    IN  /\ tx.pc = "returned" => complete
        /\ tx.pc = "raised" => complete \/ tx.unclean \/ final = tx.snapshots

(* A publication that fails can be undone, and one that succeeds is whole.    *)
PublicationIsRecoverable == NothingIsLost /\ PublicationIsAtomic

=============================================================================
