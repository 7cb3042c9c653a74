----------------------- MODULE RegimeSelection_proofs -----------------------
(***************************************************************************)
(* The safety of concurrent selection runs, for any number of processes,   *)
(* any boundaries, artifacts and assignments, and then what the stored     *)
(* decisions say.                                                          *)
(*                                                                         *)
(* The properties are not inductive by themselves.  What makes them so is  *)
(* the optimistic lock: a run whose loaded version is still the current    *)
(* one has loaded the current state (LoadedStates), and what it proposes   *)
(* is what the selector computes from that state (ProposalsAreComputed).   *)
(***************************************************************************)
EXTENDS RegimeSelection, RegimeSelector_proofs

-----------------------------------------------------------------------------
(* Selection runs. *)

(* The state a run loaded is an earlier committed state, or the current one. *)
LoadedStates ==
    \A p \in Processes :
        pc[p] \in {"find", "commit"} =>
            /\ command[p] \in Commands
            /\ CommandValid(previous[p], command[p])
            /\ Version(previous[p]) =< Version(state_row)
            /\ Version(previous[p]) = Version(state_row) => previous[p] = state_row
            /\ previous[p] # None => StateValid(previous[p])

ProposalsAreComputed ==
    \A p \in Processes :
        pc[p] = "commit" =>
            /\ ExecuteError(previous[p], command[p]) = None
            /\ proposed[p] = Execute(previous[p], command[p])

(* Every stored decision is what the selector computes from the state its      *)
(* predecessor stored.                                                        *)
ComputedFrom(r, s) ==
    /\ CommandValid(s, r.command)
    /\ r = Execute(s, r.command)

DecisionsReplay ==
    \A r \in event_rows :
        /\ r.command.boundary = r.state.last_boundary
        /\ \/ r.expected = 0 /\ ComputedFrom(r, None)
           \/ \E q \in event_rows : Follows(r, q) /\ ComputedFrom(r, q.state)

ReturningIsCommitted ==
    \A p \in Processes :
        pc[p] = "return" =>
            /\ proposed[p] \in event_rows
            /\ proposed[p].command = command[p]

RunningHasNoOutcome ==
    \A p \in Processes : pc[p] # "idle" => outcome[p] = None

StoredStateValid == state_row # None => StateValid(state_row)

Inv ==
    /\ TypeOK
    /\ HistoryIsAChain
    /\ DecisionsReplay
    /\ StoredStateValid
    /\ LoadedStates
    /\ ProposalsAreComputed
    /\ ReturningIsCommitted
    /\ ReturnedIsCommitted
    /\ RunningHasNoOutcome
    /\ SelectorNeverInvalid

-----------------------------------------------------------------------------
LEMMA InitInv == Init => Inv
<1> SUFFICES ASSUME Init PROVE Inv
  OBVIOUS
<1> USE DEF Init
<1>1. TypeOK
  BY DEF TypeOK, Optional
<1>2. Version(state_row) = 0
  BY DEF Version
<1>3. HistoryIsAChain
  BY <1>2 DEF HistoryIsAChain
<1>4. DecisionsReplay /\ StoredStateValid /\ LoadedStates /\ ProposalsAreComputed /\ ReturningIsCommitted
  BY DEF DecisionsReplay, StoredStateValid, LoadedStates, ProposalsAreComputed,
         ReturningIsCommitted
<1>5. ReturnedIsCommitted /\ SelectorNeverInvalid /\ RunningHasNoOutcome
  BY OutcomeAssumption
  DEF ReturnedIsCommitted, SelectorNeverInvalid, RunningHasNoOutcome, Errors
<1> QED
  BY <1>1, <1>3, <1>4, <1>5 DEF Inv

(* execute never reports an invalid decision for a state a run loaded. *)
LEMMA ProposalErrors ==
    ASSUME TypeOK, LoadedStates, NEW p \in Processes, pc[p] = "find"
    PROVE  ExecuteError(previous[p], command[p]) \in {"equal_boundary", "assignment", None}
<1>1. /\ previous[p] \in Optional(States)
      /\ command[p] \in Commands
      /\ CommandValid(previous[p], command[p])
      /\ previous[p] # None => StateValid(previous[p])
  BY DEF TypeOK, LoadedStates
<1>2. /\ StateValid(Execute(previous[p], command[p]).state)
      /\ ResultValid(Execute(previous[p], command[p]))
  BY <1>1, ExecuteNeverInvalid
<1> QED
  BY <1>2 DEF ExecuteError

(* A step that leaves the database alone keeps what is said of it. *)
LEMMA SameDatabase ==
    ASSUME HistoryIsAChain, DecisionsReplay, StoredStateValid, UNCHANGED db
    PROVE  HistoryIsAChain' /\ DecisionsReplay' /\ StoredStateValid'
BY DEF db, HistoryIsAChain, DecisionsReplay, StoredStateValid

(* The run of p ends, with an error or with its process. *)
LEMMA FailInv ==
    ASSUME Inv, NEW p \in Processes, NEW error \in Errors \ {"invalid"},
           Fail(p, error), UNCHANGED db
    PROVE  Inv'
<1> USE DEF Inv, Fail, Forget, db
<1>1. TypeOK'
  BY DEF TypeOK, Optional
<1>2. HistoryIsAChain' /\ DecisionsReplay' /\ StoredStateValid'
  BY SameDatabase
<1>3. LoadedStates' /\ ProposalsAreComputed' /\ ReturningIsCommitted'
  BY DEF TypeOK, LoadedStates, ProposalsAreComputed, ReturningIsCommitted
<1>4. ReturnedIsCommitted' /\ RunningHasNoOutcome' /\ SelectorNeverInvalid'
  BY DEF TypeOK, Errors, ReturnedIsCommitted, RunningHasNoOutcome, SelectorNeverInvalid
<1> QED
  BY <1>1, <1>2, <1>3, <1>4

LEMMA CrashInv ==
    ASSUME Inv, NEW p \in Processes, Crash(p)
    PROVE  Inv'
<1> USE DEF Inv, Crash, Forget, db
<1>1. TypeOK'
  BY DEF TypeOK, Optional
<1>2. HistoryIsAChain' /\ DecisionsReplay' /\ StoredStateValid'
  BY SameDatabase
<1>3. LoadedStates' /\ ProposalsAreComputed' /\ ReturningIsCommitted'
  BY DEF TypeOK, LoadedStates, ProposalsAreComputed, ReturningIsCommitted
<1>4. ReturnedIsCommitted' /\ RunningHasNoOutcome' /\ SelectorNeverInvalid'
  BY OutcomeAssumption
  DEF TypeOK, ReturnedIsCommitted, RunningHasNoOutcome, SelectorNeverInvalid
<1> QED
  BY <1>1, <1>2, <1>3, <1>4

(* The run of p goes on to return a committed decision on its command. *)
LEMMA CarryReturnInv ==
    ASSUME Inv, NEW p \in Processes, pc[p] \in {"find", "commit"},
           NEW result \in event_rows, result.command = command[p],
           Carry(p, "return", result), UNCHANGED db
    PROVE  Inv'
<1> USE DEF Inv, Carry, db
<1>1. TypeOK'
  BY DEF TypeOK, Optional
<1>2. HistoryIsAChain' /\ DecisionsReplay' /\ StoredStateValid'
  BY SameDatabase
<1>3. LoadedStates' /\ ProposalsAreComputed' /\ ReturningIsCommitted'
  BY DEF TypeOK, LoadedStates, ProposalsAreComputed, ReturningIsCommitted
<1>4. ReturnedIsCommitted' /\ RunningHasNoOutcome' /\ SelectorNeverInvalid'
  BY OutcomeAssumption
  DEF TypeOK, ReturnedIsCommitted, RunningHasNoOutcome, SelectorNeverInvalid
<1> QED
  BY <1>1, <1>2, <1>3, <1>4

LEMMA LoadInv ==
    ASSUME Inv, NEW p \in Processes, NEW c \in Commands, Load(p, c)
    PROVE  Inv'
<1>1. CASE ~CommandValid(state_row, c)
  BY <1>1, FailInv DEF Load, Errors
<1>2. CASE CommandValid(state_row, c)
  <2> USE <1>2 DEF Inv, Load, db
  <2>1. TypeOK'
    BY DEF TypeOK, Optional
  <2>2. HistoryIsAChain' /\ DecisionsReplay' /\ StoredStateValid'
    BY SameDatabase
  <2>3. Version(state_row) =< Version(state_row)
    BY VersionType DEF TypeOK
  <2>4. LoadedStates'
    BY <2>3 DEF TypeOK, LoadedStates, StoredStateValid, Version
  <2>5. ProposalsAreComputed' /\ ReturningIsCommitted'
    BY DEF TypeOK, ProposalsAreComputed, ReturningIsCommitted
  <2>6. ReturnedIsCommitted' /\ RunningHasNoOutcome' /\ SelectorNeverInvalid'
    BY OutcomeAssumption
    DEF TypeOK, Errors, ReturnedIsCommitted, RunningHasNoOutcome, SelectorNeverInvalid
  <2> QED
    BY <2>1, <2>2, <2>4, <2>5, <2>6
<1> QED
  BY <1>1, <1>2

LEMMA ProposeInv ==
    ASSUME Inv, NEW p \in Processes, pc[p] = "find", Propose(p), UNCHANGED db
    PROVE  Inv'
<1> DEFINE error == ExecuteError(previous[p], command[p])
<1>1. error \in {"equal_boundary", "assignment", None}
  BY ProposalErrors DEF Inv
<1> HIDE DEF error
<1>2. CASE error # None
  BY <1>1, <1>2, FailInv DEF Propose, Errors, error
<1>3. CASE error = None
  <2> DEFINE result == Execute(previous[p], command[p])
  <2>1. Carry(p, "commit", result)
    BY <1>3 DEF Propose, error
  <2>2. result \in Results
    BY ExecuteType DEF Inv, TypeOK, LoadedStates
  <2> HIDE DEF result
  <2> USE <2>1, <2>2 DEF Inv, Carry, db
  <2>3. TypeOK'
    BY DEF TypeOK, Optional
  <2>4. HistoryIsAChain' /\ DecisionsReplay' /\ StoredStateValid'
    BY SameDatabase
  <2>5. LoadedStates' /\ ReturningIsCommitted'
    BY DEF TypeOK, LoadedStates, ReturningIsCommitted
  <2>6. ProposalsAreComputed'
    BY <1>3 DEF TypeOK, ProposalsAreComputed, result, error
  <2>7. ReturnedIsCommitted' /\ RunningHasNoOutcome' /\ SelectorNeverInvalid'
    BY OutcomeAssumption
    DEF TypeOK, ReturnedIsCommitted, RunningHasNoOutcome, SelectorNeverInvalid
  <2> QED
    BY <2>3, <2>4, <2>5, <2>6, <2>7
<1> QED
  BY <1>2, <1>3

LEMMA FindInv ==
    ASSUME Inv, NEW p \in Processes, Find(p)
    PROVE  Inv'
<1>1. CASE FindExisting(p)
  BY <1>1, FailInv, CarryReturnInv DEF Find, FindExisting, CommittedUnder, Errors
<1>2. CASE Propose(p)
  BY <1>2, ProposeInv DEF Find
<1> QED
  BY <1>1, <1>2 DEF Find

(* What a run in front of its commit knows about its proposal. *)
LEMMA ProposalFacts ==
    ASSUME Inv, NEW p \in Processes, pc[p] = "commit"
    PROVE  /\ command[p] \in Commands
           /\ CommandValid(previous[p], command[p])
           /\ ExecuteError(previous[p], command[p]) = None
           /\ proposed[p] = Execute(previous[p], command[p])
           /\ proposed[p] \in Results
           /\ proposed[p].command = command[p]
           /\ proposed[p].expected = Version(previous[p])
           /\ proposed[p].state \in States
           /\ proposed[p].state.version = Version(previous[p]) + 1
           /\ proposed[p].state.last_boundary = command[p].boundary
           /\ StateValid(proposed[p].state)
<1>1. /\ previous[p] \in Optional(States)
      /\ command[p] \in Commands
      /\ CommandValid(previous[p], command[p])
      /\ previous[p] # None => StateValid(previous[p])
      /\ ExecuteError(previous[p], command[p]) = None
      /\ proposed[p] = Execute(previous[p], command[p])
  BY DEF Inv, TypeOK, LoadedStates, ProposalsAreComputed
<1>2. StateValid(Execute(previous[p], command[p]).state)
  BY <1>1, ExecuteNeverInvalid
<1> QED
  BY <1>1, <1>2, ExecuteType

(* A commit that passes both checks was computed from the current state. *)
LEMMA CommitIsFresh ==
    ASSUME Inv, NEW p \in Processes, pc[p] = "commit", CommitNew(p)
    PROVE  /\ previous[p] = state_row
           /\ state_row # None =>
                state_row.last_boundary < proposed[p].state.last_boundary
           /\ proposed[p].state.version = Version(state_row) + 1
<1>1. Version(state_row) = proposed[p].expected
  BY OutcomeAssumption DEF CommitNew, CommitError, Errors
<1>2. ~(state_row # None /\ state_row.last_boundary >= proposed[p].state.last_boundary)
  BY OutcomeAssumption DEF CommitNew, CommitError, Errors
<1>3. proposed[p].state.last_boundary \in Nat
      /\ (state_row # None => state_row.last_boundary \in Nat)
  BY ProposalFacts, VersionType, BoundaryAssumption DEF Inv, TypeOK, States
<1>4. Version(previous[p]) = Version(state_row) => previous[p] = state_row
  BY DEF Inv, LoadedStates
<1> QED
  BY <1>1, <1>2, <1>3, <1>4, ProposalFacts

LEMMA CommitNewChain ==
    ASSUME Inv, NEW p \in Processes, pc[p] = "commit", CommitNew(p)
    PROVE  HistoryIsAChain'
<1> DEFINE n == proposed[p]
           v == Version(state_row)
<1>1. /\ n \in Results /\ n.state \in States /\ n.state.version = v + 1
      /\ event_rows' = event_rows \union {n}
      /\ state_row' = n.state
      /\ v \in Nat
  BY ProposalFacts, CommitIsFresh, VersionType DEF CommitNew, Inv, TypeOK
<1>2. Version(state_row') = v + 1
  BY <1>1, NoneAssumption DEF Version
<1>3. \A r \in event_rows : /\ r.state.version \in Nat /\ r.state.version =< v
                            /\ r.state.last_boundary \in Nat
  BY BoundaryAssumption DEF Inv, TypeOK, HistoryIsAChain, Results, States
<1>4. \A r \in event_rows : r.state.last_boundary < n.state.last_boundary
  <2> SUFFICES ASSUME NEW r \in event_rows
               PROVE  r.state.last_boundary < n.state.last_boundary
    OBVIOUS
  <2>1. state_row # None
    <3>1. r.state.version > 0
      BY DEF Inv, TypeOK, Results, States
    <3> QED
      BY <1>3, <3>1 DEF Version
  <2>2. PICK top \in event_rows : top.state = state_row
    BY <2>1 DEF Inv, HistoryIsAChain
  <2>3. top.state.version = v
    BY <2>1, <2>2 DEF Version
  <2>4. r.state.last_boundary =< top.state.last_boundary
    <3>1. CASE r.state.version = v
      <4>1. r = top
        BY <2>3, <3>1 DEF Inv, HistoryIsAChain
      <4> QED
        BY <1>3, <4>1
    <3>2. CASE r.state.version < v
      <4>1. r.state.last_boundary < top.state.last_boundary
        BY <2>3, <3>2 DEF Inv, HistoryIsAChain
      <4> QED
        BY <1>3, <4>1
    <3> QED
      BY <1>1, <1>3, <3>1, <3>2
  <2>5. top.state.last_boundary < n.state.last_boundary
    BY <2>1, <2>2, CommitIsFresh
  <2>6. n.state.last_boundary \in Nat
    BY <1>1, BoundaryAssumption DEF States
  <2> QED
    BY <1>3, <2>4, <2>5, <2>6
<1>5. \A w \in 1..v : \E r \in event_rows : r.state.version = w
  BY DEF Inv, HistoryIsAChain
<1>6. \A q, r \in event_rows :
        /\ q.state.version = r.state.version => q = r
        /\ q.state.version < r.state.version => q.state.last_boundary < r.state.last_boundary
  BY DEF Inv, HistoryIsAChain
<1> HIDE DEF n, v
<1>7. \A w \in 1..(v + 1) : \E r \in event_rows' : r.state.version = w
  BY <1>1, <1>5
<1>8. \A r \in event_rows' : r.state.version =< v + 1
  BY <1>1, <1>3
<1>9. \A q, r \in event_rows' :
        /\ q.state.version = r.state.version => q = r
        /\ q.state.version < r.state.version => q.state.last_boundary < r.state.last_boundary
  BY <1>1, <1>3, <1>4, <1>6
<1>10. \E r \in event_rows' : r.state = state_row'
  BY <1>1
<1> QED
  BY <1>2, <1>7, <1>8, <1>9, <1>10 DEF HistoryIsAChain

LEMMA CommitNewReplay ==
    ASSUME Inv, NEW p \in Processes, pc[p] = "commit", CommitNew(p)
    PROVE  DecisionsReplay'
<1> DEFINE n == proposed[p]
<1>1. /\ event_rows' = event_rows \union {n}
      /\ n.command.boundary = n.state.last_boundary
      /\ n.expected = Version(state_row)
      /\ ComputedFrom(n, state_row)
  BY ProposalFacts, CommitIsFresh DEF CommitNew, ComputedFrom
<1>2. state_row # None =>
        \E q \in event_rows : q.state = state_row /\ q.state.version = Version(state_row)
  BY DEF Inv, HistoryIsAChain, Version
<1>3. state_row = None => n.expected = 0
  BY <1>1 DEF Version
<1> HIDE DEF n
<1>4. \/ n.expected = 0 /\ ComputedFrom(n, None)
      \/ \E q \in event_rows : Follows(n, q) /\ ComputedFrom(n, q.state)
  BY <1>1, <1>2, <1>3 DEF Follows
<1> QED
  BY <1>1, <1>4 DEF Inv, DecisionsReplay

LEMMA CommitNewInv ==
    ASSUME Inv, NEW p \in Processes, pc[p] = "commit", CommitNew(p)
    PROVE  Inv'
<1> DEFINE n == proposed[p]
<1>1. /\ n \in Results /\ n.state \in States /\ n.command = command[p]
      /\ n.state.version = Version(state_row) + 1
      /\ StateValid(n.state)
  BY ProposalFacts, CommitIsFresh
<1>2. /\ event_rows' = event_rows \union {n}
      /\ state_row' = n.state
      /\ Carry(p, "return", n)
  BY DEF CommitNew
<1> HIDE DEF n
<1> USE <1>1, <1>2 DEF Carry
<1>3. TypeOK'
  BY DEF Inv, TypeOK, Optional
<1>4. HistoryIsAChain' /\ DecisionsReplay'
  BY CommitNewChain, CommitNewReplay
<1>5. StoredStateValid'
  BY DEF StoredStateValid
<1>6. LoadedStates'
  <2>1. Version(state_row') = Version(state_row) + 1 /\ Version(state_row) \in Nat
    BY NoneAssumption, VersionType DEF Inv, TypeOK, Version
  <2>2. \A q \in Processes : Version(previous[q]) \in Nat
    BY VersionType DEF Inv, TypeOK
  <2> SUFFICES ASSUME NEW q \in Processes, pc'[q] \in {"find", "commit"}
               PROVE  LoadedStates!(q)!2'
    BY DEF LoadedStates
  <2>3. q # p /\ pc'[q] = pc[q]
    BY DEF Inv, TypeOK
  <2>4. /\ command[q] \in Commands
        /\ CommandValid(previous[q], command[q])
        /\ Version(previous[q]) =< Version(state_row)
        /\ previous[q] # None => StateValid(previous[q])
    BY <2>3 DEF Inv, LoadedStates
  <2>5. Version(previous[q]) < Version(state_row')
    BY <2>1, <2>2, <2>4
  <2> QED
    BY <2>1, <2>2, <2>4, <2>5
<1>7. ProposalsAreComputed' /\ ReturningIsCommitted'
  BY DEF Inv, TypeOK, ProposalsAreComputed, ReturningIsCommitted
<1>8. ReturnedIsCommitted' /\ RunningHasNoOutcome' /\ SelectorNeverInvalid'
  BY OutcomeAssumption
  DEF Inv, TypeOK, ReturnedIsCommitted, RunningHasNoOutcome, SelectorNeverInvalid
<1> QED
  BY <1>3, <1>4, <1>5, <1>6, <1>7, <1>8 DEF Inv

LEMMA CommitInv ==
    ASSUME Inv, NEW p \in Processes, Commit(p)
    PROVE  Inv'
<1>1. CASE CommitPrior(p)
  BY <1>1, FailInv, CarryReturnInv, ProposalFacts
  DEF Commit, CommitPrior, CommittedUnder, Errors
<1>2. CASE CommitReject(p)
  BY <1>2, FailInv DEF CommitReject, CommitError, Errors
<1>3. CASE CommitNew(p)
  BY <1>3, CommitNewInv DEF Commit
<1> QED
  BY <1>1, <1>2, <1>3 DEF Commit

LEMMA ReturnInv ==
    ASSUME Inv, NEW p \in Processes, Return(p)
    PROVE  Inv'
<1> USE DEF Inv, Return, db
<1>1. TypeOK'
  BY DEF TypeOK, Optional
<1>2. HistoryIsAChain' /\ DecisionsReplay' /\ StoredStateValid'
  BY SameDatabase
<1>3. LoadedStates' /\ ProposalsAreComputed' /\ ReturningIsCommitted'
  BY DEF TypeOK, LoadedStates, ProposalsAreComputed, ReturningIsCommitted
<1>4. ReturnedIsCommitted' /\ RunningHasNoOutcome' /\ SelectorNeverInvalid'
  BY DEF TypeOK, ReturnedIsCommitted, ReturningIsCommitted, RunningHasNoOutcome,
         SelectorNeverInvalid
<1> QED
  BY <1>1, <1>2, <1>3, <1>4

LEMMA StutterInv ==
    ASSUME Inv, UNCHANGED vars
    PROVE  Inv'
BY SameDatabase
DEF Inv, vars, db, TypeOK, LoadedStates, ProposalsAreComputed, ReturningIsCommitted,
    ReturnedIsCommitted, RunningHasNoOutcome, SelectorNeverInvalid

LEMMA NextInv ==
    ASSUME Inv, [Next]_vars
    PROVE  Inv'
<1>1. ASSUME NEW p \in Processes, NEW c \in Commands, Load(p, c)
      PROVE  Inv'
  BY <1>1, LoadInv
<1>2. ASSUME NEW p \in Processes, Find(p)
      PROVE  Inv'
  BY <1>2, FindInv
<1>3. ASSUME NEW p \in Processes, Commit(p)
      PROVE  Inv'
  BY <1>3, CommitInv
<1>4. ASSUME NEW p \in Processes, Return(p)
      PROVE  Inv'
  BY <1>4, ReturnInv
<1>5. ASSUME NEW p \in Processes, DatabaseLocked(p)
      PROVE  Inv'
  BY <1>5, FailInv DEF DatabaseLocked, Errors
<1>6. ASSUME NEW p \in Processes, Crash(p)
      PROVE  Inv'
  BY <1>6, CrashInv
<1>7. CASE UNCHANGED vars
  BY <1>7, StutterInv
<1> QED
  BY <1>1, <1>2, <1>3, <1>4, <1>5, <1>6, <1>7 DEF Next, RunStep

(* The inductive invariant holds in every state of every execution. *)
THEOREM Invariance == Spec => []Inv
BY InitInv, NextInv, PTL DEF Spec

-----------------------------------------------------------------------------
(* The variables of run_selection and both tables keep their types. *)
THEOREM TypeCorrectness == Spec => []TypeOK
BY Invariance, PTL DEF Inv

(* The event table is a gapless chain of versions with increasing boundaries  *)
(* that ends in the state row, whatever concurrent or dying runs do.          *)
THEOREM ChainIsKept == Spec => []HistoryIsAChain
BY Invariance, PTL DEF Inv

(* Every result run_selection hands to a caller is committed, and answers the *)
(* caller's own command.                                                      *)
THEOREM ResultsAreCommitted == Spec => []ReturnedIsCommitted
BY Invariance, PTL DEF Inv

(* No run fails because the selector's own output is refused by a validator.  *)
THEOREM RunsNeverInvalid == Spec => []SelectorNeverInvalid
BY Invariance, PTL DEF Inv

(* Nothing is stored under the key of a run that is still up to date: every   *)
(* stored boundary is at most the last one, the run's boundary is after it.   *)
LEMMA FreshKeyIsNew ==
    ASSUME Inv, NEW p \in Processes, pc[p] = "commit", previous[p] = state_row
    PROVE  /\ state_row # None => state_row.last_boundary < command[p].boundary
           /\ CommittedUnder(command[p]) = {}
<1>1. /\ command[p] \in Commands
      /\ CommandValid(state_row, command[p])
      /\ ExecuteError(state_row, command[p]) = None
      /\ state_row \in Optional(States)
  BY ProposalFacts DEF Inv, TypeOK
<1>2. state_row # None => state_row.last_boundary < command[p].boundary
  <2>1. state_row # None => /\ state_row.last_boundary \in Nat
                            /\ command[p].boundary \in Nat
                            /\ command[p].boundary >= state_row.last_boundary
    BY <1>1, VersionType, BoundaryAssumption DEF States, Commands, CommandValid
  <2>2. state_row # None => command[p].boundary # state_row.last_boundary
    BY <1>1, OutcomeAssumption DEF ExecuteError, Errors
  <2> QED
    BY <2>1, <2>2
<1>3. ASSUME NEW r \in event_rows, r.command.boundary = command[p].boundary
      PROVE  FALSE
  <2>1. r.state.last_boundary = command[p].boundary
    BY <1>3 DEF Inv, DecisionsReplay
  <2>2. /\ r.state.version \in Nat /\ r.state.version > 0
        /\ r.state.version =< Version(state_row)
        /\ r.state.last_boundary \in Nat
    BY BoundaryAssumption DEF Inv, TypeOK, HistoryIsAChain, Results, States
  <2>3. state_row # None
    BY <2>2 DEF Version
  <2>4. PICK top \in event_rows : top.state = state_row
    BY <2>3 DEF Inv, HistoryIsAChain
  <2>5. top.state.version = Version(state_row) /\ Version(state_row) \in Nat
    BY <1>1, <2>3, <2>4, VersionType DEF Version
  <2>6. top.state.last_boundary < r.state.last_boundary
    BY <1>2, <2>1, <2>3, <2>4
  <2>7. CASE r.state.version = top.state.version
    <3>1. r = top
      BY <2>7 DEF Inv, HistoryIsAChain
    <3> QED
      BY <2>2, <2>6, <3>1
  <2>8. CASE r.state.version < top.state.version
    <3>1. r.state.last_boundary < top.state.last_boundary
      BY <2>8 DEF Inv, HistoryIsAChain
    <3>2. top.state.last_boundary \in Nat
      BY BoundaryAssumption DEF Inv, TypeOK, Results, States
    <3> QED
      BY <2>2, <2>6, <3>1, <3>2
  <2> QED
    BY <2>2, <2>5, <2>7, <2>8
<1> QED
  BY <1>2, <1>3 DEF CommittedUnder

LEMMA OtherRunsUntouched ==
    ASSUME Inv, Next, NEW p \in Processes, pc[p] = "commit", outcome'[p] # outcome[p]
    PROVE  CommitPrior(p) \/ CommitReject(p) \/ outcome'[p] = "locked"
<1>1. PICK q \in Processes :
        \/ \E c \in Commands : Load(q, c)
        \/ RunStep(q) \/ DatabaseLocked(q) \/ Crash(q)
  BY DEF Next
<1>2. q = p
  BY <1>1
  DEF Inv, TypeOK, Load, RunStep, Find, FindExisting, Propose, Carry, Commit, CommitPrior,
      CommitReject, CommitNew, Return, DatabaseLocked, Crash, Fail, Forget
<1>3. Commit(p) \/ DatabaseLocked(p)
  BY <1>1, <1>2 DEF Load, RunStep, Find, Return, Crash
<1> QED
  BY <1>3 DEF Inv, TypeOK, Commit, CommitNew, Carry, DatabaseLocked, Fail

(* _commit rejects a proposal only if the version moved since the run's load. *)
THEOREM RejectionMeansOvertaken == Spec => RejectedOnlyWhenOvertaken
<1> DEFINE A == \A p \in Processes :
        (pc[p] = "commit" /\ outcome'[p] \in {"conflict", "boundary", "stale"})
        => Version(state_row) > Version(previous[p])
<1>1. ASSUME Inv, Next
      PROVE  A
  <2> SUFFICES ASSUME NEW p \in Processes, pc[p] = "commit",
                      outcome'[p] \in {"conflict", "boundary", "stale"}
               PROVE  Version(state_row) > Version(previous[p])
    OBVIOUS
  <2> USE <1>1
  <2>1. /\ Version(previous[p]) \in Nat /\ Version(state_row) \in Nat
        /\ Version(previous[p]) =< Version(state_row)
        /\ Version(previous[p]) = Version(state_row) => previous[p] = state_row
        /\ outcome[p] = None
    BY VersionType DEF Inv, TypeOK, LoadedStates, RunningHasNoOutcome
  <2> SUFFICES ASSUME previous[p] = state_row
               PROVE  FALSE
    BY <2>1
  <2>2. CommitPrior(p) \/ CommitReject(p)
    BY <2>1, OtherRunsUntouched, OutcomeAssumption DEF Errors
  <2>3. /\ proposed[p].command = command[p]
        /\ proposed[p].expected = Version(state_row)
        /\ proposed[p].state.last_boundary = command[p].boundary
        /\ command[p] \in Commands
    BY ProposalFacts
  <2>4. ~CommitPrior(p)
    BY <2>3, FreshKeyIsNew DEF CommitPrior
  <2>5. state_row # None => ~(state_row.last_boundary >= command[p].boundary)
    <3>1. state_row # None =>
            state_row.last_boundary \in Nat /\ command[p].boundary \in Nat
      BY <2>3, VersionType, BoundaryAssumption DEF Inv, TypeOK, States, Commands
    <3> QED
      BY <3>1, FreshKeyIsNew
  <2>6. CommitError(proposed[p]) = None
    BY <2>3, <2>5 DEF CommitError
  <2> QED
    BY <2>2, <2>4, <2>6 DEF CommitReject
<1>2. ASSUME Inv, [Next]_vars
      PROVE  [A]_vars
  BY <1>1, <1>2
<1> QED
  BY <1>2, Invariance, PTL DEF Spec, RejectedOnlyWhenOvertaken

-----------------------------------------------------------------------------
LEMMA InitRefines == Init => Sequential!Init
BY DEF Init, Sequential!Init

(* A commit of a new decision is a step of the sequential specification; every *)
(* other step leaves the tables alone.                                         *)
LEMMA NextRefines ==
    ASSUME Inv, [Next]_vars
    PROVE  [Sequential!Next]_(Sequential!vars)
<1>1. ASSUME NEW p \in Processes, pc[p] = "commit", CommitNew(p)
      PROVE  Sequential!Next
  <2>1. /\ command[p] \in Commands
        /\ CommandValid(state_row, command[p])
        /\ ExecuteError(state_row, command[p]) = None
        /\ proposed[p] = Execute(state_row, command[p])
    BY <1>1, ProposalFacts, CommitIsFresh
  <2>2. Sequential!Decide(command[p])
    BY <1>1, <2>1 DEF CommitNew, Accepts, Sequential!Decide
  <2> QED
    BY <2>1, <2>2 DEF Sequential!Next
<1>2. ASSUME UNCHANGED db
      PROVE  UNCHANGED Sequential!vars
  BY <1>2 DEF db, Sequential!vars
<1>3. \/ UNCHANGED db
      \/ \E p \in Processes : pc[p] = "commit" /\ CommitNew(p)
  BY DEF Next, vars, db, Load, RunStep, Find, Commit, CommitPrior, CommitReject, Return,
         DatabaseLocked, Crash
<1> QED
  BY <1>1, <1>2, <1>3

(* Concurrent selection runs implement the sequential specification: whatever *)
(* the interleaving, the committed decisions are those of one run at a time.  *)
THEOREM Refinement == Spec => RunsAreSequential
BY InitRefines, NextRefines, Invariance, PTL
DEF Spec, RunsAreSequential, Sequential!Spec

-----------------------------------------------------------------------------
(* What the stored decisions say: the two-observation rule, the cash rule,    *)
(* when entries are enabled, and what the events report.  Each rule speaks of *)
(* two decisions in a row, but a decision is computed from the state of the   *)
(* one before it only.  The argument is therefore that the state remembers    *)
(* enough of the command behind it: a pending candidate is that command's     *)
(* cluster and artifact, a low count is its low confidence (StateRemembers).  *)

(* What the state of a decision remembers of the command it answered. *)
StateRemembers(r) ==
    LET s == r.state
        c == r.command
    IN  /\ s.pending_count = 1 =>
            /\ IsHighConfidence(c)
            /\ s.pending_cluster = c.assignment.fingerprint
            /\ s.pending_artifact = None => c.artifact = s.artifact
            /\ s.pending_artifact # None => c.artifact = s.pending_artifact
        /\ s.low_count > 0 <=> ~IsHighConfidence(c)
        /\ s.entries => IsHighConfidence(c) /\ c.artifact = s.artifact

(* An active strategy is the one its artifact maps the current cluster to. *)
ActiveIsMapped(s) ==
    s.active # None => s.active = Snapshots[s.artifact].mapping[s.cluster]

(* What holds of every state the table holds. *)
StoredStatesOK ==
    \A r \in event_rows : StateValid(r.state) /\ ActiveIsMapped(r.state)

-----------------------------------------------------------------------------
(* The branches of execute from a previous state *)

Lowers(s, c) ==
    /\ ~IsHighConfidence(c)
    /\ Transition(s, c) = LowConfidenceTransition(s, c)

Reaffirms(s, c) ==
    /\ IsHighConfidence(c)
    /\ c.artifact = s.artifact /\ c.assignment.fingerprint = s.cluster
    /\ Transition(s, c) = Decision(MakeSelected(s, c),
                                   OrClassification(StrategyEvents(s.active, Mapped(c))))

Switches(s, c) ==
    /\ IsHighConfidence(c)
    /\ c.artifact = s.artifact /\ c.assignment.fingerprint # s.cluster
    /\ s.pending_count = 1 /\ s.pending_artifact = None
    /\ s.pending_cluster = c.assignment.fingerprint
    /\ Transition(s, c) = Decision(MakeSelected(s, c),
                             <<"CLUSTER_TRANSITION">> \o StrategyEvents(s.active, Mapped(c)))

KeptPending(s, c) == MakePending(s, c, None, s.entries)
SuspendedPending(s, c) == MakePending(s, c, c.artifact, FALSE)

Awaits(s, c) ==
    /\ IsHighConfidence(c)
    /\ c.artifact = s.artifact
    /\ Transition(s, c) = Decision(KeptPending(s, c), <<"CLASSIFICATION">>)

ClusterEvents(s, c) ==
    IF s.cluster # c.assignment.fingerprint THEN <<"CLUSTER_TRANSITION">> ELSE <<>>

Replaces(s, c) ==
    /\ IsHighConfidence(c)
    /\ c.artifact # s.artifact
    /\ s.pending_count = 1 /\ s.pending_artifact = c.artifact
    /\ s.pending_cluster = c.assignment.fingerprint
    /\ Transition(s, c) = Decision(MakeSelected(s, c),
                             <<"ARTIFACT_REPLACED">> \o ClusterEvents(s, c)
                                \o StrategyEvents(s.active, Mapped(c)))

AwaitsArtifact(s, c) ==
    /\ IsHighConfidence(c)
    /\ c.artifact # s.artifact
    /\ Transition(s, c) = Decision(SuspendedPending(s, c), SuspendEvents(s))

LEMMA Branches ==
    ASSUME NEW s \in States, NEW c \in Commands
    PROVE  \/ Lowers(s, c) \/ Reaffirms(s, c) \/ Switches(s, c)
           \/ Awaits(s, c) \/ Replaces(s, c) \/ AwaitsArtifact(s, c)
<1>1. s # None
  BY NoneAssumption
<1>2. CASE c.artifact # s.artifact
  <2>1. Transition(s, c) = ReplacementTransition(s, c)
    BY <1>1, <1>2 DEF Transition
  <2> QED
    BY <1>2, <2>1
    DEF ReplacementTransition, Lowers, Replaces, AwaitsArtifact, SuspendedPending,
        ClusterEvents
<1>3. CASE c.artifact = s.artifact
  BY <1>1, <1>3 
  DEF Transition, ConfidentTransition, Lowers, Reaffirms, Switches, Awaits, KeptPending
<1> QED
  BY <1>2, <1>3

(* The fields of the kinds of state a branch makes. *)
LEMMA SelectedFields ==
    ASSUME NEW s, NEW c, NEW m, m = MakeSelected(s, c)
    PROVE  /\ m.artifact = c.artifact /\ m.cluster = c.assignment.fingerprint
           /\ m.active = Mapped(c) /\ (m.entries <=> Mapped(c) # None)
           /\ m.pending_count = 0 /\ m.pending_artifact = None /\ m.low_count = 0
BY DEF MakeSelected, MakeState

LEMMA AwaitsFields ==
    ASSUME NEW s, NEW c, Awaits(s, c), NEW m, m = Transition(s, c).state
    PROVE  /\ m.artifact = s.artifact /\ m.cluster = s.cluster /\ m.active = s.active
           /\ m.pending_count = 1 /\ m.pending_cluster = c.assignment.fingerprint
           /\ m.pending_artifact = None /\ m.low_count = 0
           /\ m.entries <=> s.entries
           /\ IsHighConfidence(c) /\ c.artifact = s.artifact
<1>1. m = KeptPending(s, c) /\ IsHighConfidence(c) /\ c.artifact = s.artifact
  BY DEF Awaits, Decision
<1> QED
  BY <1>1 DEF KeptPending, MakePending, MakeState

LEMMA AwaitsArtifactFields ==
    ASSUME NEW s, NEW c, AwaitsArtifact(s, c), NEW m, m = Transition(s, c).state
    PROVE  /\ m.artifact = s.artifact /\ m.cluster = s.cluster /\ m.active = s.active
           /\ m.pending_count = 1 /\ m.pending_cluster = c.assignment.fingerprint
           /\ m.pending_artifact = c.artifact /\ m.low_count = 0
           /\ ~m.entries
           /\ IsHighConfidence(c)
<1>1. m = SuspendedPending(s, c) /\ IsHighConfidence(c)
  BY DEF AwaitsArtifact, Decision
<1> QED
  BY <1>1 DEF SuspendedPending, MakePending, MakeState

LEMMA LowFields ==
    ASSUME NEW s \in States, NEW c, NEW d, d = LowConfidenceTransition(s, c),
           NEW m, m = d.state
    PROVE  /\ m.artifact = s.artifact /\ m.cluster = s.cluster
           /\ ~m.entries /\ m.pending_count = 0 /\ m.pending_artifact = None
           /\ m.low_count \in {1, 2}
           /\ s.low_count = 0 <=> m.low_count = 1
           /\ m.low_count = 1 => m.active = s.active /\ d.events = SuspendEvents(s)
           /\ m.low_count = 2 =>
                /\ m.active = None
                /\ d.events = IF s.active # None THEN <<"CASH_TRANSITION">>
                              ELSE <<"CLASSIFICATION">>
<1> DEFINE n == IF s.low_count + 1 < 2 THEN s.low_count + 1 ELSE 2
           a == IF n >= 2 THEN None ELSE s.active
           e == IF ~(n >= 2) THEN SuspendEvents(s)
                ELSE IF s.active # None THEN <<"CASH_TRANSITION">> ELSE <<"CLASSIFICATION">>
           b == MakeState(s, c, s.artifact, s.cluster, a, FALSE)
           k == [b EXCEPT !.low_count = n]
<1>1. s.low_count \in Nat
  BY DEF States
<1>2. n \in {1, 2} /\ (s.low_count = 0 <=> n = 1)
  BY <1>1
<1>3. LowConfidenceTransition(s, c) = Decision(k, e)
  BY DEF LowConfidenceTransition
<1> HIDE DEF n
<1>4. /\ k.artifact = s.artifact /\ k.cluster = s.cluster /\ k.active = a
      /\ ~k.entries /\ k.pending_count = 0 /\ k.pending_artifact = None
      /\ k.low_count = n
  BY DEF MakeState
<1>5. /\ n = 1 => a = s.active /\ e = SuspendEvents(s)
      /\ n = 2 => a = None /\ e = IF s.active # None THEN <<"CASH_TRANSITION">>
                                  ELSE <<"CLASSIFICATION">>
  OBVIOUS
<1> HIDE DEF k, a, e
<1>6. Decision(k, e).state = k /\ Decision(k, e).events = e
  BY DEF Decision
<1> QED
  BY <1>2, <1>3, <1>4, <1>5, <1>6

-----------------------------------------------------------------------------
(* The state remembers *)

(* Whatever branch computed it, a decision remembers its command. *)
LEMMA ComputedRemembers ==
    ASSUME NEW s \in States, StateValid(s), NEW r \in Results,
           r.command \in Commands, r = Execute(s, r.command)
    PROVE  StateRemembers(r)
<1> DEFINE c == r.command
           d == Transition(s, c)
<1>1. r.state = d.state
  BY DEF Execute
<1>2. CASE Lowers(s, c)
  <2>1. d.state = LowConfidenceTransition(s, c).state /\ ~IsHighConfidence(c)
    BY <1>2 DEF Lowers
  <2>2. /\ ~r.state.entries /\ r.state.pending_count = 0
        /\ r.state.low_count \in {1, 2}
    BY <1>1, <2>1, LowFields
  <2> QED
    BY <2>1, <2>2 DEF StateRemembers
<1>3. ASSUME IsHighConfidence(c), d.state = MakeSelected(s, c)
      PROVE  StateRemembers(r)
  BY <1>1, <1>3, SelectedFields DEF StateRemembers
<1>4. CASE Awaits(s, c)
  BY <1>1, <1>4, AwaitsFields DEF StateRemembers
<1>5. CASE AwaitsArtifact(s, c)
  <2>1. c.artifact # None
    BY NoneAssumption DEF Commands
  <2> QED
    BY <1>1, <1>5, <2>1, AwaitsArtifactFields DEF StateRemembers
<1> QED
  BY <1>2, <1>3, <1>4, <1>5, Branches DEF Reaffirms, Switches, Replaces, Decision

LEMMA InitialRemembers ==
    ASSUME NEW r \in Results, r = Execute(None, r.command)
    PROVE  StateRemembers(r)
<1> DEFINE c == r.command
           low == [MakeState(None, c, c.artifact, None, None, FALSE) EXCEPT !.low_count = 1]
<1>1. r.state = InitialTransition(c).state
  BY DEF Execute, Transition
<1>2. CASE IsHighConfidence(c)
  <2>1. r.state = MakeSelected(None, c)
    BY <1>1, <1>2 DEF InitialTransition, Decision
  <2> QED
    BY <1>2, <2>1, SelectedFields DEF StateRemembers
<1>3. CASE ~IsHighConfidence(c)
  <2>1. r.state = low
    BY <1>1, <1>3 DEF InitialTransition, Decision
  <2>2. r.state.low_count = 1 /\ ~r.state.entries /\ r.state.pending_count = 0
    BY <2>1 DEF MakeState
  <2> QED
    BY <1>3, <2>2 DEF StateRemembers
<1> QED
  BY <1>2, <1>3

(* A decision from a state that maps its active strategy maps its own. *)
LEMMA ComputedIsMapped ==
    ASSUME NEW s \in Optional(States), s # None => ActiveIsMapped(s), NEW c \in Commands
    PROVE  ActiveIsMapped(Execute(s, c).state)
<1> DEFINE m == Execute(s, c).state
<1>1. m = Transition(s, c).state
  BY DEF Execute
<1>2. ActiveIsMapped(MakeSelected(s, c))
  BY SelectedFields DEF ActiveIsMapped, Mapped
<1>3. CASE s = None
  <2> DEFINE low == [MakeState(None, c, c.artifact, None, None, FALSE) EXCEPT !.low_count = 1]
  <2>1. low.active = None
    BY DEF MakeState
  <2>2. m = MakeSelected(s, c) \/ m = low
    BY <1>1, <1>3 DEF Transition, InitialTransition, Decision
  <2> QED
    BY <1>2, <2>1, <2>2 DEF ActiveIsMapped
<1>4. CASE s # None
  <2>1. s \in States /\ ActiveIsMapped(s)
    BY <1>4 DEF Optional
  <2>2. ASSUME Lowers(s, c) PROVE ActiveIsMapped(m)
    <3>1. m = LowConfidenceTransition(s, c).state
      BY <1>1, <2>2 DEF Lowers
    <3>2. m.artifact = s.artifact /\ m.cluster = s.cluster /\ m.active \in {None, s.active}
      BY <2>1, <3>1, LowFields
    <3> QED
      BY <2>1, <3>2 DEF ActiveIsMapped
  <2>3. ASSUME Awaits(s, c) \/ AwaitsArtifact(s, c) PROVE ActiveIsMapped(m)
    <3>1. m.artifact = s.artifact /\ m.cluster = s.cluster /\ m.active = s.active
      BY <1>1, <2>3, AwaitsFields, AwaitsArtifactFields
    <3> QED
      BY <2>1, <3>1 DEF ActiveIsMapped
  <2>4. ASSUME Reaffirms(s, c) \/ Switches(s, c) \/ Replaces(s, c) PROVE ActiveIsMapped(m)
    BY <1>1, <1>2, <2>4 DEF Reaffirms, Switches, Replaces, Decision
  <2> HIDE DEF m
  <2>5. ActiveIsMapped(m)
    BY <2>1, <2>2, <2>3, <2>4, Branches
  <2> QED
    BY <2>5 DEF m
<1> QED
  BY <1>3, <1>4

-----------------------------------------------------------------------------
(* What the sequences of events emit *)

Emitted(events, e) == \E i \in DOMAIN events : events[i] = e

LEMMA EmittedOne ==
    /\ \A e : ~Emitted(<<>>, e)
    /\ \A a, e : Emitted(<<a>>, e) <=> e = a
BY DEF Emitted

LEMMA EmittedConcat ==
    ASSUME NEW u \in Seq(SelectionEventTypes), NEW v \in Seq(SelectionEventTypes), NEW e
    PROVE  Emitted(u \o v, e) <=> Emitted(u, e) \/ Emitted(v, e)
<1> DEFINE w == u \o v
<1>1. /\ Len(w) = Len(u) + Len(v)
      /\ \A i \in 1..(Len(u) + Len(v)) :
            w[i] = IF i <= Len(u) THEN u[i] ELSE v[i - Len(u)]
  BY ConcatProperties
<1>2. w \in Seq(SelectionEventTypes) /\ Len(u) \in Nat /\ Len(v) \in Nat
  BY EventSequences
<1>3. DOMAIN w = 1..(Len(u) + Len(v)) /\ DOMAIN u = 1..Len(u) /\ DOMAIN v = 1..Len(v)
  BY <1>1, <1>2
<1> HIDE DEF w
<1>4. Emitted(w, e) => Emitted(u, e) \/ Emitted(v, e)
  <2> SUFFICES ASSUME NEW i \in DOMAIN w, w[i] = e
               PROVE  Emitted(u, e) \/ Emitted(v, e)
    BY DEF Emitted
  <2>1. CASE i <= Len(u)
    BY <1>1, <1>2, <1>3, <2>1 DEF Emitted
  <2>2. CASE ~(i <= Len(u))
    <3>1. i - Len(u) \in 1..Len(v) /\ w[i] = v[i - Len(u)]
      BY <1>1, <1>2, <1>3, <2>2
    <3> QED
      BY <1>3, <3>1 DEF Emitted
  <2> QED
    BY <2>1, <2>2
<1>5. Emitted(u, e) => Emitted(w, e)
  <2> SUFFICES ASSUME NEW i \in DOMAIN u, u[i] = e
               PROVE  Emitted(w, e)
    BY DEF Emitted
  <2>1. i \in 1..(Len(u) + Len(v)) /\ w[i] = u[i]
    BY <1>1, <1>2, <1>3
  <2> QED
    BY <1>3, <2>1 DEF Emitted
<1>6. Emitted(v, e) => Emitted(w, e)
  <2> SUFFICES ASSUME NEW i \in DOMAIN v, v[i] = e
               PROVE  Emitted(w, e)
    BY DEF Emitted
  <2>1. i + Len(u) \in 1..(Len(u) + Len(v)) /\ ~(i + Len(u) <= Len(u))
        /\ (i + Len(u)) - Len(u) = i
    BY <1>2, <1>3
  <2>2. w[i + Len(u)] = v[i]
    BY <1>1, <2>1
  <2> QED
    BY <1>3, <2>1, <2>2 DEF Emitted
<1> QED
  BY <1>4, <1>5, <1>6 DEF w

LEMMA EmittedStrategy ==
    ASSUME NEW old, NEW new, NEW e
    PROVE  Emitted(StrategyEvents(old, new), e) <=>
            \/ e = "STRATEGY_TRANSITION" /\ old # new /\ new # None
            \/ e = "CASH_TRANSITION" /\ old # new /\ new = None
<1>1. /\ old = new => StrategyEvents(old, new) = <<>>
      /\ old # new /\ new = None => StrategyEvents(old, new) = <<"CASH_TRANSITION">>
      /\ old # new /\ new # None => StrategyEvents(old, new) = <<"STRATEGY_TRANSITION">>
  BY DEF StrategyEvents
<1> QED
  BY <1>1, EmittedOne

(* The events each branch of execute stores. *)
LEMMA EmittedReaffirmed ==
    ASSUME NEW old, NEW new, NEW e, e # "CLASSIFICATION"
    PROVE  Emitted(OrClassification(StrategyEvents(old, new)), e)
            <=> Emitted(StrategyEvents(old, new), e)
BY StrategyEventsValues, EmittedOne DEF OrClassification

LEMMA EmittedSwitch ==
    ASSUME NEW old, NEW new, NEW e
    PROVE  Emitted(<<"CLUSTER_TRANSITION">> \o StrategyEvents(old, new), e) <=>
            e = "CLUSTER_TRANSITION" \/ Emitted(StrategyEvents(old, new), e)
<1>1. <<"CLUSTER_TRANSITION">> \in Seq(SelectionEventTypes)
  BY DEF SelectionEventTypes
<1> QED
  BY <1>1, StrategyEventsType, EmittedConcat, EmittedOne

LEMMA EmittedReplacement ==
    ASSUME NEW s, NEW c, NEW old, NEW new, NEW e
    PROVE  Emitted(<<"ARTIFACT_REPLACED">> \o ClusterEvents(s, c)
                    \o StrategyEvents(old, new), e) <=>
            \/ e = "ARTIFACT_REPLACED"
            \/ e = "CLUSTER_TRANSITION" /\ s.cluster # c.assignment.fingerprint
            \/ Emitted(StrategyEvents(old, new), e)
<1> DEFINE A == <<"ARTIFACT_REPLACED">>
           C == ClusterEvents(s, c)
<1>1. A \in Seq(SelectionEventTypes) /\ C \in Seq(SelectionEventTypes)
  BY EventSequences DEF SelectionEventTypes, ClusterEvents
<1>2. A \o C \in Seq(SelectionEventTypes)
  BY <1>1, EventSequences
<1>3. Emitted(C, e) <=> e = "CLUSTER_TRANSITION" /\ s.cluster # c.assignment.fingerprint
  BY EmittedOne DEF ClusterEvents
<1>4. Emitted(A, e) <=> e = "ARTIFACT_REPLACED"
  BY EmittedOne
<1> HIDE DEF A, C
<1>5. Emitted(A \o C, e) <=> Emitted(A, e) \/ Emitted(C, e)
  BY <1>1, EmittedConcat
<1>6. Emitted((A \o C) \o StrategyEvents(old, new), e)
        <=> Emitted(A \o C, e) \/ Emitted(StrategyEvents(old, new), e)
  BY <1>2, StrategyEventsType, EmittedConcat
<1> QED
  BY <1>3, <1>4, <1>5, <1>6 DEF A, C

-----------------------------------------------------------------------------
(* The rules, for one decision computed from the state of the one before it *)

Switched(s, r) == r.state.cluster # s.cluster \/ r.state.artifact # s.artifact

LEMMA SwitchIsConfirmed ==
    ASSUME NEW q \in Results, StateRemembers(q), NEW r \in Results,
           r = Execute(q.state, r.command), Switched(q.state, r)
    PROVE  /\ q.command.artifact = r.command.artifact
           /\ q.command.assignment.fingerprint = r.command.assignment.fingerprint
           /\ IsHighConfidence(q.command) /\ IsHighConfidence(r.command)
           /\ r.state.cluster = r.command.assignment.fingerprint
           /\ r.state.artifact = r.command.artifact
<1> DEFINE s == q.state
           c == r.command
<1>1. s \in States /\ c \in Commands /\ r.state = Transition(s, c).state
  BY DEF Results, Execute
<1>2. ~Lowers(s, c)
  BY <1>1, LowFields DEF Lowers, Switched
<1>3. ~Awaits(s, c) /\ ~AwaitsArtifact(s, c)
  BY <1>1, AwaitsFields, AwaitsArtifactFields DEF Switched
<1>4. ASSUME IsHighConfidence(c), r.state = MakeSelected(s, c)
      PROVE  r.state.cluster = c.assignment.fingerprint /\ r.state.artifact = c.artifact
  BY <1>4, SelectedFields
<1>5. ~Reaffirms(s, c)
  BY <1>1, <1>4 DEF Reaffirms, Decision, Switched
<1>6. CASE Switches(s, c)
  BY <1>1, <1>4, <1>6 DEF Switches, Decision, StateRemembers
<1>7. CASE Replaces(s, c)
  <2>1. c.artifact # None
    BY <1>1, NoneAssumption DEF Commands
  <2> QED
    BY <1>1, <1>4, <1>7, <2>1 DEF Replaces, Decision, StateRemembers
<1> QED
  BY <1>1, <1>2, <1>3, <1>5, <1>6, <1>7, Branches

(* Cash is reached by two low observations or by a confirmed cash mapping. *)
LEMMA CashIsEarned ==
    ASSUME NEW q \in Results, StateRemembers(q), ActiveIsMapped(q.state),
           NEW r \in Results, r = Execute(q.state, r.command)
    PROVE  LET both_low == ~IsHighConfidence(q.command) /\ ~IsHighConfidence(r.command) IN
           /\ both_low => r.state.active = None
           /\ (q.state.active # None /\ r.state.active = None) =>
                \/ both_low
                \/ /\ IsHighConfidence(r.command) /\ Mapped(r.command) = None
                   /\ <<r.state.artifact, r.state.cluster>> # <<q.state.artifact, q.state.cluster>>
<1> DEFINE s == q.state
           c == r.command
<1>1. s \in States /\ c \in Commands /\ r.state = Transition(s, c).state
  BY DEF Results, Execute
<1>2. s.low_count \in Nat
  BY <1>1 DEF States
<1>3. CASE Lowers(s, c)
  <2>1. /\ ~IsHighConfidence(c)
        /\ r.state.low_count \in {1, 2}
        /\ s.low_count = 0 <=> r.state.low_count = 1
        /\ r.state.low_count = 1 => r.state.active = s.active
        /\ r.state.low_count = 2 => r.state.active = None
    BY <1>1, <1>3, LowFields DEF Lowers
  <2>2. s.low_count > 0 <=> ~IsHighConfidence(q.command)
    BY DEF StateRemembers
  <2> QED
    BY <1>2, <2>1, <2>2
<1>4. CASE Awaits(s, c) \/ AwaitsArtifact(s, c)
  BY <1>1, <1>4, AwaitsFields, AwaitsArtifactFields
<1>5. CASE Reaffirms(s, c) \/ Switches(s, c) \/ Replaces(s, c)
  <2>1. r.state = MakeSelected(s, c) /\ IsHighConfidence(c)
    BY <1>1, <1>5 DEF Reaffirms, Switches, Replaces, Decision
  <2>2. /\ r.state.active = Mapped(c) /\ r.state.artifact = c.artifact
        /\ r.state.cluster = c.assignment.fingerprint
    BY <2>1, SelectedFields
  <2>3. s.active # None /\ r.state.artifact = s.artifact /\ r.state.cluster = s.cluster
        => r.state.active = s.active
    BY <2>2 DEF ActiveIsMapped, Mapped
  <2> QED
    BY <2>1, <2>2, <2>3
<1> QED
  BY <1>1, <1>3, <1>4, <1>5, Branches

(* The events of a decision are the changes it made. *)
LEMMA EventsAreTheChange ==
    ASSUME NEW s \in States, StateValid(s), NEW r \in Results, r = Execute(s, r.command)
    PROVE  /\ Emitted(r.events, "ARTIFACT_REPLACED") <=> r.state.artifact # s.artifact
           /\ Emitted(r.events, "CLUSTER_TRANSITION") <=> r.state.cluster # s.cluster
           /\ Emitted(r.events, "STRATEGY_TRANSITION") <=>
                r.state.active # s.active /\ r.state.active # None
           /\ Emitted(r.events, "CASH_TRANSITION") <=>
                r.state.active # s.active /\ r.state.active = None
           /\ Emitted(r.events, "ENTRY_SUSPENDED") <=>
                s.entries /\ ~r.state.entries /\ r.state.active = s.active
<1> DEFINE c == r.command
<1>1. /\ c \in Commands
      /\ r.state = Transition(s, c).state /\ r.events = Transition(s, c).events
  BY DEF Results, Execute
<1>2. s.entries => s.active # None
  BY DEF StateValid
<1>3. \A e : Emitted(SuspendEvents(s), e) <=>
        \/ s.entries /\ e = "ENTRY_SUSPENDED"
        \/ ~s.entries /\ e = "CLASSIFICATION"
  BY EmittedOne DEF SuspendEvents
<1>4. CASE Lowers(s, c)
  <2>1. /\ r.state.artifact = s.artifact /\ r.state.cluster = s.cluster
        /\ ~r.state.entries /\ r.state.low_count \in {1, 2}
        /\ r.state.low_count = 1 => r.state.active = s.active /\ r.events = SuspendEvents(s)
        /\ r.state.low_count = 2 =>
            /\ r.state.active = None
            /\ r.events = IF s.active # None THEN <<"CASH_TRANSITION">>
                          ELSE <<"CLASSIFICATION">>
    BY <1>1, <1>4, LowFields DEF Lowers
  <2>2. CASE r.state.low_count = 1
    BY <1>3, <2>1, <2>2
  <2>3. CASE r.state.low_count = 2 /\ s.active # None
    <3>1. r.events = <<"CASH_TRANSITION">>
      BY <2>1, <2>3
    <3> QED
      BY <2>1, <2>3, <3>1, EmittedOne
  <2>4. CASE r.state.low_count = 2 /\ s.active = None
    <3>1. r.events = <<"CLASSIFICATION">>
      BY <2>1, <2>4
    <3> QED
      BY <1>2, <2>1, <2>4, <3>1, EmittedOne
  <2> QED
    BY <2>1, <2>2, <2>3, <2>4
<1>5. CASE Awaits(s, c)
  <2>1. r.events = <<"CLASSIFICATION">>
    BY <1>1, <1>5 DEF Awaits, Decision
  <2>2. /\ r.state.artifact = s.artifact /\ r.state.cluster = s.cluster
        /\ r.state.active = s.active /\ (r.state.entries <=> s.entries)
    BY <1>1, <1>5, AwaitsFields
  <2> QED
    BY <2>1, <2>2, EmittedOne
<1>6. CASE AwaitsArtifact(s, c)
  <2>1. r.events = SuspendEvents(s)
    BY <1>1, <1>6 DEF AwaitsArtifact, Decision
  <2>2. /\ r.state.artifact = s.artifact /\ r.state.cluster = s.cluster
        /\ r.state.active = s.active /\ ~r.state.entries
    BY <1>1, <1>6, AwaitsArtifactFields
  <2> QED
    BY <1>3, <2>1, <2>2
<1>7. ASSUME r.state = MakeSelected(s, c)
      PROVE  /\ r.state.artifact = c.artifact
             /\ r.state.cluster = c.assignment.fingerprint
             /\ r.state.active = Mapped(c)
             /\ ~(s.entries /\ ~r.state.entries /\ r.state.active = s.active)
  BY <1>2, <1>7, SelectedFields
<1>8. \A e : Emitted(StrategyEvents(s.active, Mapped(c)), e) <=>
        \/ e = "STRATEGY_TRANSITION" /\ s.active # Mapped(c) /\ Mapped(c) # None
        \/ e = "CASH_TRANSITION" /\ s.active # Mapped(c) /\ Mapped(c) = None
  BY EmittedStrategy
<1>9. CASE Reaffirms(s, c)
  <2>1. /\ r.state = MakeSelected(s, c)
        /\ r.events = OrClassification(StrategyEvents(s.active, Mapped(c)))
        /\ c.artifact = s.artifact /\ c.assignment.fingerprint = s.cluster
    BY <1>1, <1>9 DEF Reaffirms, Decision
  <2> QED
    BY <1>7, <1>8, <2>1, EmittedReaffirmed
<1>10. CASE Switches(s, c)
  <2>1. /\ r.state = MakeSelected(s, c)
        /\ r.events = <<"CLUSTER_TRANSITION">> \o StrategyEvents(s.active, Mapped(c))
        /\ c.artifact = s.artifact /\ c.assignment.fingerprint # s.cluster
    BY <1>1, <1>10 DEF Switches, Decision
  <2> QED
    BY <1>7, <1>8, <2>1, EmittedSwitch
<1>11. CASE Replaces(s, c)
  <2>1. /\ r.state = MakeSelected(s, c)
        /\ r.events = <<"ARTIFACT_REPLACED">> \o ClusterEvents(s, c)
                        \o StrategyEvents(s.active, Mapped(c))
        /\ c.artifact # s.artifact
    BY <1>1, <1>11 DEF Replaces, Decision
  <2> QED
    BY <1>7, <1>8, <2>1, EmittedReplacement
<1> QED
  BY <1>1, <1>4, <1>5, <1>6, <1>9, <1>10, <1>11, Branches

-----------------------------------------------------------------------------
(* The tables *)

RulesInv == Inv /\ StoredStatesOK

(* A committed decision was computed from the last stored state. *)
LEMMA StoredStatesInv ==
    ASSUME RulesInv, [Next]_vars
    PROVE  StoredStatesOK'
<1>1. CASE UNCHANGED db
  BY <1>1 DEF RulesInv, StoredStatesOK, db
<1>2. ASSUME NEW p \in Processes, pc[p] = "commit", CommitNew(p)
      PROVE  StoredStatesOK'
  <2> DEFINE n == proposed[p]
  <2>1. /\ event_rows' = event_rows \union {n}
        /\ StateValid(n.state)
        /\ command[p] \in Commands
        /\ n = Execute(state_row, command[p])
        /\ state_row \in Optional(States)
    BY <1>2, ProposalFacts, CommitIsFresh DEF RulesInv, CommitNew, Inv, TypeOK
  <2>2. state_row # None => ActiveIsMapped(state_row)
    BY DEF RulesInv, Inv, HistoryIsAChain, StoredStatesOK
  <2>3. ActiveIsMapped(n.state)
    BY <2>1, <2>2, ComputedIsMapped
  <2> HIDE DEF n
  <2> QED
    BY <2>1, <2>3 DEF RulesInv, StoredStatesOK
<1>3. \/ UNCHANGED db
      \/ \E p \in Processes : pc[p] = "commit" /\ CommitNew(p)
  BY DEF Next, vars, db, Load, RunStep, Find, Commit, CommitPrior, CommitReject, Return,
         DatabaseLocked, Crash
<1> QED
  BY <1>1, <1>2, <1>3

LEMMA RulesInvariance == Spec => []RulesInv
<1>1. Init => StoredStatesOK
  BY DEF Init, StoredStatesOK
<1>2. RulesInv /\ [Next]_vars => RulesInv'
  BY StoredStatesInv, NextInv DEF RulesInv
<1> QED
  BY <1>1, <1>2, InitInv, PTL DEF Spec, RulesInv

(* Each row of the event table is computed from the row right before it. *)
LEMMA RowsAreComputed ==
    ASSUME RulesInv, NEW q \in event_rows, NEW r \in event_rows, Follows(r, q)
    PROVE  r = Execute(q.state, r.command)
<1>1. q.state.version \in Nat \ {0}
  BY DEF RulesInv, Inv, TypeOK, Results, States
<1>2. PICK o \in event_rows : Follows(r, o) /\ ComputedFrom(r, o.state)
  BY <1>1 DEF RulesInv, Inv, DecisionsReplay, Follows
<1>3. o = q
  BY <1>2 DEF RulesInv, Inv, HistoryIsAChain, Follows
<1> QED
  BY <1>2, <1>3 DEF ComputedFrom

LEMMA RowsRemember ==
    ASSUME RulesInv, NEW r \in event_rows
    PROVE  StateRemembers(r)
<1>1. r \in Results /\ r.command \in Commands
  BY DEF RulesInv, Inv, TypeOK, Results
<1>2. CASE r = Execute(None, r.command)
  BY <1>1, <1>2, InitialRemembers
<1>3. ASSUME NEW q \in event_rows, r = Execute(q.state, r.command)
      PROVE  StateRemembers(r)
  <2>1. q.state \in States /\ StateValid(q.state)
    BY DEF RulesInv, Inv, TypeOK, Results, StoredStatesOK
  <2> QED
    BY <1>1, <1>3, <2>1, ComputedRemembers
<1> QED
  BY <1>2, <1>3 DEF RulesInv, Inv, DecisionsReplay, ComputedFrom

(* A switch of cluster or artifact has the same classification, twice in a    *)
(* row and with high confidence, behind it: however the runs interleave, no   *)
(* confirmation is counted twice or against another artifact's observation.   *)
THEOREM SwitchesAreConfirmed == Spec => []TwoObservationRule
<1>1. RulesInv => TwoObservationRule
  <2> SUFFICES ASSUME RulesInv, NEW q \in event_rows, NEW r \in event_rows,
                      Follows(r, q), Switched(q.state, r)
               PROVE  /\ q.command.artifact = r.command.artifact
                      /\ q.command.assignment.fingerprint = r.command.assignment.fingerprint
                      /\ IsHighConfidence(q.command) /\ IsHighConfidence(r.command)
                      /\ r.state.cluster = r.command.assignment.fingerprint
                      /\ r.state.artifact = r.command.artifact
    BY DEF TwoObservationRule, Switched
  <2>1. q \in Results /\ r \in Results
    BY DEF RulesInv, Inv, TypeOK
  <2> QED
    BY <2>1, RowsAreComputed, RowsRemember, SwitchIsConfirmed
<1> QED
  BY <1>1, RulesInvariance, PTL

LEMMA EntriesRule == RulesInv => EntriesAreJustified
<1> SUFFICES ASSUME RulesInv, NEW r \in event_rows, r.state.entries
             PROVE  /\ IsHighConfidence(r.command)
                    /\ r.command.artifact = r.state.artifact
                    /\ r.state.active # None
                    /\ r.state.active = Snapshots[r.state.artifact].mapping[r.state.cluster]
  BY DEF EntriesAreJustified
<1>1. StateRemembers(r)
  BY RowsRemember
<1>2. StateValid(r.state) /\ ActiveIsMapped(r.state)
  BY DEF RulesInv, StoredStatesOK
<1> QED
  BY <1>1, <1>2 DEF StateRemembers, StateValid, ActiveIsMapped

LEMMA CashRuleHolds == RulesInv => CashRule
<1> SUFFICES ASSUME RulesInv, NEW q \in event_rows, NEW r \in event_rows, Follows(r, q)
             PROVE  CashRule!(q, r)!2
  BY DEF CashRule
<1>1. q \in Results /\ r \in Results /\ ActiveIsMapped(q.state)
  BY DEF RulesInv, Inv, TypeOK, StoredStatesOK
<1> QED
  BY <1>1, RowsAreComputed, RowsRemember, CashIsEarned

LEMMA EventsRule == RulesInv => EventsDescribeChange
<1> SUFFICES ASSUME RulesInv, NEW q \in event_rows, NEW r \in event_rows, Follows(r, q)
             PROVE  EventsDescribeChange!(q, r)!2
  BY DEF EventsDescribeChange
<1>1. r \in Results /\ q.state \in States /\ StateValid(q.state)
  BY DEF RulesInv, Inv, TypeOK, Results, StoredStatesOK
<1>2. r = Execute(q.state, r.command)
  BY RowsAreComputed
<1> QED
  BY <1>1, <1>2, EventsAreTheChange DEF Emitted

(* Entries are enabled only for the strategy the committed artifact maps the  *)
(* confirmed cluster to, cash is entered only after two low classifications   *)
(* or a confirmed cash mapping, and the stored events say exactly what        *)
(* changed, for every table that concurrent and dying runs can produce.       *)
THEOREM DecisionsAreEarned == Spec => []DecisionsAreJustified
<1>1. RulesInv => DecisionsAreJustified
  BY EntriesRule, CashRuleHolds, EventsRule DEF DecisionsAreJustified
<1> QED
  BY <1>1, RulesInvariance, PTL
=============================================================================
