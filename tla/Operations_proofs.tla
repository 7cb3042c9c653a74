-------------------------- MODULE Operations_proofs --------------------------
(***************************************************************************)
(* Theorems about the operations around the trading loop.                  *)
(*                                                                         *)
(* The lifecycle of strategies is sound for any number of actors,          *)
(* strategies and ids.  Rows are only added, so what an actor read stays   *)
(* true until it inserts: that is the part of the invariant about an actor *)
(* (ActorOK), and each actor's part survives what the others do.           *)
(*                                                                         *)
(* Copies of a position that are synced stay exact for any number of       *)
(* keepers and orders, and closes from copies only reduce the account.     *)
(*                                                                         *)
(* The rounds of consume and its keepalive task are clean, for any listen  *)
(* keys, any number of reconnects (also none, and no limit), any fills and *)
(* any number of updates.                                                  *)
(*                                                                         *)
(* The rolling windows of the strategies hold the ranges and the volumes   *)
(* they stand for, for any candles, periods, evaluations and rewinds.      *)
(*                                                                         *)
(* A simulated backtest is what a reader of its trades would compute, for  *)
(* any candles, answers of the strategy, equity, slippage and fee.         *)
(***************************************************************************)
EXTENDS StrategyLifecycle, PositionKeeping, PositionStream, RollingStrategies,
        BacktestSimulator, FiniteSetsExt, SequenceTheorems,
        FiniteSetTheorems, WellFoundedInduction, TLAPS

IsRow(e) ==
    e = [id |-> e.id, target |-> e.target, status |-> e.status, score |-> e.score,
         source |-> e.source, policy |-> e.policy, reg_dt |-> e.reg_dt]

(* A row that was read meets the policy that the promotion names. *)
IsEarned(h) ==
    \E s \in evaluations : s.id = h.source /\ s.target = h.target /\ s.score = h.score /\ CanPromote(h.policy, s)

TablesOK ==
    /\ second \in Nat
    /\ \A e \in evaluations : e.reg_dt \in Nat /\ e.reg_dt <= second
    /\ PromotionsAreEarned /\ EvaluatedIsDefined /\ OneRowPerId

AccountsFor(a) ==
    \A i \in items[a] : i.succeeded =>
        \E e \in evaluations : e.id = EvaluationId(cycle[a], i.strategy) /\ e.target = i.strategy

ActorOK(a) ==
    /\ at[a] = "idle" => items[a] = {}
    /\ at[a] \in {"evaluate", "save"} => Spec1(a) \in definitions
    /\ at[a] = "save" =>
         /\ IsRow(held[a]) /\ held[a].status = "BACKTESTED"
         /\ held[a].id = EvaluationId(cycle[a], Spec1(a)) /\ held[a].target = Spec1(a)
    /\ at[a] = "promote" => IsRow(held[a]) /\ held[a].status = "PROMOTED" /\ IsEarned(held[a])
    /\ AccountsFor(a)

FunctionsOK ==
    /\ DOMAIN at = Actors /\ DOMAIN cycle = Actors /\ DOMAIN todo = Actors
    /\ DOMAIN items = Actors /\ DOMAIN held = Actors

LifeInv == TablesOK /\ FunctionsOK /\ \A a \in Actors : ActorOK(a)

-----------------------------------------------------------------------------
(* Rows and seconds are only added. *)
Grow ==
    /\ evaluations \subseteq evaluations' /\ definitions \subseteq definitions'

(* An actor that does not move keeps its part. *)
LEMMA ActorKept ==
    ASSUME NEW a \in Actors, ActorOK(a), Grow,
           at'[a] = at[a], cycle'[a] = cycle[a], todo'[a] = todo[a], items'[a] = items[a], held'[a] = held[a]
    PROVE  ActorOK(a)'
<1>1. Spec1(a)' = Spec1(a)
  BY Zenon DEF Spec1
<1>2. AccountsFor(a)'
  BY DEF ActorOK, AccountsFor, Grow
<1>3. IsEarned(held[a]) => IsEarned(held[a])'
  BY DEF IsEarned, Grow, CanPromote
<1>4. (at[a] = "promote" => IsRow(held[a]) /\ held[a].status = "PROMOTED" /\ IsEarned(held[a]))'
  BY <1>3 DEF ActorOK, IsRow
<1>5. (at[a] = "save" =>
         /\ IsRow(held[a]) /\ held[a].status = "BACKTESTED"
         /\ held[a].id = EvaluationId(cycle[a], Spec1(a)) /\ held[a].target = Spec1(a))'
  BY <1>1 DEF ActorOK, IsRow, EvaluationId
<1> QED BY <1>1, <1>2, <1>4, <1>5 DEF ActorOK, Grow

LEMMA TablesKept ==
    ASSUME TablesOK, evaluations' = evaluations, definitions \subseteq definitions',
           second' \in Nat, second <= second'
    PROVE  TablesOK'
<1>1. \A e \in evaluations' : e.reg_dt \in Nat /\ e.reg_dt <= second'
  BY DEF TablesOK
<1>2. PromotionsAreEarned' /\ OneRowPerId'
  BY DEF TablesOK, PromotionsAreEarned, OneRowPerId, CanPromote
<1>3. EvaluatedIsDefined'
  BY DEF TablesOK, EvaluatedIsDefined
<1> QED BY <1>1, <1>2, <1>3 DEF TablesOK

(* An inserted row takes the second, and its id was free. *)
LEMMA RowInserted ==
    ASSUME TablesOK, NEW r, IsRow(r), SaveEvaluation(r),
           r.target \in definitions, r.status = "PROMOTED" => IsEarned(r),
           UNCHANGED <<definitions, second>>
    PROVE  /\ TablesOK' /\ Grow
           /\ \E e \in evaluations' : e.id = r.id /\ e.target = r.target
<1> DEFINE row == [r EXCEPT !.reg_dt = second]
<1>1. /\ row.id = r.id /\ row.target = r.target /\ row.status = r.status /\ row.score = r.score
      /\ row.source = r.source /\ row.policy = r.policy /\ row.reg_dt = second
  BY DEF IsRow
<1>2. evaluations' = evaluations \union {row} /\ \A e \in evaluations : e.id # r.id
  BY DEF SaveEvaluation
<1> HIDE DEF row
<1>3. \A e \in evaluations' : e.reg_dt \in Nat /\ e.reg_dt <= second'
  BY <1>1, <1>2 DEF TablesOK
<1>4. PromotionsAreEarned'
  <2> SUFFICES ASSUME NEW e \in evaluations', e.status = "PROMOTED"
               PROVE  \E s \in evaluations' : /\ s.id = e.source /\ s.target = e.target /\ s.score = e.score
                                              /\ CanPromote(e.policy, s) /\ s.reg_dt <= e.reg_dt
    BY DEF PromotionsAreEarned, CanPromote
  <2>1. CASE e \in evaluations
    BY <1>2, <2>1 DEF TablesOK, PromotionsAreEarned
  <2>2. CASE e = row
    <3>1. IsEarned(r)
      BY <1>1, <2>2
    <3>2. PICK s \in evaluations : s.id = r.source /\ s.target = r.target /\ s.score = r.score /\ CanPromote(r.policy, s)
      BY <3>1 DEF IsEarned
    <3> QED BY <1>1, <1>2, <2>2, <3>2 DEF TablesOK
  <2> QED BY <1>2, <2>1, <2>2
<1>5. EvaluatedIsDefined' /\ OneRowPerId'
  BY <1>1, <1>2 DEF TablesOK, EvaluatedIsDefined, OneRowPerId
<1>6. \E e \in evaluations' : e.id = r.id /\ e.target = r.target
  BY <1>1, <1>2
<1> QED BY <1>2, <1>3, <1>4, <1>5, <1>6 DEF TablesOK, Grow

(* A step of one actor leaves the others where they are. *)
OthersStay(a) ==
    \A b \in Actors \ {a} : /\ at'[b] = at[b] /\ cycle'[b] = cycle[b] /\ todo'[b] = todo[b]
                            /\ items'[b] = items[b] /\ held'[b] = held[b]

(* A run that ends has nothing left to account for. *)
LEMMA RunEnded ==
    ASSUME FunctionsOK, NEW a \in Actors, EndsRun(a)
    PROVE  FunctionsOK' /\ ActorOK(a)' /\ OthersStay(a)
<1>1. FunctionsOK' /\ at'[a] = "idle" /\ items'[a] = {}
  BY DEF FunctionsOK, EndsRun, Goes
<1>2. ActorOK(a)'
  BY <1>1 DEF ActorOK, AccountsFor
<1>3. OthersStay(a)
  BY DEF FunctionsOK, EndsRun, Goes, OthersStay
<1> QED BY <1>1, <1>2, <1>3

LEMMA OneActorMoves ==
    ASSUME LifeInv, NEW a \in Actors, OthersStay(a), Grow, TablesOK', FunctionsOK', ActorOK(a)'
    PROVE  LifeInv'
<1>1. ASSUME NEW b \in Actors PROVE ActorOK(b)'
  <2>1. CASE b # a
    BY <2>1, ActorKept DEF LifeInv, OthersStay
  <2> QED BY <2>1
<1> QED BY <1>1 DEF LifeInv

(* A spec is done; when it succeeded, its evaluation is stored. *)
LEMMA SpecDone ==
    ASSUME FunctionsOK, NEW a \in Actors, ActorOK(a), Grow, NEW ok \in BOOLEAN, Done(a, ok),
           ok => \E e \in evaluations' : e.id = EvaluationId(cycle[a], Spec1(a)) /\ e.target = Spec1(a)
    PROVE  FunctionsOK' /\ ActorOK(a)' /\ OthersStay(a)
<1>1. /\ at' = [at EXCEPT ![a] = "next"] /\ cycle' = cycle
      /\ items' = [items EXCEPT ![a] = @ \union {Item(a, ok)}]
      /\ todo' = [todo EXCEPT ![a] = @ \ {Spec1(a)}]
      /\ held' = [held EXCEPT ![a] = NoEvaluation]
  BY DEF Done, GoesOn, Goes
<1>2. FunctionsOK' /\ OthersStay(a)
  BY <1>1 DEF FunctionsOK, OthersStay
<1>3. at'[a] = "next" /\ items'[a] = items[a] \union {Item(a, ok)} /\ cycle'[a] = cycle[a]
  BY <1>1 DEF FunctionsOK
<1>4. Item(a, ok).strategy = Spec1(a) /\ Item(a, ok).succeeded = ok
  BY DEF Item
<1>5. AccountsFor(a)'
  <2> SUFFICES ASSUME NEW i \in items'[a], i.succeeded
               PROVE  \E e \in evaluations' : e.id = EvaluationId(cycle[a], i.strategy) /\ e.target = i.strategy
    BY <1>3 DEF AccountsFor, EvaluationId
  <2>1. CASE i \in items[a]
    BY <2>1 DEF ActorOK, AccountsFor, Grow
  <2>2. CASE i = Item(a, ok)
    BY <1>4, <2>2
  <2> QED BY <1>3, <2>1, <2>2
<1>6. ActorOK(a)'
  BY <1>3, <1>5 DEF ActorOK
<1> QED BY <1>2, <1>6

LEMMA StartCycleKeeps ==
    ASSUME LifeInv, NEW a \in Actors, StartCycle(a)
    PROVE  LifeInv'
<1>1. PICK c \in 1..CycleIds, specs \in SUBSET (1..Strategies) :
        /\ at[a] = "idle"
        /\ cycle' = [cycle EXCEPT ![a] = c]
        /\ todo' = [todo EXCEPT ![a] = specs]
        /\ at' = [at EXCEPT ![a] = "next"]
        /\ UNCHANGED <<tables, items, held, wish>>
  BY DEF StartCycle, Goes
<1>2. FunctionsOK' /\ OthersStay(a) /\ at'[a] = "next" /\ items'[a] = {}
  BY <1>1 DEF LifeInv, FunctionsOK, OthersStay, ActorOK
<1>3. ActorOK(a)'
  BY <1>2 DEF ActorOK, AccountsFor
<1>4. TablesOK' /\ Grow
  BY <1>1, TablesKept DEF LifeInv, TablesOK, Grow, tables
<1> QED BY <1>2, <1>3, <1>4, OneActorMoves

LEMMA DefineNextKeeps ==
    ASSUME LifeInv, NEW a \in Actors, DefineNext(a)
    PROVE  LifeInv'
<1>1. CASE todo[a] = {} /\ EndsRun(a) /\ UNCHANGED definitions
  <2>1. TablesOK' /\ Grow
    BY <1>1, TablesKept DEF LifeInv, TablesOK, Grow, DefineNext
  <2> QED BY <1>1, <2>1, RunEnded, OneActorMoves DEF LifeInv
<1>2. CASE /\ definitions' = definitions \union {Spec1(a)}
           /\ GoesOn(a, "evaluate")
           /\ UNCHANGED <<todo, items, held>>
  <2>1. UNCHANGED <<evaluations, second>>
    BY DEF DefineNext
  <2>2. TablesOK' /\ Grow
    BY <1>2, <2>1, TablesKept DEF LifeInv, TablesOK, Grow
  <2>3. FunctionsOK' /\ OthersStay(a) /\ at'[a] = "evaluate"
    BY <1>2 DEF LifeInv, FunctionsOK, OthersStay, GoesOn, Goes
  <2>4. AccountsFor(a)'
    BY <1>2, <2>1 DEF LifeInv, ActorOK, AccountsFor, GoesOn
  <2>5. Spec1(a)' = Spec1(a)
    BY <1>2, Zenon DEF Spec1
  <2>6. ActorOK(a)'
    BY <1>2, <2>3, <2>4, <2>5 DEF ActorOK
  <2> QED BY <2>2, <2>3, <2>6, OneActorMoves
<1> QED BY <1>1, <1>2 DEF DefineNext

LEMMA RunOneKeeps ==
    ASSUME LifeInv, NEW a \in Actors, RunOne(a)
    PROVE  LifeInv'
<1>1. TablesOK' /\ Grow /\ evaluations' = evaluations /\ definitions' = definitions
  BY TablesKept DEF LifeInv, TablesOK, Grow, RunOne, tables
<1>2. CASE Done(a, FALSE)
  BY <1>1, <1>2, SpecDone, OneActorMoves DEF LifeInv
<1>3. ASSUME NEW score \in Scores,
             held' = [held EXCEPT ![a] =
                        [id |-> EvaluationId(cycle[a], Spec1(a)), target |-> Spec1(a),
                         status |-> "BACKTESTED", score |-> score, source |-> Nothing,
                         policy |-> {}, reg_dt |-> 0]],
             GoesOn(a, "save"), UNCHANGED <<todo, items>>
      PROVE  LifeInv'
  <2>1. /\ FunctionsOK' /\ OthersStay(a) /\ at'[a] = "save" /\ cycle'[a] = cycle[a] /\ items'[a] = items[a]
        /\ held'[a] = [id |-> EvaluationId(cycle[a], Spec1(a)), target |-> Spec1(a),
                       status |-> "BACKTESTED", score |-> score, source |-> Nothing,
                       policy |-> {}, reg_dt |-> 0]
    BY <1>3 DEF LifeInv, FunctionsOK, OthersStay, GoesOn, Goes
  <2>2. /\ IsRow(held'[a]) /\ held'[a].status = "BACKTESTED"
        /\ held'[a].id = EvaluationId(cycle[a], Spec1(a)) /\ held'[a].target = Spec1(a)
    BY <2>1 DEF IsRow
  <2>3. Spec1(a)' = Spec1(a)
    BY <1>3, Zenon DEF Spec1
  <2>4. AccountsFor(a)'
    BY <1>1, <2>1 DEF LifeInv, ActorOK, AccountsFor, EvaluationId
  <2>5. Spec1(a) \in definitions'
    BY <1>1 DEF LifeInv, ActorOK, RunOne
  <2>6. (/\ IsRow(held[a]) /\ held[a].status = "BACKTESTED"
         /\ held[a].id = EvaluationId(cycle[a], Spec1(a)) /\ held[a].target = Spec1(a))'
    BY <2>1, <2>2, <2>3 DEF IsRow, EvaluationId
  <2>7. ActorOK(a)'
    BY <2>1, <2>3, <2>4, <2>5, <2>6 DEF ActorOK
  <2> QED BY <1>1, <2>1, <2>7, OneActorMoves
<1> QED BY <1>2, <1>3 DEF RunOne

LEMMA SaveResultKeeps ==
    ASSUME LifeInv, NEW a \in Actors, SaveResult(a)
    PROVE  LifeInv'
<1>1. /\ IsRow(held[a]) /\ held[a].status = "BACKTESTED"
      /\ held[a].id = EvaluationId(cycle[a], Spec1(a)) /\ held[a].target = Spec1(a)
      /\ held[a].target \in definitions /\ UNCHANGED <<definitions, second>>
  BY DEF LifeInv, ActorOK, SaveResult
<1>2. CASE SaveEvaluation(held[a]) /\ Done(a, TRUE)
  <2>1. /\ TablesOK' /\ Grow
        /\ \E e \in evaluations' : e.id = held[a].id /\ e.target = held[a].target
    BY <1>1, <1>2, RowInserted DEF LifeInv
  <2>2. FunctionsOK' /\ ActorOK(a)' /\ OthersStay(a)
    BY <1>1, <1>2, <2>1, SpecDone DEF LifeInv
  <2> QED BY <2>1, <2>2, OneActorMoves
<1>3. CASE EndsRun(a) /\ UNCHANGED evaluations
  <2>1. TablesOK' /\ Grow
    BY <1>1, <1>3, TablesKept DEF LifeInv, TablesOK, Grow
  <2> QED BY <1>3, <2>1, RunEnded, OneActorMoves DEF LifeInv
<1> QED BY <1>2, <1>3 DEF SaveResult

LEMMA StartLifecycleKeeps ==
    ASSUME LifeInv, NEW a \in Actors, StartLifecycle(a)
    PROVE  LifeInv'
<1>1. /\ at[a] = "idle" /\ UNCHANGED <<tables, cycle, todo, items, held>>
      /\ at' = [at EXCEPT ![a] = "latest"] \/ at' = [at EXCEPT ![a] = "find"]
  BY DEF StartLifecycle, Goes
<1>2. TablesOK' /\ Grow
  BY <1>1, TablesKept DEF LifeInv, TablesOK, Grow, tables
<1>3. FunctionsOK' /\ OthersStay(a) /\ at'[a] \in {"latest", "find"} /\ items'[a] = {}
  BY <1>1 DEF LifeInv, ActorOK, FunctionsOK, OthersStay
<1>4. ActorOK(a)'
  BY <1>3 DEF ActorOK, AccountsFor
<1> QED BY <1>2, <1>3, <1>4, OneActorMoves

LEMMA FindLatestKeeps ==
    ASSUME LifeInv, NEW a \in Actors, FindLatest(a)
    PROVE  LifeInv'
<1>1. TablesOK' /\ Grow /\ evaluations' = evaluations
  BY TablesKept DEF LifeInv, TablesOK, Grow, FindLatest, tables
<1>2. CASE EndsRun(a)
  BY <1>1, <1>2, RunEnded, OneActorMoves DEF LifeInv
<1>3. CASE Goes(a, "find") /\ UNCHANGED <<cycle, todo, items, held>>
  <2>1. FunctionsOK' /\ OthersStay(a) /\ at'[a] = "find" /\ items'[a] = items[a] /\ cycle'[a] = cycle[a]
    BY <1>3 DEF LifeInv, FunctionsOK, OthersStay, Goes
  <2>2. AccountsFor(a)'
    BY <1>1, <2>1 DEF LifeInv, ActorOK, AccountsFor, EvaluationId
  <2>3. ActorOK(a)'
    BY <2>1, <2>2 DEF ActorOK
  <2> QED BY <1>1, <2>1, <2>3, OneActorMoves
<1> QED BY <1>2, <1>3 DEF FindLatest

(* What is found is a row that meets the policy. *)
LEMMA FindEvaluationKeeps ==
    ASSUME LifeInv, NEW a \in Actors, FindEvaluation(a)
    PROVE  LifeInv'
<1>1. TablesOK' /\ Grow /\ evaluations' = evaluations
  BY TablesKept DEF LifeInv, TablesOK, Grow, FindEvaluation, tables
<1>2. CASE EndsRun(a)
  BY <1>1, <1>2, RunEnded, OneActorMoves DEF LifeInv
<1>3. ASSUME NEW e \in evaluations, CanPromote(wish[a].policy, e),
             held' = [held EXCEPT ![a] =
                        [id |-> wish[a].promoted, target |-> e.target,
                         status |-> "PROMOTED", score |-> e.score, source |-> e.id,
                         policy |-> wish[a].policy, reg_dt |-> 0]],
             GoesOn(a, "promote"), UNCHANGED <<todo, items>>
      PROVE  LifeInv'
  <2>1. /\ FunctionsOK' /\ OthersStay(a) /\ at'[a] = "promote" /\ items'[a] = items[a] /\ cycle'[a] = cycle[a]
        /\ held'[a] = [id |-> wish[a].promoted, target |-> e.target,
                       status |-> "PROMOTED", score |-> e.score, source |-> e.id,
                       policy |-> wish[a].policy, reg_dt |-> 0]
    BY <1>3 DEF LifeInv, FunctionsOK, OthersStay, GoesOn, Goes
  <2>2. IsRow(held'[a]) /\ held'[a].status = "PROMOTED"
    BY <2>1 DEF IsRow
  <2>3. /\ held'[a].target = e.target /\ held'[a].score = e.score /\ held'[a].source = e.id
        /\ held'[a].policy = wish[a].policy
    BY <2>1
  <2>4. IsEarned(held[a])'
    BY <1>1, <1>3, <2>3 DEF IsEarned, CanPromote
  <2>5. AccountsFor(a)'
    BY <1>1, <2>1 DEF LifeInv, ActorOK, AccountsFor, EvaluationId
  <2>6. (IsRow(held[a]) /\ held[a].status = "PROMOTED")'
    BY <2>2 DEF IsRow
  <2>7. ActorOK(a)'
    BY <2>1, <2>4, <2>5, <2>6 DEF ActorOK
  <2> QED BY <1>1, <2>1, <2>7, OneActorMoves
<1> QED BY <1>2, <1>3 DEF FindEvaluation, Rows

LEMMA PromoteKeeps ==
    ASSUME LifeInv, NEW a \in Actors, Promote(a)
    PROVE  LifeInv'
<1>1. FunctionsOK' /\ ActorOK(a)' /\ OthersStay(a)
  BY RunEnded DEF LifeInv, Promote
<1>2. CASE SaveEvaluation(held[a])
  <2>1. IsRow(held[a]) /\ IsEarned(held[a])
    BY DEF LifeInv, ActorOK, Promote
  <2>2. held[a].target \in definitions
    BY <2>1 DEF IsEarned, LifeInv, TablesOK, EvaluatedIsDefined
  <2>3. TablesOK' /\ Grow
    BY <1>2, <2>1, <2>2, RowInserted DEF LifeInv, Promote
  <2> QED BY <1>1, <2>3, OneActorMoves
<1>3. CASE UNCHANGED evaluations
  <2>1. TablesOK' /\ Grow
    BY <1>3, TablesKept DEF LifeInv, TablesOK, Grow, Promote
  <2> QED BY <1>1, <2>1, OneActorMoves
<1> QED BY <1>2, <1>3 DEF Promote

(* A registration and the clock leave every actor where it is. *)
LEMMA NobodyMoves ==
    ASSUME LifeInv, Register \/ SecondPasses \/ UNCHANGED lifeVars
    PROVE  LifeInv'
<1>1. UNCHANGED actorVars
  BY DEF Register, SecondPasses, lifeVars
<1>2. TablesOK' /\ Grow
  BY TablesKept DEF LifeInv, TablesOK, Grow, Register, SecondPasses, lifeVars, tables
<1>3. FunctionsOK'
  BY <1>1 DEF LifeInv, FunctionsOK, actorVars
<1>4. \A a \in Actors : ActorOK(a)'
  BY <1>1, <1>2, ActorKept DEF LifeInv, actorVars
<1> QED BY <1>2, <1>3, <1>4 DEF LifeInv

-----------------------------------------------------------------------------
LEMMA LifeInitInv ==
    ASSUME LifeInit
    PROVE  LifeInv
<1>1. TablesOK
  BY DEF LifeInit, TablesOK, PromotionsAreEarned, EvaluatedIsDefined, OneRowPerId
<1>2. FunctionsOK /\ \A a \in Actors : at[a] = "idle" /\ items[a] = {}
  BY DEF LifeInit, FunctionsOK
<1>3. \A a \in Actors : ActorOK(a)
  BY <1>2 DEF ActorOK, AccountsFor
<1> QED BY <1>1, <1>2, <1>3 DEF LifeInv

(* What a promotion promises, what a cycle reports and what is evaluated:   *)
(* for any number of actors whose repository calls interleave, under ids    *)
(* that conflict, and with a clock that stands still or goes on.            *)
THEOREM LifecycleStaysSound == LifeSpec => []LifecycleIsSound
<1>1. LifeInit => LifeInv
  BY LifeInitInv
<1>2. LifeInv /\ [LifeNext]_lifeVars => LifeInv'
  BY StartCycleKeeps, DefineNextKeeps, RunOneKeeps, SaveResultKeeps, StartLifecycleKeeps,
     FindLatestKeeps, FindEvaluationKeeps, PromoteKeeps, NobodyMoves
  DEF LifeNext
<1>3. LifeInv => LifecycleIsSound
  BY DEF LifeInv, TablesOK, ActorOK, AccountsFor, LifecycleIsSound, CyclesAccountForAll
<1> QED BY <1>1, <1>2, <1>3, PTL DEF LifeSpec

-----------------------------------------------------------------------------
(* Induction *)

(* A set of numbers has a smallest one.                                     *)
LEMMA Smallest ==
    ASSUME NEW S \in SUBSET Nat, S # {}
    PROVE  \E n \in S : \A m \in S : n =< m
<1> DEFINE R == OpToRel(<, Nat)
<1>1. IsWellFoundedOn(R, Nat)
  BY NatLessThanWellFounded
<1>2. \A x, y \in Nat : x < y => <<x, y>> \in R
  BY DEF OpToRel
<1> HIDE DEF R
<1>3. PICK n \in S : \A y \in S : ~ (<<y, n>> \in R)
  BY <1>1, WFMin
<1>4. ASSUME NEW m \in S PROVE n =< m
  <2>1. n \in Nat /\ m \in Nat /\ ~(<<m, n>> \in R)
    BY <1>3
  <2>2. ~(m < n)
    BY <1>2, <2>1
  <2> QED BY <2>1, <2>2
<1> QED BY <1>4

(* A set that has 0 and the successors of its numbers has all numbers.      *)
LEMMA Induction ==
    ASSUME NEW S, 0 \in S, \A n \in Nat : n \in S => n + 1 \in S
    PROVE  Nat \subseteq S
<1> DEFINE T == Nat \ S
<1>1. SUFFICES ASSUME T # {} PROVE FALSE
  OBVIOUS
<1>2. PICK n \in T : \A m \in T : n =< m
  BY <1>1, Smallest
<1>3. n \in Nat /\ n # 0 /\ n - 1 \in Nat /\ n - 1 \notin T
  BY <1>2
<1>4. n - 1 \in S /\ n = (n - 1) + 1
  BY <1>3
<1>5. n \in S
  BY <1>3, <1>4
<1> QED
  BY <1>2, <1>5

-----------------------------------------------------------------------------
(* Folds *)

(* f folds D from base on, one element after another: pick says which.      *)
IsFold(f, D, V, base, pick, step) ==
    /\ f = [s \in SUBSET D |-> f[s]]
    /\ f[{}] = base
    /\ \A s \in SUBSET D : f[s] \in V
    /\ \A s \in SUBSET D : s # {} => f[s] = step[<<pick[s], f[s \ {pick[s]}]>>]

(* By induction over the size of the subsets.                               *)
LEMMA FoldsExist ==
    ASSUME NEW D, IsFiniteSet(D), NEW V, NEW base \in V, NEW pick, NEW step,
           \A s \in SUBSET D : s # {} => pick[s] \in s,
           \A x \in D, v \in V : step[<<x, v>>] \in V
    PROVE  \E f : IsFold(f, D, V, base, pick, step)
<1> DEFINE Small(k) == {s \in SUBSET D : Cardinality(s) =< k}
           Fold(f, k) == /\ f = [s \in Small(k) |-> f[s]]
                         /\ \A s \in Small(k) :
                              /\ f[s] \in V
                              /\ f[s] = IF s = {} THEN base ELSE step[<<pick[s], f[s \ {pick[s]}]>>]
           Reached == {k \in Nat : \E f : Fold(f, k)}
<1>1. \A s \in SUBSET D : IsFiniteSet(s) /\ Cardinality(s) \in Nat
                            /\ Cardinality(s) =< Cardinality(D)
  BY FS_Subset, FS_CardinalityType
<1>2. \A s \in SUBSET D : Cardinality(s) = 0 <=> s = {}
  BY <1>1, FS_EmptySet
<1>3. ASSUME NEW s \in SUBSET D, s # {}
      PROVE  /\ pick[s] \in D /\ s \ {pick[s]} \in SUBSET D
             /\ Cardinality(s \ {pick[s]}) = Cardinality(s) - 1
  BY <1>1, <1>3, FS_RemoveElement
<1>4. 0 \in Reached
  <2> DEFINE f == [s \in Small(0) |-> base]
  <2>1. \A s \in Small(0) : s = {}
    BY <1>1, <1>2
  <2>2. Fold(f, 0)
    BY <2>1
  <2> QED
    BY <2>2
<1>5. ASSUME NEW k \in Nat, k \in Reached
      PROVE  k + 1 \in Reached
  <2>1. PICK f : Fold(f, k)
    BY <1>5
  <2> DEFINE g == [s \in Small(k + 1) |->
                    IF s = {} THEN base ELSE step[<<pick[s], f[s \ {pick[s]}]>>]]
  <2>2. \A s \in Small(k + 1) : s # {} => s \ {pick[s]} \in Small(k) /\ pick[s] \in D
    BY <1>1, <1>3
  <2>3. \A s \in Small(k) : s \in Small(k + 1) /\ g[s] = f[s]
    BY <1>1, <2>1
  <2>4. \A s \in Small(k + 1) : s # {} => f[s \ {pick[s]}] \in V
    BY <2>1, <2>2
  <2>5. \A s \in Small(k + 1) : g[s] \in V
    BY <2>2, <2>4
  <2>6. ASSUME NEW s \in Small(k + 1), s # {}
        PROVE  g[s] = step[<<pick[s], g[s \ {pick[s]}]>>]
    <3> HIDE DEF Small
    <3>1. g[s \ {pick[s]}] = f[s \ {pick[s]}]
      BY <2>2, <2>3, <2>6
    <3>2. g[s] = step[<<pick[s], f[s \ {pick[s]}]>>]
      BY <2>6
    <3> QED
      BY <3>1, <3>2
  <2>7. ASSUME NEW s \in Small(k + 1), s = {}
        PROVE  g[s] = base
    BY <2>7
  <2> HIDE DEF Small
  <2>8. g = [s \in Small(k + 1) |-> g[s]]
    OBVIOUS
  <2> HIDE DEF g
  <2>9. Fold(g, k + 1)
    BY <2>5, <2>6, <2>7, <2>8
  <2> QED
    BY <2>9
<1> HIDE DEF Reached
<1>6. Cardinality(D) \in Reached
  BY <1>1, <1>4, <1>5, Induction, FS_CardinalityType
<1> USE DEF Reached
<1>7. PICK f : Fold(f, Cardinality(D))
  BY <1>6
<1>8. Small(Cardinality(D)) = SUBSET D
  BY <1>1
<1> HIDE DEF Small
<1>9. /\ f = [s \in SUBSET D |-> f[s]]
      /\ \A s \in SUBSET D : f[s] \in V
      /\ \A s \in SUBSET D :
            f[s] = IF s = {} THEN base ELSE step[<<pick[s], f[s \ {pick[s]}]>>]
  BY <1>7, <1>8
<1> QED
  BY <1>9 DEF IsFold

(* The largest of a set of numbers up to n.                                 *)
LEMMA LargestOfNats ==
    ASSUME NEW n \in Nat, NEW s \in SUBSET (1..n), s # {}
    PROVE  Max(s) \in s /\ \A y \in s : Max(s) >= y
<1> DEFINE below == {n - x : x \in s}
<1>1. \A x \in s : n - x \in Nat
  <2>1. \A x \in s : x \in 1..n
    OBVIOUS
  <2> QED
    BY <2>1
<1>2. below \in SUBSET Nat /\ below # {}
  BY <1>1
<1> HIDE DEF below
<1>3. PICK m \in below : \A y \in below : m =< y
  BY <1>2, Smallest
<1> USE DEF below
<1>4. PICK x \in s : m = n - x
  BY <1>3
<1>5. ASSUME NEW y \in s PROVE x >= y
  <2>1. m =< n - y
    BY <1>3
  <2>2. x \in 1..n /\ y \in 1..n
    OBVIOUS
  <2> QED
    BY <1>4, <2>1, <2>2
<1> QED
  BY <1>4, <1>5 DEF Max

(* The elements of 1..k are taken away from the last to the first.          *)
LEMMA LargestOfInterval ==
    ASSUME NEW k \in Nat, k > 0
    PROVE  Max(1..k) = k /\ (1..k) \ {k} = 1..(k - 1) /\ 1..k # {}
<1>1. k \in 1..k /\ 1..k # {}
  OBVIOUS
<1>2. Max(1..k) \in 1..k /\ Max(1..k) >= k
  BY <1>1, LargestOfNats
<1> QED
  BY <1>1, <1>2

(* A fold over a sequence takes its elements from the first to the last.    *)
LEMMA LeftFoldsExist ==
    ASSUME NEW n \in Nat, NEW V, NEW base \in V, NEW step,
           \A k \in 1..n, v \in V : step[<<k, v>>] \in V
    PROVE  \E f : IsFold(f, 1..n, V, base, [s \in SUBSET (1..n) |-> Max(s)], step)
<1> DEFINE D == 1..n
           pick == [s \in SUBSET D |-> Max(s)]
<1>1. IsFiniteSet(D)
  BY FS_Interval
<1>2. \A s \in SUBSET D : s # {} => pick[s] \in s
  BY LargestOfNats
<1>3. \A x \in D, v \in V : step[<<x, v>>] \in V
  OBVIOUS
<1> HIDE DEF D, pick
<1>4. \E f : IsFold(f, D, V, base, pick, step)
  BY <1>1, <1>2, <1>3, FoldsExist
<1> QED
  BY <1>4 DEF D, pick

-----------------------------------------------------------------------------
(* Traces *)

(* Traces that start alike and go on alike agree.                           *)
GoOnAlike(S, T, n) ==
    n \in Nat /\ S[0] = T[0] /\ \A k \in 1..n : S[k - 1] = T[k - 1] => S[k] = T[k]

LEMMA TracesAgree ==
    ASSUME NEW n, NEW S, NEW T, GoOnAlike(S, T, n)
    PROVE  \A k \in 0..n : S[k] = T[k]
<1> USE DEF GoOnAlike
<1> DEFINE R == {k \in Nat : k =< n => S[k] = T[k]}
<1>1. 0 \in R
  OBVIOUS
<1>2. ASSUME NEW k \in Nat, k \in R PROVE k + 1 \in R
  <2>1. CASE k + 1 =< n
    <3>1. k =< n /\ k + 1 \in 1..n /\ (k + 1) - 1 = k
      BY <2>1
    <3>2. S[(k + 1) - 1] = T[(k + 1) - 1] => S[k + 1] = T[k + 1]
      BY <3>1
    <3> QED
      BY <1>2, <3>1, <3>2
  <2> QED
    BY <2>1
<1> HIDE DEF R
<1>3. Nat \subseteq R
  BY <1>1, <1>2, Induction
<1> QED
  BY <1>3 DEF R

(* A trace stays in a set that its steps do not leave.                      *)
LEMMA TraceType ==
    ASSUME NEW n \in Nat, NEW V, NEW T, T[0] \in V,
           \A k \in 1..n : T[k - 1] \in V => T[k] \in V
    PROVE  \A k \in 0..n : T[k] \in V
<1> DEFINE R == {k \in Nat : k =< n => T[k] \in V}
<1>1. 0 \in R
  OBVIOUS
<1>2. ASSUME NEW k \in Nat, k \in R PROVE k + 1 \in R
  <2>1. CASE k + 1 =< n
    <3>1. k =< n /\ k + 1 \in 1..n /\ (k + 1) - 1 = k
      BY <2>1
    <3>2. T[(k + 1) - 1] \in V => T[k + 1] \in V
      BY <3>1
    <3> QED
      BY <1>2, <3>1, <3>2
  <2> QED
    BY <2>1
<1> HIDE DEF R
<1>3. Nat \subseteq R
  BY <1>1, <1>2, Induction
<1> QED
  BY <1>3 DEF R

-----------------------------------------------------------------------------
(* Closes from copies of a position.                                        *)

OrdersAtExchange ==
    [side : Sides, executed : Nat, open : Nat, reduce_only : BOOLEAN, close_position : BOOLEAN]

CopiesArePositions ==
    /\ account \in Int
    /\ orders \in Seq(OrdersAtExchange)
    /\ copy \in [Keepers -> HeldPositions]

KeepingInv == CopiesArePositions /\ ClosesOnlyReduce

LEMMA AbsIsNat ==
    ASSUME NEW n \in Int
    PROVE  Abs(n) \in Nat /\ (n > 0 => Abs(n) = n) /\ (n <= 0 => Abs(n) = -n)
BY DEF Abs

(* A quantity that moves towards zero keeps its side and does not grow. *)
LEMMA TowardsZero ==
    ASSUME NEW a \in Int, NEW b \in Int,
           (a > 0 /\ 0 <= b /\ b <= a) \/ (a < 0 /\ a <= b /\ b <= 0)
    PROVE  ~(a * b < 0) /\ ~(Abs(b) > Abs(a))
<1>1. CASE a > 0 /\ 0 <= b /\ b <= a
  <2>1. ~(a * b < 0)
    BY <1>1
  <2>2. ~(Abs(b) > Abs(a))
    BY <1>1 DEF Abs
  <2> QED BY <2>1, <2>2
<1>2. CASE a < 0 /\ a <= b /\ b <= 0
  <2>1. ~(a * b < 0)
    BY <1>2
  <2>2. ~(Abs(b) > Abs(a))
    BY <1>2 DEF Abs
  <2> QED BY <2>1, <2>2
<1> QED BY <1>1, <1>2

LEMMA OrdersGrow ==
    ASSUME orders \in Seq(OrdersAtExchange), NEW order \in OrdersAtExchange, Submits(order)
    PROVE  orders' \in Seq(OrdersAtExchange)
BY DEF Submits

LEMMA FillsKeepTypes ==
    ASSUME account \in Int, orders \in Seq(OrdersAtExchange),
           NEW i \in DOMAIN orders, NEW q \in Nat, Fills(i, q)
    PROVE  account' \in Int /\ orders' \in Seq(OrdersAtExchange)
<1>1. orders[i] \in OrdersAtExchange
  OBVIOUS
<1>2. orders[i].side \in {1, -1} /\ orders[i].executed \in Nat
  BY <1>1 DEF OrdersAtExchange, Sides
<1>3. account' \in Int
  BY <1>2 DEF Fills
<1>4. [orders[i] EXCEPT !.executed = @ + q, !.open = 0] \in OrdersAtExchange
  <2>1. orders[i].executed + q \in Nat
    BY <1>2
  <2> QED BY <1>1, <2>1 DEF OrdersAtExchange
<1>5. orders' = [orders EXCEPT ![i] = [orders[i] EXCEPT !.executed = @ + q, !.open = 0]]
  BY DEF Fills
<1>6. orders' \in Seq(OrdersAtExchange)
  BY <1>4, <1>5
<1> QED BY <1>3, <1>6

(* A close has the side of a closing order and executes no more than the    *)
(* account holds.                                                           *)
LEMMA CloseReduces ==
    ASSUME KeepingInv, NEW k \in Keepers, copy[k].quantity > 0, SubmitClose(k)
    PROVE  KeepingInv'
<1> DEFINE order == ClosingOrder(k)
<1>1. copy[k] \in HeldPositions
  BY DEF KeepingInv, CopiesArePositions
<1>2. /\ copy[k].direction \in {1, -1} /\ copy[k].quantity \in Nat
      /\ account \in Int /\ Abs(account) \in Nat
  BY <1>1, AbsIsNat DEF KeepingInv, CopiesArePositions, HeldPositions, Sides
<1>3. /\ order.side \in {1, -1} /\ order.executed \in Nat /\ order.executed <= Abs(account)
      /\ order.reduce_only
  BY <1>2 DEF ClosingOrder
<1>4. order \in OrdersAtExchange
  BY <1>2 DEF ClosingOrder, OrdersAtExchange, Sides
<1>5. account * order.side < 0 /\ account' = account + order.side * order.executed
  BY <1>3 DEF SubmitClose
<1> HIDE DEF order
<1>6. account' \in Int
  BY <1>2, <1>3, <1>5
<1>7. (account > 0 /\ order.side = -1) \/ (account < 0 /\ order.side = 1)
  BY <1>2, <1>3, <1>5
<1>8. ~(account * account' < 0) /\ ~(Abs(account') > Abs(account))
  <2>1. CASE account > 0 /\ order.side = -1
    <3>1. account' = account - order.executed /\ order.executed <= account
      BY <2>1, <1>2, <1>3, <1>5, AbsIsNat
    <3>2. account' >= 0 /\ account' <= account
      BY <3>1, <1>2, <1>3
    <3> QED BY <3>2, <2>1, <1>2, <1>6, TowardsZero
  <2>2. CASE account < 0 /\ order.side = 1
    <3>1. account' = account + order.executed /\ order.executed <= -account
      BY <2>2, <1>2, <1>3, <1>5, AbsIsNat
    <3>2. account' <= 0 /\ account' >= account
      BY <3>1, <1>2, <1>3
    <3> QED BY <3>2, <2>2, <1>2, <1>6, TowardsZero
  <2> QED BY <1>7, <2>1, <2>2
<1>9. reversed' = FALSE
  BY <1>8, Zenon DEF SubmitClose, KeepingInv, ClosesOnlyReduce
<1>10. orders' \in Seq(OrdersAtExchange)
  BY <1>4, OrdersGrow DEF SubmitClose, KeepingInv, CopiesArePositions, order
<1>11. copy' = copy
  BY DEF SubmitClose
<1> QED BY <1>6, <1>9, <1>10, <1>11 DEF KeepingInv, CopiesArePositions, ClosesOnlyReduce

LEMMA KeepingStep == KeepingInv /\ [KeepingNext]_keepingVars => KeepingInv'
<1> SUFFICES ASSUME KeepingInv, [KeepingNext]_keepingVars PROVE KeepingInv'
  OBVIOUS
<1> USE KeepingAssumption
<1>1. CASE EnterPosition
  <2>1. PICK side \in Sides, quantity \in 1..MaxQuantity, rest \in 0..1 :
            /\ rest < quantity
            /\ Submits([side |-> side, executed |-> quantity - rest, open |-> rest,
                        reduce_only |-> FALSE, close_position |-> FALSE])
            /\ account' = account + side * (quantity - rest)
            /\ UNCHANGED <<copy, reversed>>
    BY <1>1 DEF EnterPosition
  <2>2. quantity - rest \in Nat /\ rest \in Nat /\ side \in {1, -1}
    BY <2>1 DEF Sides
  <2>3. [side |-> side, executed |-> quantity - rest, open |-> rest,
         reduce_only |-> FALSE, close_position |-> FALSE] \in OrdersAtExchange
    BY <2>2 DEF OrdersAtExchange, Sides
  <2>4. orders' \in Seq(OrdersAtExchange)
    BY <2>1, <2>3, OrdersGrow DEF KeepingInv, CopiesArePositions
  <2>5. account' \in Int
    BY <2>1, <2>2 DEF KeepingInv, CopiesArePositions
  <2> QED BY <2>1, <2>4, <2>5 DEF KeepingInv, CopiesArePositions, ClosesOnlyReduce
<1>2. CASE FillRest
  <2>1. PICK i \in DOMAIN orders : Fills(i, orders[i].open) /\ UNCHANGED <<copy, reversed>>
    BY <1>2 DEF FillRest
  <2>2. orders[i].open \in Nat
    <3>1. orders[i] \in OrdersAtExchange
      BY DEF KeepingInv, CopiesArePositions
    <3> QED BY <3>1 DEF OrdersAtExchange
  <2>3. account' \in Int /\ orders' \in Seq(OrdersAtExchange)
    BY <2>1, <2>2, FillsKeepTypes DEF KeepingInv, CopiesArePositions
  <2> QED BY <2>1, <2>3 DEF KeepingInv, CopiesArePositions, ClosesOnlyReduce
<1>3. CASE PlaceProtection
  <2> DEFINE order == [side |-> IF account > 0 THEN -1 ELSE 1, executed |-> 0, open |-> 0,
                       reduce_only |-> TRUE, close_position |-> TRUE]
  <2>1. order \in OrdersAtExchange
    BY DEF OrdersAtExchange, Sides
  <2>2. Submits(order) /\ UNCHANGED <<account, copy, reversed>>
    BY <1>3 DEF PlaceProtection
  <2>3. orders' \in Seq(OrdersAtExchange)
    BY <2>1, <2>2, OrdersGrow DEF KeepingInv, CopiesArePositions
  <2> QED BY <2>2, <2>3 DEF KeepingInv, CopiesArePositions, ClosesOnlyReduce
<1>4. CASE TriggerProtection
  <2>1. PICK i \in DOMAIN orders : Fills(i, Abs(account)) /\ UNCHANGED <<copy, reversed>>
    BY <1>4 DEF TriggerProtection
  <2>2. Abs(account) \in Nat
    BY AbsIsNat DEF KeepingInv, CopiesArePositions
  <2>3. account' \in Int /\ orders' \in Seq(OrdersAtExchange)
    BY <2>1, <2>2, FillsKeepTypes DEF KeepingInv, CopiesArePositions
  <2> QED BY <2>1, <2>3 DEF KeepingInv, CopiesArePositions, ClosesOnlyReduce
<1>5. CASE \E k \in Keepers : TakeCopy(k)
  <2>1. PICK k \in Keepers : TakeCopy(k)
    BY <1>5
  <2>2. [direction |-> IF account > 0 THEN 1 ELSE -1, quantity |-> Abs(account)] \in HeldPositions
    BY AbsIsNat DEF KeepingInv, CopiesArePositions, HeldPositions, Sides
  <2>3. copy' \in [Keepers -> HeldPositions]
    BY <2>1, <2>2 DEF TakeCopy, KeepingInv, CopiesArePositions
  <2> QED BY <2>1, <2>3 DEF TakeCopy, KeepingInv, CopiesArePositions, ClosesOnlyReduce
<1>6. CASE \E k \in Keepers : ClosePosition(k)
  BY <1>6, CloseReduces DEF ClosePosition
<1>7. CASE \E k \in Keepers : ManageOpenPosition(k)
  <2>1. PICK k \in Keepers, signal \in Sides \union {0} :
            /\ copy[k].quantity > 0
            /\ IF signal = -copy[k].direction THEN SubmitClose(k) ELSE UNCHANGED keepingVars
    BY <1>7 DEF ManageOpenPosition
  <2>2. CASE SubmitClose(k)
    BY <2>1, <2>2, CloseReduces
  <2>3. CASE UNCHANGED keepingVars
    BY <2>3 DEF keepingVars, KeepingInv, CopiesArePositions, ClosesOnlyReduce
  <2> QED BY <2>1, <2>2, <2>3
<1>8. CASE \E k \in Keepers : SyncPosition(k)
  <2>1. PICK k \in Keepers, applied \in HeldPositions :
            copy' = [copy EXCEPT ![k] = applied] /\ UNCHANGED <<account, orders, reversed>>
    BY <1>8 DEF SyncPosition
  <2> QED BY <2>1 DEF KeepingInv, CopiesArePositions, ClosesOnlyReduce
<1>9. CASE UNCHANGED keepingVars
  BY <1>9 DEF keepingVars, KeepingInv, CopiesArePositions, ClosesOnlyReduce
<1> QED BY <1>1, <1>2, <1>3, <1>4, <1>5, <1>6, <1>7, <1>8, <1>9 DEF KeepingNext

(* No close from a copy turns the account around or grows it, however far   *)
(* the account has moved on: closing and managing a position, and the       *)
(* reduce-only orders they submit.                                          *)
THEOREM ClosesStayReducing == KeepingSpec => []ClosesOnlyReduce
<1>1. KeepingInit => KeepingInv
  BY DEF KeepingInit, KeepingInv, CopiesArePositions, ClosesOnlyReduce, HeldPositions, Sides
<1>2. KeepingInv => ClosesOnlyReduce
  BY DEF KeepingInv
<1> QED BY <1>1, <1>2, KeepingStep, PTL DEF KeepingSpec

-----------------------------------------------------------------------------
(* What a copy is after a sync *)

AccountOf(seq, t) ==
    FoldLeft(LAMBDA sum, order : sum + order.side * order.executed, 0, SubSeq(seq, 1, t))

Moved(order) == order.side * order.executed

(* What an order moved, as the fold adds it up.                             *)
LEMMA SumTrace ==
    ASSUME NEW seq \in Seq(OrdersAtExchange)
    PROVE  \E T : /\ T[0] = 0
                  /\ FoldLeft(LAMBDA sum, order : sum + order.side * order.executed, 0, seq)
                        = T[Len(seq)]
                  /\ \A k \in 0..Len(seq) : T[k] \in Int
                  /\ \A k \in 1..Len(seq) : T[k] = T[k - 1] + Moved(seq[k])
<1> DEFINE n == Len(seq)
           add == [k \in 1..n |-> Moved(seq[k])]
           step == [z \in (1..n) \X Int |-> z[2] + add[z[1]]]
           Iter(f) == f = [s \in SUBSET (1..n) |->
                            IF s = {} THEN 0
                            ELSE f[s \ {Max(s)}] + seq[Max(s)].side * seq[Max(s)].executed]
           V == Int
           zero == 0
           largest == [s \in SUBSET (1..n) |-> Max(s)]
<1>1. n \in Nat /\ DOMAIN seq = 1..n
  OBVIOUS
<1>2. \A k \in 1..n : add[k] \in Int /\ add[k] = Moved(seq[k])
  <2> SUFFICES ASSUME NEW k \in 1..n PROVE seq[k].side * seq[k].executed \in Int
    BY DEF Moved
  <2>1. seq[k] \in OrdersAtExchange
    OBVIOUS
  <2>2. seq[k].side \in Int /\ seq[k].executed \in Int
    BY <2>1 DEF OrdersAtExchange, Sides
  <2> QED
    BY <2>2
<1> HIDE DEF add
<1>3. \A k \in 1..n, v \in Int : step[<<k, v>>] = v + add[k] /\ step[<<k, v>>] \in Int
  BY <1>2
<1> HIDE DEF n, step
<1>4. zero \in V /\ \A k \in 1..n, v \in V : step[<<k, v>>] \in V
  BY <1>3
<1> HIDE DEF V, zero
<1>5. PICK f : IsFold(f, 1..n, V, zero, largest, step)
  BY <1>1, <1>4, LeftFoldsExist
<1>6. ASSUME NEW s \in SUBSET (1..n), s # {}
      PROVE  f[s] = f[s \ {Max(s)}] + seq[Max(s)].side * seq[Max(s)].executed
  <2>1. Max(s) \in 1..n /\ s \ {Max(s)} \in SUBSET (1..n) /\ largest[s] = Max(s)
    BY <1>1, <1>6, LargestOfNats
  <2>2. f[s] = step[<<Max(s), f[s \ {Max(s)}]>>] /\ f[s \ {Max(s)}] \in Int
    BY <1>5, <1>6, <2>1 DEF IsFold, V
  <2> QED
    BY <1>2, <1>3, <2>1, <2>2 DEF Moved
<1>7. Iter(f)
  BY <1>5, <1>6 DEF IsFold, zero
<1> DEFINE iter == CHOOSE g : Iter(g)
<1>8. Iter(iter)
  BY <1>7
<1>9. FoldLeft(LAMBDA sum, order : sum + order.side * order.executed, 0, seq) = iter[1..n]
  BY <1>1 DEF FoldLeft, MapThenFoldSet
<1> HIDE DEF iter
<1> DEFINE T == [k \in 0..n |-> iter[1..k]]
<1>10. T[0] = 0
  <2>1. 1..0 = {} /\ {} \in SUBSET (1..n)
    OBVIOUS
  <2> QED
    BY <1>1, <1>8, <2>1
<1>11. ASSUME NEW k \in 1..n
       PROVE  T[k] = T[k - 1] + Moved(seq[k])
  <2>1. 1..k \in SUBSET (1..n) /\ k \in Nat /\ k > 0 /\ k - 1 \in 0..n /\ k \in 0..n
    BY <1>1
  <2>2. Max(1..k) = k /\ (1..k) \ {k} = 1..(k - 1) /\ 1..k # {}
    BY <2>1, LargestOfInterval
  <2>3. iter[1..k] = iter[1..(k - 1)] + Moved(seq[k])
    BY <1>8, <2>1, <2>2 DEF Moved
  <2> QED
    BY <2>1, <2>3
<1>12. iter[1..n] = T[n]
  BY <1>1
<1> HIDE DEF T
<1>13. ASSUME NEW k \in 1..n, T[k - 1] \in Int PROVE T[k] \in Int
  BY <1>2, <1>11, <1>13
<1>14. T[0] \in V /\ \A k \in 1..n : T[k - 1] \in V => T[k] \in V
  BY <1>10, <1>13 DEF V
<1>15. \A k \in 0..n : T[k] \in V
  BY <1>1, <1>14, TraceType
<1> QED
  BY <1>9, <1>10, <1>11, <1>12, <1>15 DEF n, V

(* An account grows order by order.                                         *)
LEMMA AccountSteps ==
    ASSUME NEW seq \in Seq(OrdersAtExchange)
    PROVE  /\ AccountOf(seq, 0) = 0
           /\ \A t \in 0..Len(seq) : AccountOf(seq, t) \in Int
           /\ \A t \in 1..Len(seq) : AccountOf(seq, t) = AccountOf(seq, t - 1) + Moved(seq[t])
<1> DEFINE Sum(s) == FoldLeft(LAMBDA sum, order : sum + order.side * order.executed, 0, s)
           Start(t) == SubSeq(seq, 1, t)
<1>1. ASSUME NEW t \in 0..Len(seq)
      PROVE  /\ Start(t) \in Seq(OrdersAtExchange) /\ Len(Start(t)) = t
             /\ \A k \in 1..t : Start(t)[k] = seq[k]
  BY SubSeqProperties
<1>2. \A t : AccountOf(seq, t) = Sum(Start(t))
  BY DEF AccountOf
<1> HIDE DEF Start
<1>3. ASSUME NEW t \in 0..Len(seq)
      PROVE  \E T : /\ T[0] = 0 /\ Sum(Start(t)) = T[t]
                    /\ \A k \in 0..t : T[k] \in Int
                    /\ \A k \in 1..t : T[k] = T[k - 1] + Moved(seq[k])
  <2> DEFINE s == Start(t)
  <2>1. s \in Seq(OrdersAtExchange) /\ Len(s) = t /\ \A k \in 1..t : s[k] = seq[k]
    BY <1>1
  <2> HIDE DEF s
  <2>2. PICK T : /\ T[0] = 0 /\ Sum(s) = T[Len(s)]
                 /\ \A k \in 0..Len(s) : T[k] \in Int
                 /\ \A k \in 1..Len(s) : T[k] = T[k - 1] + Moved(s[k])
    BY <2>1, SumTrace
  <2>3. \A k \in 1..t : T[k] = T[k - 1] + Moved(seq[k])
    BY <2>1, <2>2
  <2> QED
    BY <2>1, <2>2, <2>3 DEF s
<1> HIDE DEF Sum
<1>4. AccountOf(seq, 0) = 0
  BY <1>2, <1>3
<1>5. ASSUME NEW t \in 1..Len(seq)
      PROVE  AccountOf(seq, t) = AccountOf(seq, t - 1) + Moved(seq[t])
  <2>1. t \in 0..Len(seq) /\ t - 1 \in 0..Len(seq) /\ t - 1 \in Nat
    OBVIOUS
  <2>2. PICK T : /\ T[0] = 0 /\ Sum(Start(t)) = T[t]
                 /\ \A k \in 1..t : T[k] = T[k - 1] + Moved(seq[k])
    BY <1>3, <2>1, SMTT(30)
  <2>3. PICK S : /\ S[0] = 0 /\ Sum(Start(t - 1)) = S[t - 1]
                 /\ \A k \in 1..(t - 1) : S[k] = S[k - 1] + Moved(seq[k])
    BY <1>3, <2>1, SMTT(30)
  <2> DEFINE m == t - 1
  <2>4. GoOnAlike(S, T, m)
    BY <2>1, <2>2, <2>3 DEF GoOnAlike
  <2>5. m \in 0..m
    BY <2>1
  <2> HIDE DEF m
  <2>6. S[m] = T[m]
    <3>1. \A k \in 0..m : S[k] = T[k]
      BY ONLY <2>4, TracesAgree
    <3> QED
      BY <2>5, <3>1
  <2> QED
    BY <1>2, <2>2, <2>3, <2>6 DEF m
<1> QED
  BY <1>2, <1>3, <1>4, <1>5

LEMMA MovedIsInt ==
    ASSUME NEW seq \in Seq(OrdersAtExchange), NEW i \in 1..Len(seq)
    PROVE  /\ seq[i] \in OrdersAtExchange /\ Moved(seq[i]) \in Int
           /\ seq[i].side \in {1, -1} /\ seq[i].executed \in Nat /\ seq[i].open \in Nat
           /\ seq[i].reduce_only \in BOOLEAN /\ seq[i].close_position \in BOOLEAN
           /\ seq[i].side = 1 => Moved(seq[i]) = seq[i].executed
           /\ seq[i].side = -1 => Moved(seq[i]) = -seq[i].executed
<1>1. seq[i] \in OrdersAtExchange
  OBVIOUS
<1>2. seq[i].side \in {1, -1} /\ seq[i].executed \in Nat
  BY <1>1 DEF OrdersAtExchange, Sides
<1>3. /\ seq[i].side = 1 => Moved(seq[i]) = seq[i].executed
      /\ seq[i].side = -1 => Moved(seq[i]) = -seq[i].executed
  BY <1>2 DEF Moved
<1> QED
  BY <1>1, <1>2, <1>3 DEF OrdersAtExchange

LEMMA AccountsAgree ==
    ASSUME NEW seq \in Seq(OrdersAtExchange), NEW other \in Seq(OrdersAtExchange),
           NEW t \in Nat, t <= Len(seq), t <= Len(other),
           \A k \in 1..t : Moved(seq[k]) = Moved(other[k])
    PROVE  AccountOf(seq, t) = AccountOf(other, t)
<1> DEFINE S == [k \in 0..t |-> AccountOf(seq, k)]
           T == [k \in 0..t |-> AccountOf(other, k)]
<1>1. S[0] = T[0]
  BY AccountSteps
<1>2. ASSUME NEW k \in 1..t, S[k - 1] = T[k - 1]
      PROVE  S[k] = T[k]
  <2>1. k \in 1..Len(seq) /\ k \in 1..Len(other) /\ k \in 0..t /\ k - 1 \in 0..t
    OBVIOUS
  <2>2. AccountOf(seq, k) = AccountOf(seq, k - 1) + Moved(seq[k])
    BY <2>1, AccountSteps
  <2>3. AccountOf(other, k) = AccountOf(other, k - 1) + Moved(other[k])
    BY <2>1, AccountSteps
  <2> QED
    BY <1>2, <2>1, <2>2, <2>3
<1>3. t \in 0..t /\ S[t] = AccountOf(seq, t) /\ T[t] = AccountOf(other, t)
  OBVIOUS
<1> HIDE DEF S, T
<1>4. S[t] = T[t]
  <2>1. GoOnAlike(S, T, t)
    BY <1>1, <1>2 DEF GoOnAlike
  <2>2. \A k \in 0..t : S[k] = T[k]
    BY ONLY <2>1, TracesAgree
  <2> QED
    BY <1>3, <2>2
<1> QED
  BY <1>3, <1>4

(* An order that fills later raises the account from its time on.           *)
LEMMA AccountRaised ==
    ASSUME NEW seq \in Seq(OrdersAtExchange), NEW other \in Seq(OrdersAtExchange),
           Len(other) = Len(seq), NEW i \in 1..Len(seq), NEW d \in Int,
           Moved(other[i]) = Moved(seq[i]) + d,
           \A k \in 1..Len(seq) : k # i => Moved(other[k]) = Moved(seq[k])
    PROVE  AccountOf(other, Len(seq)) = AccountOf(seq, Len(seq)) + d
<1> DEFINE n == Len(seq)
           S == [k \in 0..n |-> AccountOf(other, k)]
           T == [k \in 0..n |-> AccountOf(seq, k) + (IF k >= i THEN d ELSE 0)]
<1>1. n \in Nat /\ n >= i /\ i \in 1..n
  OBVIOUS
<1>2. S[0] = T[0]
  BY AccountSteps
<1>3. ASSUME NEW k \in 1..n, S[k - 1] = T[k - 1]
      PROVE  S[k] = T[k]
  <2>1. k \in 1..Len(other) /\ k \in 0..n /\ k - 1 \in 0..n
    OBVIOUS
  <2>2. AccountOf(seq, k) = AccountOf(seq, k - 1) + Moved(seq[k]) /\ AccountOf(seq, k - 1) \in Int
    BY <2>1, AccountSteps
  <2>3. AccountOf(other, k) = AccountOf(other, k - 1) + Moved(other[k])
    BY <2>1, AccountSteps
  <2>4. Moved(seq[k]) \in Int
    BY MovedIsInt
  <2>5. AccountOf(other, k - 1) = AccountOf(seq, k - 1) + (IF k - 1 >= i THEN d ELSE 0)
    BY <1>3, <2>1
  <2>6. CASE k = i
    BY <2>1, <2>2, <2>3, <2>4, <2>5, <2>6
  <2>7. CASE k # i
    <3>1. Moved(other[k]) = Moved(seq[k])
      BY <2>7
    <3>2. (k >= i) <=> (k - 1 >= i)
      BY <2>7
    <3> QED
      BY <2>1, <2>2, <2>3, <2>4, <2>5, <3>1, <3>2
  <2> QED
    BY <2>6, <2>7
<1>4. n \in 0..n /\ S[n] = AccountOf(other, n) /\ T[n] = AccountOf(seq, n) + d
  BY <1>1
<1> HIDE DEF S, T, n
<1>5. S[n] = T[n]
  <2>1. GoOnAlike(S, T, n)
    BY <1>1, <1>2, <1>3 DEF GoOnAlike
  <2>2. \A k \in 0..n : S[k] = T[k]
    BY ONLY <2>1, TracesAgree
  <2> QED
    BY <1>4, <2>2
<1> QED
  BY <1>4, <1>5 DEF n

-----------------------------------------------------------------------------
Copies == HeldPositions \union {Broken}

LEMMA ReportKeepsCopies ==
    ASSUME NEW p \in Copies, NEW order \in OrdersAtExchange
    PROVE  ApplyReport(p, order) \in Copies
BY DEF ApplyReport, Copies, HeldPositions, Broken, OrdersAtExchange, Sides

(* The reports of a sequence of orders, applied one by one.                 *)
LEMMA ReportTrace ==
    ASSUME NEW seq \in Seq(OrdersAtExchange), NEW p \in Copies
    PROVE  \E T : /\ T[0] = p
                  /\ FoldLeft(ApplyReport, p, seq) = T[Len(seq)]
                  /\ \A k \in 0..Len(seq) : T[k] \in Copies
                  /\ \A k \in 1..Len(seq) : T[k] = ApplyReport(T[k - 1], seq[k])
<1> DEFINE n == Len(seq)
           step == [z \in (1..n) \X Copies |-> ApplyReport(z[2], seq[z[1]])]
           Iter(f) == f = [s \in SUBSET (1..n) |->
                            IF s = {} THEN p
                            ELSE ApplyReport(f[s \ {Max(s)}], seq[Max(s)])]
           largest == [s \in SUBSET (1..n) |-> Max(s)]
<1>1. n \in Nat /\ DOMAIN seq = 1..n
  OBVIOUS
<1>2. \A k \in 1..n : seq[k] \in OrdersAtExchange
  OBVIOUS
<1>3. \A k \in 1..n, v \in Copies :
        step[<<k, v>>] = ApplyReport(v, seq[k]) /\ step[<<k, v>>] \in Copies
  BY <1>2, ReportKeepsCopies
<1> HIDE DEF n, step
<1>4. PICK f : IsFold(f, 1..n, Copies, p, largest, step)
  BY <1>1, <1>3, LeftFoldsExist
<1>5. ASSUME NEW s \in SUBSET (1..n), s # {}
      PROVE  f[s] = ApplyReport(f[s \ {Max(s)}], seq[Max(s)])
  <2>1. Max(s) \in 1..n /\ s \ {Max(s)} \in SUBSET (1..n) /\ largest[s] = Max(s)
    BY <1>1, <1>5, LargestOfNats
  <2>2. f[s] = step[<<Max(s), f[s \ {Max(s)}]>>] /\ f[s \ {Max(s)}] \in Copies
    BY <1>4, <1>5, <2>1 DEF IsFold
  <2> QED
    BY <1>3, <2>1, <2>2
<1>6. Iter(f)
  BY <1>4, <1>5 DEF IsFold
<1> DEFINE iter == CHOOSE g : Iter(g)
<1>7. Iter(iter)
  BY <1>6
<1>8. FoldLeft(ApplyReport, p, seq) = iter[1..n]
  BY <1>1 DEF FoldLeft, MapThenFoldSet
<1> HIDE DEF iter
<1> DEFINE T == [k \in 0..n |-> iter[1..k]]
<1>9. T[0] = p
  <2>1. 1..0 = {} /\ {} \in SUBSET (1..n)
    OBVIOUS
  <2> QED
    BY <1>1, <1>7, <2>1
<1>10. ASSUME NEW k \in 1..n
       PROVE  T[k] = ApplyReport(T[k - 1], seq[k])
  <2>1. 1..k \in SUBSET (1..n) /\ k \in Nat /\ k > 0 /\ k - 1 \in 0..n /\ k \in 0..n
    BY <1>1
  <2>2. Max(1..k) = k /\ (1..k) \ {k} = 1..(k - 1) /\ 1..k # {}
    BY <2>1, LargestOfInterval
  <2>3. iter[1..k] = ApplyReport(iter[1..(k - 1)], seq[k])
    BY <1>7, <2>1, <2>2
  <2> QED
    BY <2>1, <2>3
<1>11. iter[1..n] = T[n]
  BY <1>1
<1> HIDE DEF T
<1>12. \A k \in 0..n : T[k] \in Copies
  <2>1. \A k \in 1..n : T[k - 1] \in Copies => T[k] \in Copies
    BY <1>2, <1>10, ReportKeepsCopies DEF n
  <2> QED
    BY <1>1, <1>9, <2>1, TraceType
<1> QED
  BY <1>8, <1>9, <1>10, <1>11, <1>12 DEF n

(* Order i opened, and in the direction d.                                  *)
Opens(all, i, d) == ~all[i].reduce_only /\ all[i].side = d /\ all[i].executed > 0
Turned(all, d, t, u) == \E i \in t..u : Opens(all, i, d)

BrokenStays == \A order : ApplyReport(Broken, order) = Broken

(* A report that is applied moves the copy as it moved the account, unless  *)
(* it reduced a position of the other side.                                 *)
LEMMA OneReport ==
    ASSUME NEW p \in HeldPositions, NEW order \in OrdersAtExchange,
           ApplyReport(p, order) # Broken,
           ~(order.reduce_only /\ order.side = p.direction)
    PROVE  LET a == ApplyReport(p, order) IN
           /\ a \in HeldPositions /\ a.direction = p.direction
           /\ p.direction * a.quantity = p.direction * p.quantity + Moved(order)
           /\ ~(~order.reduce_only /\ order.side = -p.direction /\ order.executed > 0)
<1> DEFINE a == ApplyReport(p, order)
           q == p.quantity
           e == order.executed
<1>1. /\ p.direction \in {1, -1} /\ q \in Nat /\ order.side \in {1, -1} /\ e \in Nat
      /\ order.reduce_only \in BOOLEAN
      /\ p = [direction |-> p.direction, quantity |-> q]
  BY DEF HeldPositions, OrdersAtExchange, Sides
<1>2. p # Broken
  BY <1>1 DEF Broken
<1>3. CASE e = 0
  <2>1. a = p /\ Moved(order) = 0
    BY <1>1, <1>3 DEF ApplyReport, Moved
  <2> QED
    BY <1>1, <1>3, <2>1
<1>4. CASE e # 0
  <2>1. q # 0
    BY <1>2, <1>4 DEF ApplyReport
  <2>2. CASE order.reduce_only
    <3>1. e <= q /\ a = [p EXCEPT !.quantity = q - e]
      BY <1>1, <1>2, <1>4, <2>1, <2>2 DEF ApplyReport
    <3>2. a.direction = p.direction /\ a.quantity = q - e /\ q - e \in Nat
      BY <1>1, <3>1
    <3>3. a \in HeldPositions
      BY <3>1, <3>2 DEF HeldPositions
    <3>4. order.side = -p.direction
      BY <1>1, <2>2
    <3>5. p.direction * (q - e) = p.direction * q + order.side * e
      BY <1>1, <3>4
    <3> QED
      BY <2>2, <3>2, <3>3, <3>5 DEF Moved
  <2>3. CASE ~order.reduce_only
    <3>1. order.side = p.direction /\ a = [p EXCEPT !.quantity = q + e]
      BY <1>1, <1>2, <1>4, <2>1, <2>3 DEF ApplyReport
    <3>2. a.direction = p.direction /\ a.quantity = q + e /\ q + e \in Nat
      BY <1>1, <3>1
    <3>3. a \in HeldPositions
      BY <3>1, <3>2 DEF HeldPositions
    <3>4. p.direction * (q + e) = p.direction * q + order.side * e
      BY <1>1, <3>1
    <3>5. order.side # -p.direction
      BY <1>1, <3>1
    <3> QED
      BY <3>2, <3>3, <3>4, <3>5 DEF Moved
  <2> QED
    BY <2>2, <2>3
<1> QED
  BY <1>3, <1>4

LEMMA BrokenKeeps == BrokenStays
BY DEF BrokenStays, ApplyReport

(* A sync over orders that did not reduce the other side moves the copy as  *)
(* those orders moved the account, or raises.                               *)
Synced(p, since, until, applied) ==
    /\ orders \in Seq(OrdersAtExchange) /\ p \in HeldPositions /\ applied \in HeldPositions
    /\ since \in Nat /\ since > 0 /\ until \in since..Len(orders)
    /\ \A j \in since..until : (orders[j].reduce_only /\ orders[j].side = p.direction)
            => Turned(orders, -p.direction, since, j - 1)
    /\ applied = FoldLeft(ApplyReport, p, SubSeq(orders, since, until))

LEMMA SyncIsExact ==
    ASSUME NEW p, NEW since, NEW until, NEW applied, Synced(p, since, until, applied)
    PROVE  /\ applied.direction = p.direction
           /\ p.direction * applied.quantity
                = p.direction * p.quantity + AccountOf(orders, until) - AccountOf(orders, since - 1)
           /\ \A i \in since..until : ~Opens(orders, i, -p.direction)
<1> DEFINE seq == SubSeq(orders, since, until)
           n == until - since + 1
           d == p.direction
           A(k) == AccountOf(orders, k)
<1>0. /\ orders \in Seq(OrdersAtExchange) /\ p \in HeldPositions /\ applied \in HeldPositions
      /\ since \in Nat /\ since > 0 /\ until \in since..Len(orders)
      /\ \A j \in since..until : (orders[j].reduce_only /\ orders[j].side = p.direction)
              => Turned(orders, -p.direction, since, j - 1)
      /\ applied = FoldLeft(ApplyReport, p, SubSeq(orders, since, until))
  BY DEF Synced
<1> USE <1>0
<1>1. /\ n \in Nat /\ since + n - 1 = until /\ until <= Len(orders)
      /\ until \in Nat /\ until >= since
  OBVIOUS
<1>2. /\ seq \in Seq(OrdersAtExchange) /\ Len(seq) = n
      /\ \A k \in 1..n : seq[k] = orders[since + k - 1]
  <2>1. \A k \in since..until : orders[k] \in OrdersAtExchange
    OBVIOUS
  <2>2. /\ seq \in Seq(OrdersAtExchange)
        /\ Len(seq) = IF since <= until THEN until - since + 1 ELSE 0
        /\ \A i \in 1 .. until - since + 1 : seq[i] = orders[since + i - 1]
    BY <2>1, SubSeqProperties
  <2> QED
    BY <1>1, <2>2
<1>3. p \in Copies
  BY DEF Copies
<1> HIDE DEF seq
<1>4. PICK T : /\ T[0] = p
               /\ FoldLeft(ApplyReport, p, seq) = T[Len(seq)]
               /\ \A k \in 0..Len(seq) : T[k] \in Copies
               /\ \A k \in 1..Len(seq) : T[k] = ApplyReport(T[k - 1], seq[k])
  BY <1>2, <1>3, ReportTrace
<1>5. \A k \in 0..Len(orders) : A(k) \in Int
  BY AccountSteps
<1>6. d \in {1, -1} /\ p.quantity \in Nat
  BY DEF HeldPositions, Sides
<1> HIDE DEF A, n
<1> DEFINE Good(k) ==
              \/ T[k] = Broken
              \/ /\ T[k] \in HeldPositions /\ T[k].direction = d
                 /\ d * T[k].quantity = d * p.quantity + A(since + k - 1) - A(since - 1)
                 /\ \A i \in since..(since + k - 1) : ~Opens(orders, i, -d)
           R == {k \in Nat : k <= n => Good(k)}
<1>7. 0 \in R
  <2>1. A(since - 1) \in Int /\ since + 0 - 1 = since - 1
    BY <1>1, <1>5
  <2>2. d * p.quantity \in Int
    BY <1>6
  <2>3. \A i \in since..(since + 0 - 1) : FALSE
    OBVIOUS
  <2> QED
    BY <1>4, <2>1, <2>2, <2>3
<1>8. ASSUME NEW k \in Nat, k \in R PROVE k + 1 \in R
  <2> SUFFICES ASSUME k + 1 <= n PROVE Good(k + 1)
    OBVIOUS
  <2>1. /\ k <= n /\ k + 1 \in 1..n /\ (k + 1) - 1 = k /\ k \in 0..n /\ k + 1 \in 0..n
        /\ since + k \in since..until
        /\ since + (k + 1) - 1 = since + k /\ (since + k) - 1 = since + k - 1
        /\ since + k \in 1..Len(orders) /\ since + k - 1 \in 0..Len(orders)
        /\ since - 1 \in 0..Len(orders)
    BY <1>1 DEF n
  <2>2. T[k + 1] = ApplyReport(T[k], orders[since + k])
    BY <1>2, <1>4, <2>1
  <2>3. CASE T[k] = Broken
    BY <2>2, <2>3, BrokenKeeps DEF BrokenStays
  <2>4. CASE T[k] # Broken /\ T[k + 1] # Broken
    <3>1. /\ T[k] \in HeldPositions /\ T[k].direction = d
          /\ d * T[k].quantity = d * p.quantity + A(since + k - 1) - A(since - 1)
          /\ \A i \in since..(since + k - 1) : ~Opens(orders, i, -d)
      BY <1>8, <2>1, <2>4
    <3>2. ~(orders[since + k].reduce_only /\ orders[since + k].side = d)
      <4>1. ~Turned(orders, -d, since, since + k - 1)
        BY <3>1 DEF Turned
      <4> QED
        BY <2>1, <4>1
    <3>3. orders[since + k] \in OrdersAtExchange /\ Moved(orders[since + k]) \in Int
      BY <2>1, MovedIsInt
    <3>4. /\ T[k + 1] \in HeldPositions /\ T[k + 1].direction = d
          /\ d * T[k + 1].quantity = d * T[k].quantity + Moved(orders[since + k])
          /\ ~Opens(orders, since + k, -d)
      BY <2>2, <2>4, <3>1, <3>2, <3>3, OneReport DEF Opens
    <3>5. A(since + k) = A(since + k - 1) + Moved(orders[since + k])
      BY <2>1, AccountSteps DEF A
    <3>6. d * T[k + 1].quantity = d * p.quantity + A(since + k) - A(since - 1)
      <4> DEFINE x == d * T[k + 1].quantity
                 y == d * T[k].quantity
                 z == d * p.quantity
      <4>1. A(since + k - 1) \in Int /\ A(since - 1) \in Int /\ z \in Int
        BY <1>5, <1>6, <2>1
      <4>2. x = y + Moved(orders[since + k]) /\ y = z + A(since + k - 1) - A(since - 1)
        BY <3>1, <3>4
      <4> HIDE DEF x, y, z
      <4>3. x = z + A(since + k) - A(since - 1)
        <5> DEFINE a == A(since + k)
                   b == A(since + k - 1)
                   e == A(since - 1)
                   m == Moved(orders[since + k])
        <5>1. b \in Int /\ e \in Int /\ m \in Int /\ z \in Int
          BY <3>3, <4>1
        <5>2. x = y + m /\ y = z + b - e /\ a = b + m
          BY <3>5, <4>2
        <5> HIDE DEF a, b, e, m
        <5>3. x = z + a - e
          BY <5>1, <5>2
        <5> QED
          BY <5>3 DEF a, e
      <4> QED
        BY <4>3 DEF x, z
    <3>7. \A i \in since..(since + k) : ~Opens(orders, i, -d)
      BY <2>1, <3>1, <3>4
    <3> QED
      BY <2>1, <3>4, <3>6, <3>7
  <2> QED
    BY <2>3, <2>4
<1> HIDE DEF R
<1>9. Nat \subseteq R
  BY <1>7, <1>8, Induction
<1>10. Good(n)
  BY <1>1, <1>9 DEF R
<1>11. T[n] = applied /\ applied # Broken
  BY <1>2, <1>4 DEF seq, HeldPositions, Broken, Sides
<1> QED
  BY <1>1, <1>10, <1>11 DEF A

(* From a to b the account moves towards zero.                              *)
Reduces(a, b) == (a > 0 /\ 0 <= b /\ b <= a) \/ (a < 0 /\ a <= b /\ b <= 0)

(* An account that comes to stand against d was moved by an order of the    *)
(* other side, and one that did not reduce.                                 *)
LEMMA Turning ==
    ASSUME NEW a \in Int, NEW d \in {1, -1}, NEW side \in {1, -1}, NEW q \in Nat, NEW b \in Int
    PROVE  b = a + side * q /\ ~(a * d < 0) /\ b * d < 0 => side + d = 0 /\ q > 0 /\ ~Reduces(a, b)
<1>1. ASSUME b = a + side * q, ~(a * d < 0), b * d < 0, d = 1
      PROVE  side + d = 0 /\ q > 0 /\ ~Reduces(a, b)
  <2>1. a >= 0 /\ b < 0
    BY <1>1
  <2>2. side # 1
    BY <1>1, <2>1
  <2>3. side = -1 /\ b = a - q
    BY <1>1, <2>2
  <2>4. side + d = 0
    BY <1>1, <2>3
  <2> QED BY <2>1, <2>3, <2>4 DEF Reduces
<1>2. ASSUME b = a + side * q, ~(a * d < 0), b * d < 0, d = -1
      PROVE  side + d = 0 /\ q > 0 /\ ~Reduces(a, b)
  <2>1. a <= 0 /\ b > 0
    BY <1>2
  <2>2. side # -1
    BY <1>2, <2>1
  <2>3. side = 1 /\ b = a + q
    BY <1>2, <2>2
  <2>4. d = -1 /\ d \in Int
    BY <1>2
  <2>5. side + d = 0
    BY <2>3, <2>4
  <2> QED BY <2>1, <2>3, <2>5 DEF Reduces
<1> QED BY <1>1, <1>2

(* A copy that is in step is the account as of its last sync; when the      *)
(* account has come to stand against it, or an order that reduces the other *)
(* side was placed since, then an entry of the other side came before: a    *)
(* sync over that entry raises.                                             *)
CopyOK(k) ==
    ~blurred[k] /\ synced[k] > 0 =>
       /\ copy[k].direction * copy[k].quantity = AccountOf(orders, synced[k])
       /\ account * copy[k].direction < 0
             => Turned(orders, -copy[k].direction, synced[k] + 1, Len(orders))
       /\ \A j \in (synced[k] + 1)..Len(orders) :
             orders[j].reduce_only /\ orders[j].side = copy[k].direction
                => Turned(orders, -copy[k].direction, synced[k] + 1, j - 1)

OrderOK(order) ==
    /\ order.open > 0 => ~order.reduce_only /\ order.executed > 0
    /\ order.close_position => order.reduce_only

InStep ==
    /\ synced \in [Keepers -> Nat]
    /\ blurred \in [Keepers -> BOOLEAN]
    /\ \A k \in Keepers : synced[k] <= Len(orders)
    /\ account = AccountOf(orders, Len(orders))
    /\ \A i \in DOMAIN orders : OrderOK(orders[i])
    /\ \A k \in Keepers : copy[k].quantity > 0 => synced[k] > 0

KeptInv == KeepingInv /\ InStep /\ \A k \in Keepers : CopyOK(k)

LEMMA CopyTypes ==
    ASSUME KeptInv, NEW k \in Keepers
    PROVE  /\ copy[k] \in HeldPositions
           /\ copy[k].direction \in {1, -1} /\ copy[k].quantity \in Nat
           /\ synced[k] \in Nat /\ synced[k] <= Len(orders) /\ blurred[k] \in BOOLEAN
           /\ account \in Int /\ orders \in Seq(OrdersAtExchange) /\ Len(orders) \in Nat
           /\ CopyOK(k)
<1>1. orders \in Seq(OrdersAtExchange) /\ account \in Int /\ copy[k] \in HeldPositions
  BY DEF KeptInv, KeepingInv, CopiesArePositions
<1>2. copy[k].direction \in {1, -1} /\ copy[k].quantity \in Nat
  BY <1>1 DEF HeldPositions, Sides
<1> QED
  BY <1>1, <1>2 DEF KeptInv, InStep

(* One more order.                                                          *)
LEMMA OrderAppended ==
    ASSUME KeptInv, KeepingInv', NEW order \in OrdersAtExchange,
           orders' = Append(orders, order), account' = account + order.side * order.executed,
           UNCHANGED <<copy, synced, blurred>>,
           OrderOK(order),
           order.reduce_only => account * order.side < 0,
           order.reduce_only => account' = account \/ Reduces(account, account'),
           ~order.reduce_only => order.executed > 0
    PROVE  KeptInv'
<1> DEFINE n == Len(orders)
<1>1. /\ orders \in Seq(OrdersAtExchange) /\ orders' \in Seq(OrdersAtExchange)
      /\ account \in Int /\ account' \in Int
  BY DEF KeptInv, KeepingInv, CopiesArePositions
<1>2. /\ n \in Nat /\ Len(orders') = n + 1 /\ orders'[n + 1] = order
      /\ \A i \in 1..n : orders'[i] = orders[i]
  BY <1>1, AppendProperties
<1>3. order.side \in {1, -1} /\ order.executed \in Nat /\ order.reduce_only \in BOOLEAN
  BY DEF OrdersAtExchange, Sides
<1>4. \A t \in 0..n : AccountOf(orders', t) = AccountOf(orders, t)
  <2> SUFFICES ASSUME NEW t \in 0..n PROVE AccountOf(orders', t) = AccountOf(orders, t)
    OBVIOUS
  <2>1. t \in Nat /\ t <= Len(orders) /\ t <= Len(orders')
    BY <1>2
  <2>2. \A i \in 1..t : Moved(orders'[i]) = Moved(orders[i])
    BY <1>2, <2>1
  <2> QED BY <1>1, <2>1, <2>2, AccountsAgree
<1>5. account' = AccountOf(orders', n + 1)
  <2>1. AccountOf(orders', n + 1) = AccountOf(orders', n + 1 - 1) + Moved(orders'[n + 1])
    <3> DEFINE m == n + 1
    <3>1. m \in 1..Len(orders')
      BY <1>2
    <3> HIDE DEF m
    <3>2. AccountOf(orders', m) = AccountOf(orders', m - 1) + Moved(orders'[m])
      BY <1>1, <3>1, AccountSteps
    <3> QED BY <3>2 DEF m
  <2>2. n + 1 - 1 = n /\ n \in 0..n /\ account = AccountOf(orders, n)
    BY <1>2 DEF KeptInv, InStep
  <2> QED BY <1>2, <1>4, <2>1, <2>2 DEF Moved
<1> HIDE DEF n
<1>6. InStep'
  <2>1. \A k \in Keepers : synced'[k] <= Len(orders')
    BY <1>2 DEF KeptInv, InStep, n
  <2>2. \A i \in DOMAIN orders' : OrderOK(orders'[i])
    <3>1. DOMAIN orders' = 1..(n + 1) /\ DOMAIN orders = 1..n
      BY <1>1, <1>2 DEF n
    <3> SUFFICES ASSUME NEW i \in 1..(n + 1) PROVE OrderOK(orders'[i])
      BY <3>1
    <3>2. CASE i = n + 1
      BY <1>2, <3>2
    <3>3. CASE i \in 1..n
      BY <1>2, <3>1, <3>3 DEF KeptInv, InStep
    <3> QED BY <1>2, <3>2, <3>3
  <2> QED BY <1>2, <1>5, <2>1, <2>2 DEF KeptInv, InStep, OrderOK
<1>7. ASSUME NEW k \in Keepers PROVE CopyOK(k)'
  <2> DEFINE d == copy[k].direction
             s == synced[k]
  <2> SUFFICES ASSUME ~blurred[k], s > 0
               PROVE  /\ d * copy[k].quantity = AccountOf(orders', s)
                      /\ account' * d < 0 => Turned(orders', -d, s + 1, n + 1)
                      /\ \A j \in (s + 1)..(n + 1) :
                            orders'[j].reduce_only /\ orders'[j].side = d
                               => Turned(orders', -d, s + 1, j - 1)
    BY <1>2 DEF CopyOK
  <2>1. d \in {1, -1} /\ s \in Nat /\ s <= n /\ CopyOK(k)
    BY CopyTypes DEF n
  <2>2. /\ d * copy[k].quantity = AccountOf(orders, s)
        /\ account * d < 0 => Turned(orders, -d, s + 1, n)
        /\ \A j \in (s + 1)..n : orders[j].reduce_only /\ orders[j].side = d
               => Turned(orders, -d, s + 1, j - 1)
    BY <2>1 DEF CopyOK, n
  <2> HIDE DEF d, s
  <2>3. ASSUME NEW u \in 0..n, NEW v \in Nat, u <= v, Turned(orders, -d, s + 1, u)
        PROVE  Turned(orders', -d, s + 1, v)
    <3>1. PICK i \in (s + 1)..u : Opens(orders, i, -d)
      BY <2>3 DEF Turned
    <3>2. i \in 1..n /\ i \in (s + 1)..v
      BY <1>2, <2>1, <2>3
    <3>3. Opens(orders', i, -d)
      BY <1>2, <3>1, <3>2 DEF Opens, d
    <3> QED BY <3>2, <3>3 DEF Turned, d, s
  <2>4. d * copy[k].quantity = AccountOf(orders', s)
    BY <1>4, <2>1, <2>2
  <2>5. ASSUME account' * d < 0 PROVE Turned(orders', -d, s + 1, n + 1)
    <3>1. CASE account * d < 0
      BY <1>2, <2>2, <2>3, <3>1
    <3>2. CASE ~(account * d < 0)
      <4>1. order.side = -d /\ order.executed > 0 /\ ~Reduces(account, account')
        <5> DEFINE side == order.side
                   q == order.executed
        <5>1. side \in {1, -1} /\ q \in Nat /\ account' = account + side * q
          BY <1>3
        <5> HIDE DEF side, q
        <5>2. side + d = 0 /\ q > 0 /\ ~Reduces(account, account')
          BY <1>1, <2>1, <2>5, <3>2, <5>1, Turning
        <5>3. side = -d
          BY <2>1, <5>1, <5>2
        <5> QED BY <5>2, <5>3 DEF side, q
      <4>2. ~order.reduce_only
        BY <2>5, <3>2, <4>1
      <4>3. Opens(orders', n + 1, -d)
        BY <1>2, <4>1, <4>2 DEF Opens, d, n
      <4>4. n + 1 \in (s + 1)..(n + 1)
        BY <1>2, <2>1
      <4> QED BY <4>3, <4>4 DEF Turned, d, s, n
    <3> QED BY <3>1, <3>2
  <2>6. ASSUME NEW j \in (s + 1)..(n + 1), orders'[j].reduce_only, orders'[j].side = d
        PROVE  Turned(orders', -d, s + 1, j - 1)
    <3>1. CASE j = n + 1
      <4>1. account * d < 0
        BY <1>2, <2>6, <3>1
      <4> QED BY <1>2, <2>2, <2>3, <3>1, <4>1
    <3>2. CASE j \in 1..n
      <4>1. orders[j].reduce_only /\ orders[j].side = d /\ j \in (s + 1)..n
        BY <1>2, <2>6, <3>2
      <4>2. j - 1 \in 0..n /\ j - 1 \in Nat
        BY <1>2, <3>2
      <4> QED BY <2>2, <2>3, <4>1, <4>2
    <3> QED BY <1>2, <2>1, <3>1, <3>2
  <2> QED BY <2>4, <2>5, <2>6
<1> QED BY <1>6, <1>7 DEF KeptInv

(* An order fills by q more.                                                *)
LEMMA OrderFilled ==
    ASSUME KeptInv, KeepingInv', NEW i \in DOMAIN orders, NEW q \in Nat, Fills(i, q),
           UNCHANGED <<copy, synced>>,
           orders[i].reduce_only => Reduces(account, account'),
           ~orders[i].reduce_only => orders[i].executed > 0
    PROVE  KeptInv'
<1> DEFINE n == Len(orders)
           filled == [orders[i] EXCEPT !.executed = @ + q, !.open = 0]
           side == orders[i].side
           move == side * q
<1>1. /\ orders \in Seq(OrdersAtExchange) /\ orders' \in Seq(OrdersAtExchange)
      /\ account \in Int /\ account' \in Int
  BY DEF KeptInv, KeepingInv, CopiesArePositions
<1>2. /\ n \in Nat /\ Len(orders') = n /\ i \in 1..n /\ DOMAIN orders' = 1..n
      /\ orders'[i] = filled
      /\ \A j \in 1..n : j # i => orders'[j] = orders[j]
  BY <1>1 DEF Fills
<1>3. /\ side \in {1, -1} /\ orders[i].executed \in Nat /\ orders[i].reduce_only \in BOOLEAN
      /\ orders[i] \in OrdersAtExchange
  BY <1>1, <1>2, MovedIsInt
<1>4. /\ filled.side = side /\ filled.executed = orders[i].executed + q /\ filled.open = 0
      /\ filled.reduce_only = orders[i].reduce_only
      /\ filled.close_position = orders[i].close_position
  BY <1>3 DEF OrdersAtExchange
<1>5. Moved(filled) = Moved(orders[i]) + move /\ move \in Int
  BY <1>3, <1>4 DEF Moved
<1>6. account' = account + move
  BY DEF Fills
<1> HIDE DEF filled, move
<1>7. AccountOf(orders', n) = AccountOf(orders, n) + move
  <2>1. Moved(orders'[i]) = Moved(orders[i]) + move
    BY <1>2, <1>5
  <2>2. \A j \in 1..Len(orders) : j # i => Moved(orders'[j]) = Moved(orders[j])
    BY <1>2
  <2> QED BY <1>1, <1>2, <1>5, <2>1, <2>2, AccountRaised
<1>8. ASSUME NEW t \in 0..n, t < i PROVE AccountOf(orders', t) = AccountOf(orders, t)
  <2>1. t \in Nat /\ t <= Len(orders) /\ t <= Len(orders')
    BY <1>2
  <2>2. \A j \in 1..t : Moved(orders'[j]) = Moved(orders[j])
    <3> SUFFICES ASSUME NEW j \in 1..t PROVE orders'[j] = orders[j]
      OBVIOUS
    <3>1. j \in 1..n /\ j # i
      BY <1>2, <1>8
    <3> QED BY <1>2, <3>1
  <2> QED BY <1>1, <2>1, <2>2, AccountsAgree
<1> HIDE DEF n, side
<1>9. InStep'
  <2>1. \A k \in Keepers : synced'[k] <= Len(orders')
    BY <1>2 DEF KeptInv, InStep, n
  <2>2. \A j \in DOMAIN orders' : OrderOK(orders'[j])
    <3>1. DOMAIN orders = 1..n
      BY <1>1 DEF n
    <3>2. \A j \in 1..n : OrderOK(orders[j])
      BY <3>1 DEF KeptInv, InStep
    <3>3. OrderOK(filled)
      BY <1>2, <1>4, <3>2 DEF OrderOK
    <3> QED BY <1>2, <3>2, <3>3
  <2>3. account' = AccountOf(orders', Len(orders'))
    BY <1>2, <1>6, <1>7 DEF KeptInv, InStep, n
  <2>4. blurred' \in [Keepers -> BOOLEAN]
    BY DEF KeptInv, InStep, Fills
  <2> QED BY <2>1, <2>2, <2>3, <2>4 DEF KeptInv, InStep
<1>10. ASSUME NEW k \in Keepers PROVE CopyOK(k)'
  <2> DEFINE d == copy[k].direction
             s == synced[k]
  <2> SUFFICES ASSUME ~blurred'[k], s > 0
               PROVE  /\ d * copy[k].quantity = AccountOf(orders', s)
                      /\ account' * d < 0 => Turned(orders', -d, s + 1, n)
                      /\ \A j \in (s + 1)..n :
                            orders'[j].reduce_only /\ orders'[j].side = d
                               => Turned(orders', -d, s + 1, j - 1)
    BY <1>2 DEF CopyOK
  <2>1. d \in {1, -1} /\ s \in Nat /\ s <= n /\ CopyOK(k)
    BY CopyTypes DEF n
  <2>2. ~blurred[k] /\ s < i
    <3>1. blurred'[k] = (blurred[k] \/ i <= s)
      BY DEF Fills
    <3>2. ~blurred[k] /\ ~(i <= s)
      BY <3>1, Zenon
    <3> QED BY <1>2, <2>1, <3>2
  <2>3. /\ d * copy[k].quantity = AccountOf(orders, s)
        /\ account * d < 0 => Turned(orders, -d, s + 1, n)
        /\ \A j \in (s + 1)..n : orders[j].reduce_only /\ orders[j].side = d
               => Turned(orders, -d, s + 1, j - 1)
    BY <2>1, <2>2 DEF CopyOK, n
  <2> HIDE DEF d, s
  <2>4. \A j \in 1..n : /\ orders'[j].side = orders[j].side
                        /\ orders'[j].reduce_only = orders[j].reduce_only
                        /\ orders[j].executed > 0 => orders'[j].executed > 0
    BY <1>2, <1>3, <1>4 DEF side
  <2>5. ASSUME NEW u \in 0..n, Turned(orders, -d, s + 1, u)
        PROVE  Turned(orders', -d, s + 1, u)
    <3>1. PICK j \in (s + 1)..u : Opens(orders, j, -d)
      BY <2>5 DEF Turned
    <3>2. j \in 1..n
      BY <1>2, <2>1
    <3>3. Opens(orders', j, -d)
      BY <2>4, <3>1, <3>2 DEF Opens
    <3> QED BY <3>3 DEF Turned
  <2>6. d * copy[k].quantity = AccountOf(orders', s)
    BY <1>2, <1>8, <2>1, <2>2, <2>3
  <2>7. ASSUME account' * d < 0 PROVE Turned(orders', -d, s + 1, n)
    <3>1. CASE account * d < 0
      BY <1>2, <2>3, <2>5, <3>1
    <3>2. CASE ~(account * d < 0)
      <4>1. side = -d /\ q > 0 /\ ~Reduces(account, account')
        <5>1. side + d = 0 /\ q > 0 /\ ~Reduces(account, account')
          BY <1>1, <1>3, <1>6, <2>1, <2>7, <3>2, Turning DEF move
        <5>2. side = -d
          BY <1>3, <2>1, <5>1
        <5> QED BY <5>1, <5>2
      <4>2. ~orders[i].reduce_only /\ orders[i].executed > 0
        BY <4>1
      <4>3. Opens(orders', i, -d)
        BY <1>2, <2>4, <4>1, <4>2 DEF Opens, side
      <4>4. i \in (s + 1)..n
        BY <1>2, <2>1, <2>2
      <4> QED BY <4>3, <4>4 DEF Turned
    <3> QED BY <3>1, <3>2
  <2>8. ASSUME NEW j \in (s + 1)..n, orders'[j].reduce_only, orders'[j].side = d
        PROVE  Turned(orders', -d, s + 1, j - 1)
    <3>1. j \in 1..n /\ j - 1 \in 0..n
      BY <1>2, <2>1
    <3> QED BY <2>3, <2>4, <2>5, <2>8, <3>1
  <2> QED BY <2>6, <2>7, <2>8
<1> QED BY <1>9, <1>10 DEF KeptInv

LEMMA CopyTaken ==
    ASSUME KeptInv, KeepingInv', NEW k \in Keepers, TakeCopy(k)
    PROVE  KeptInv'
<1> DEFINE n == Len(orders)
           c == [direction |-> IF account > 0 THEN 1 ELSE -1, quantity |-> Abs(account)]
<1>1. /\ copy' = [copy EXCEPT ![k] = c] /\ synced' = [synced EXCEPT ![k] = n]
      /\ blurred' = [blurred EXCEPT ![k] = FALSE]
      /\ account # 0 /\ account' = account /\ orders' = orders
  BY DEF TakeCopy
<1>2. /\ copy \in [Keepers -> HeldPositions] /\ synced \in [Keepers -> Nat]
      /\ blurred \in [Keepers -> BOOLEAN] /\ account \in Int /\ n \in Nat
      /\ orders \in Seq(OrdersAtExchange) /\ account = AccountOf(orders, n)
  BY DEF KeptInv, KeepingInv, CopiesArePositions, InStep
<1>3. n > 0
  <2>1. n # 0
    BY <1>1, <1>2, AccountSteps
  <2> QED BY <1>2, <2>1
<1>4. c.direction * c.quantity = account /\ ~(account * c.direction < 0)
  <2>1. account > 0 \/ account < 0
    BY <1>1, <1>2
  <2>2. CASE account > 0
    <3>1. c.direction = 1 /\ c.quantity = account
      BY <1>2, <2>2, AbsIsNat
    <3> HIDE DEF c
    <3> QED
      BY <1>2, <2>2, <3>1
  <2>3. CASE account < 0
    <3>1. c.direction = -1 /\ c.quantity = -account
      BY <1>2, <2>3, AbsIsNat
    <3> HIDE DEF c
    <3> QED
      BY <1>2, <2>3, <3>1
  <2> QED
    BY <2>1, <2>2, <2>3
<1> HIDE DEF n, c
<1>5. /\ copy'[k] = c /\ synced'[k] = n
      /\ \A o \in Keepers : o # k => /\ copy'[o] = copy[o] /\ synced'[o] = synced[o]
                                     /\ blurred'[o] = blurred[o]
  BY <1>1, <1>2
<1>6. InStep'
  <2>1. \A o \in Keepers : /\ synced'[o] <= Len(orders')
                           /\ copy'[o].quantity > 0 => synced'[o] > 0
    BY <1>1, <1>2, <1>3, <1>5 DEF KeptInv, InStep, n
  <2>2. synced' \in [Keepers -> Nat] /\ blurred' \in [Keepers -> BOOLEAN]
    BY <1>1, <1>2
  <2> QED BY <1>1, <2>1, <2>2 DEF KeptInv, InStep
<1>7. CopyOK(k)'
  <2>1. \A j \in (n + 1)..n : FALSE
    BY <1>2
  <2> QED BY <1>1, <1>2, <1>4, <1>5, <2>1 DEF CopyOK, n
<1>8. ASSUME NEW o \in Keepers, o # k PROVE CopyOK(o)'
  <2>1. CopyOK(o)
    BY DEF KeptInv
  <2> QED BY <1>1, <1>5, <1>8, <2>1 DEF CopyOK
<1> QED BY <1>6, <1>7, <1>8 DEF KeptInv

(* A sync over a window that touches the last one, of orders that had       *)
(* filled: the copy moves as the account moved over the window.             *)
LEMMA CopySynced ==
    ASSUME KeptInv, KeepingInv', NEW k \in Keepers, SyncPosition(k)
    PROVE  KeptInv'
<1> DEFINE n == Len(orders)
           s == synced[k]
           p == copy[k]
           d == p.direction
<1>1. PICK since \in {s, s + 1}, until \in (s + 1)..n :
         LET applied == FoldLeft(ApplyReport, p, SubSeq(orders, since, until)) IN
         /\ since > 0
         /\ p.quantity > 0
         /\ applied \in HeldPositions
         /\ copy' = [copy EXCEPT ![k] = applied]
         /\ synced' = [synced EXCEPT ![k] = until]
         /\ blurred' = [blurred EXCEPT ![k] = \/ @
                                              \/ since <= s
                                              \/ \E i \in since..until : orders[i].open > 0]
         /\ UNCHANGED <<account, orders, reversed>>
  BY DEF SyncPosition
<1> DEFINE applied == FoldLeft(ApplyReport, p, SubSeq(orders, since, until))
           blur == \/ blurred[k]
                   \/ since <= s
                   \/ \E i \in since..until : orders[i].open > 0
<1>2. /\ p.quantity > 0 /\ applied \in HeldPositions /\ since > 0
      /\ copy' = [copy EXCEPT ![k] = applied]
      /\ synced' = [synced EXCEPT ![k] = until]
      /\ blurred' = [blurred EXCEPT ![k] = blur]
      /\ account' = account /\ orders' = orders
  BY <1>1
<1>3. /\ copy \in [Keepers -> HeldPositions] /\ synced \in [Keepers -> Nat]
      /\ blurred \in [Keepers -> BOOLEAN] /\ account \in Int
      /\ orders \in Seq(OrdersAtExchange)
  BY DEF KeptInv, KeepingInv, CopiesArePositions, InStep
<1>4. n \in Nat /\ s \in Nat /\ s > 0 /\ until \in Nat /\ until > s /\ until <= n /\ since \in Nat
  BY <1>1, <1>3 DEF KeptInv, InStep
<1>5. blur \in BOOLEAN /\ (~blur => ~blurred[k] /\ since = s + 1)
  <2>1. blurred[k] \in BOOLEAN
    BY <1>3
  <2>2. ~blur => ~blurred[k] /\ ~(since <= s)
    BY <2>1, Zenon
  <2>3. ~(since <= s) => since = s + 1
    BY <1>4
  <2>4. blur \in BOOLEAN
    BY Zenon
  <2> QED BY <2>2, <2>3, <2>4
<1> HIDE DEF applied, blur, n
<1>6. /\ copy'[k] = applied /\ synced'[k] = until /\ blurred'[k] = blur
      /\ \A o \in Keepers : o # k => /\ copy'[o] = copy[o] /\ synced'[o] = synced[o]
                                     /\ blurred'[o] = blurred[o]
  BY <1>2, <1>3
<1>7. InStep'
  <2>1. \A o \in Keepers : /\ synced'[o] <= Len(orders')
                           /\ copy'[o].quantity > 0 => synced'[o] > 0
    BY <1>2, <1>4, <1>6 DEF KeptInv, InStep, n
  <2>2. synced' \in [Keepers -> Nat] /\ blurred' \in [Keepers -> BOOLEAN]
    BY <1>2, <1>3, <1>4, <1>5
  <2> QED BY <1>2, <2>1, <2>2 DEF KeptInv, InStep
<1>8. ASSUME ~blur
      PROVE  /\ applied.direction * applied.quantity = AccountOf(orders, until)
             /\ account * applied.direction < 0
                   => Turned(orders, -applied.direction, until + 1, n)
             /\ \A j \in (until + 1)..n :
                   orders[j].reduce_only /\ orders[j].side = applied.direction
                      => Turned(orders, -applied.direction, until + 1, j - 1)
  <2>1. /\ d * p.quantity = AccountOf(orders, s)
        /\ account * d < 0 => Turned(orders, -d, s + 1, n)
        /\ \A j \in (s + 1)..n : orders[j].reduce_only /\ orders[j].side = d
               => Turned(orders, -d, s + 1, j - 1)
    BY <1>4, <1>5, <1>8 DEF KeptInv, CopyOK, n
  <2>2. p \in HeldPositions
    BY <1>3
  <2>3. since = s + 1 /\ until \in since..Len(orders) /\ since - 1 = s
    BY <1>4, <1>5, <1>8 DEF n
  <2>4. d \in {1, -1} /\ p.quantity \in Nat
    BY <2>2 DEF HeldPositions, Sides
  <2>5. \A j \in since..until : (orders[j].reduce_only /\ orders[j].side = p.direction)
            => Turned(orders, -p.direction, since, j - 1)
    <3>1. \A j \in since..until : j \in (s + 1)..n
      BY <1>4, <2>3
    <3> QED BY <2>1, <2>3, <3>1
  <2>6. /\ applied.direction = d
        /\ d * applied.quantity = d * p.quantity + AccountOf(orders, until) - AccountOf(orders, since - 1)
        /\ \A i \in since..until : ~Opens(orders, i, -d)
    <3>1. Synced(p, since, until, applied)
      BY <1>2, <1>3, <1>4, <2>2, <2>3, <2>5 DEF Synced, applied
    <3> QED
      BY <3>1, SyncIsExact
  <2>7. d * applied.quantity = AccountOf(orders, until)
    <3> DEFINE x == d * applied.quantity
               y == d * p.quantity
    <3>1. x = y + AccountOf(orders, until) - AccountOf(orders, s) /\ y = AccountOf(orders, s)
      BY <2>1, <2>3, <2>6
    <3>2. AccountOf(orders, until) \in Int /\ AccountOf(orders, s) \in Int
      <4>1. until \in 0..Len(orders) /\ s \in 0..Len(orders)
        BY <1>4 DEF n
      <4> QED BY <1>3, <4>1, AccountSteps
    <3> HIDE DEF x, y
    <3>3. x = AccountOf(orders, until)
      BY <3>1, <3>2
    <3> QED BY <3>3 DEF x
  <2> HIDE DEF d
  <2>8. ASSUME NEW u \in Int, Turned(orders, -d, s + 1, u)
        PROVE  Turned(orders, -d, until + 1, u)
    <3>1. PICK i \in (s + 1)..u : Opens(orders, i, -d)
      BY <2>8 DEF Turned
    <3>2. i \notin since..until
      BY <2>6, <3>1
    <3>3. i \in (until + 1)..u
      BY <1>4, <2>3, <3>2
    <3> QED BY <3>1, <3>3 DEF Turned
  <2>9. account * d < 0 => Turned(orders, -d, until + 1, n)
    BY <1>4, <2>1, <2>8
  <2>10. ASSUME NEW j \in (until + 1)..n, orders[j].reduce_only, orders[j].side = d
         PROVE  Turned(orders, -d, until + 1, j - 1)
    <3>1. j \in (s + 1)..n /\ j - 1 \in Int
      BY <1>4
    <3> QED BY <2>1, <2>8, <2>10, <3>1
  <2> QED BY <2>6, <2>7, <2>9, <2>10
<1>9. CopyOK(k)'
  <2>1. CASE blur
    BY <1>6, <2>1 DEF CopyOK
  <2>2. CASE ~blur
    BY <1>2, <1>6, <1>8, <2>2 DEF CopyOK, n
  <2> QED BY <2>1, <2>2
<1>10. ASSUME NEW o \in Keepers, o # k PROVE CopyOK(o)'
  <2>1. CopyOK(o)
    BY DEF KeptInv
  <2> QED BY <1>2, <1>6, <1>10, <2>1 DEF CopyOK
<1> QED BY <1>7, <1>9, <1>10 DEF KeptInv

(* An order of Abs(account) against it, or a smaller one, reduces it.       *)
LEMMA Against ==
    ASSUME NEW a \in Int, NEW side \in {1, -1}, NEW e \in Nat, a * side < 0, e <= Abs(a)
    PROVE  Reduces(a, a + side * e)
<1>1. (a > 0 /\ side = -1) \/ (a < 0 /\ side = 1)
  OBVIOUS
<1>2. CASE a > 0 /\ side = -1
  <2>1. a + side * e = a - e /\ e <= a
    BY <1>2, AbsIsNat
  <2> QED BY <1>2, <2>1 DEF Reduces
<1>3. CASE a < 0 /\ side = 1
  <2>1. a + side * e = a + e /\ e <= -a
    BY <1>3, AbsIsNat
  <2> QED BY <1>3, <2>1 DEF Reduces
<1> QED BY <1>1, <1>2, <1>3

LEMMA CloseSubmitted ==
    ASSUME KeptInv, KeepingInv', NEW k \in Keepers, SubmitClose(k)
    PROVE  KeptInv'
<1> DEFINE order == ClosingOrder(k)
           side == order.side
           e == order.executed
<1>1. /\ copy[k].direction \in {1, -1} /\ copy[k].quantity \in Nat
      /\ account \in Int /\ Abs(account) \in Nat
  BY CopyTypes, AbsIsNat
<1>2. /\ side \in {1, -1} /\ e \in Nat /\ e <= Abs(account)
      /\ order.reduce_only /\ order \in OrdersAtExchange /\ OrderOK(order)
  BY <1>1 DEF ClosingOrder, OrdersAtExchange, Sides, OrderOK
<1>3. /\ account * side < 0 /\ account' = account + side * e
      /\ orders' = Append(orders, order) /\ UNCHANGED <<copy, synced, blurred>>
  BY <1>2 DEF SubmitClose, Submits
<1> HIDE DEF side, e
<1>4. Reduces(account, account')
  BY <1>1, <1>2, <1>3, Against
<1> HIDE DEF order
<1> QED BY <1>2, <1>3, <1>4, OrderAppended DEF side, e

LEMMA KeptStep == KeptInv /\ [KeepingNext]_keepingVars => KeptInv'
<1> SUFFICES ASSUME KeptInv, [KeepingNext]_keepingVars PROVE KeptInv'
  OBVIOUS
<1> USE KeepingAssumption
<1>1. KeepingInv'
  BY KeepingStep DEF KeptInv
<1>2. account \in Int /\ orders \in Seq(OrdersAtExchange)
  BY DEF KeptInv, KeepingInv, CopiesArePositions
<1>3. \A i \in DOMAIN orders : orders[i] \in OrdersAtExchange /\ OrderOK(orders[i])
  BY <1>2 DEF KeptInv, InStep
<1>4. CASE EnterPosition
  <2>1. PICK side \in Sides, quantity \in 1..MaxQuantity, rest \in 0..1 :
            /\ rest < quantity
            /\ Submits([side |-> side, executed |-> quantity - rest, open |-> rest,
                        reduce_only |-> FALSE, close_position |-> FALSE])
            /\ account' = account + side * (quantity - rest)
            /\ UNCHANGED <<copy, synced, blurred>>
    BY <1>4 DEF EnterPosition
  <2> DEFINE order == [side |-> side, executed |-> quantity - rest, open |-> rest,
                       reduce_only |-> FALSE, close_position |-> FALSE]
  <2>2. quantity - rest \in Nat /\ quantity - rest > 0 /\ rest \in Nat
    BY <2>1
  <2>3. order \in OrdersAtExchange
    BY <2>2 DEF OrdersAtExchange
  <2>4. OrderOK(order) /\ ~order.reduce_only /\ order.executed > 0
    BY <2>2 DEF OrderOK
  <2>5. orders' = Append(orders, order) /\ account' = account + order.side * order.executed
    BY <2>1 DEF Submits
  <2> HIDE DEF order
  <2> QED BY <1>1, <2>1, <2>3, <2>4, <2>5, OrderAppended
<1>5. CASE FillRest
  <2>1. PICK i \in DOMAIN orders : /\ orders[i].open > 0 /\ Fills(i, orders[i].open)
                                   /\ UNCHANGED <<copy, synced>>
    BY <1>5 DEF FillRest
  <2> DEFINE q == orders[i].open
  <2>2. q \in Nat /\ ~orders[i].reduce_only /\ orders[i].executed > 0
    BY <1>3, <2>1 DEF OrdersAtExchange, OrderOK
  <2>3. Fills(i, q)
    BY <2>1
  <2> HIDE DEF q
  <2> QED BY <1>1, <2>1, <2>2, <2>3, OrderFilled
<1>6. CASE PlaceProtection
  <2> DEFINE order == [side |-> IF account > 0 THEN -1 ELSE 1, executed |-> 0, open |-> 0,
                       reduce_only |-> TRUE, close_position |-> TRUE]
  <2>1. /\ orders' = Append(orders, order) /\ account # 0 /\ account' = account
        /\ UNCHANGED <<copy, synced, blurred>>
    BY <1>6 DEF PlaceProtection, Submits
  <2>2. order \in OrdersAtExchange /\ OrderOK(order) /\ order.reduce_only /\ order.executed = 0
    BY DEF OrdersAtExchange, Sides, OrderOK
  <2>3. order.side \in {1, -1} /\ account * order.side < 0
    BY <1>2, <2>1
  <2> HIDE DEF order
  <2>4. account' = account + order.side * order.executed
    BY <1>2, <2>1, <2>2, <2>3
  <2> QED BY <1>1, <2>1, <2>2, <2>3, <2>4, OrderAppended
<1>7. CASE TriggerProtection
  <2>1. PICK i \in DOMAIN orders : /\ orders[i].close_position /\ account * orders[i].side < 0
                                   /\ Fills(i, Abs(account)) /\ UNCHANGED <<copy, synced>>
    BY <1>7 DEF TriggerProtection
  <2> DEFINE q == Abs(account)
             side == orders[i].side
  <2>2. q \in Nat /\ q <= Abs(account)
    BY <1>2, AbsIsNat
  <2>3. side \in {1, -1} /\ orders[i].reduce_only /\ orders[i].reduce_only \in BOOLEAN
    BY <1>3, <2>1 DEF OrdersAtExchange, OrderOK, Sides
  <2>4. Fills(i, q) /\ account' = account + side * q /\ account * side < 0
    BY <2>1 DEF Fills
  <2> HIDE DEF q, side
  <2>5. Reduces(account, account')
    BY <1>2, <2>2, <2>3, <2>4, Against
  <2> QED BY <1>1, <2>1, <2>2, <2>3, <2>4, <2>5, OrderFilled
<1>8. CASE \E k \in Keepers : TakeCopy(k)
  BY <1>1, <1>8, CopyTaken
<1>9. CASE \E k \in Keepers : ClosePosition(k)
  BY <1>1, <1>9, CloseSubmitted DEF ClosePosition
<1>10. CASE UNCHANGED keepingVars
  <2>1. InStep'
    BY <1>10 DEF keepingVars, KeptInv, InStep, OrderOK
  <2>2. \A k \in Keepers : CopyOK(k)'
    BY <1>10 DEF keepingVars, KeptInv, CopyOK
  <2> QED BY <1>1, <2>1, <2>2 DEF KeptInv
<1>11. CASE \E k \in Keepers : ManageOpenPosition(k)
  <2>1. PICK k \in Keepers, signal \in Sides \union {0} :
            IF signal = -copy[k].direction THEN SubmitClose(k) ELSE UNCHANGED keepingVars
    BY <1>11 DEF ManageOpenPosition
  <2> QED BY <1>1, <1>10, <2>1, CloseSubmitted
<1>12. CASE \E k \in Keepers : SyncPosition(k)
  BY <1>1, <1>12, CopySynced
<1> QED
  BY <1>4, <1>5, <1>6, <1>7, <1>8, <1>9, <1>10, <1>11, <1>12 DEF KeepingNext

LEMMA KeptFirst == KeepingInit => KeptInv
<1> SUFFICES ASSUME KeepingInit PROVE KeptInv
  OBVIOUS
<1>1. KeepingInv
  BY DEF KeepingInit, KeepingInv, CopiesArePositions, ClosesOnlyReduce, HeldPositions, Sides
<1>2. /\ orders = <<>> /\ account = 0 /\ copy = [k \in Keepers |-> [direction |-> 1, quantity |-> 0]]
      /\ synced = [k \in Keepers |-> 0] /\ blurred = [k \in Keepers |-> FALSE]
  BY DEF KeepingInit
<1>3. Len(orders) = 0 /\ DOMAIN orders = {} /\ orders \in Seq(OrdersAtExchange)
  BY <1>2
<1>4. AccountOf(orders, 0) = 0
  BY <1>3, AccountSteps
<1>5. InStep
  BY <1>2, <1>3, <1>4 DEF InStep
<1>6. \A k \in Keepers : CopyOK(k)
  BY <1>2 DEF CopyOK
<1> QED BY <1>1, <1>5, <1>6 DEF KeptInv

(* A copy that was synced over windows that touch and do not overlap, while *)
(* no order behind them filled later, is the account as of its last sync,   *)
(* and no close from a copy, however old, turns the account or grows it.    *)
THEOREM PositionsStayKept == KeepingSpec => []PositionsAreKept
<1>1. KeptInv => PositionsAreKept
  <2> SUFFICES ASSUME KeptInv PROVE ClosesOnlyReduce /\ CopiesAreExact
    BY DEF PositionsAreKept
  <2>1. ClosesOnlyReduce
    BY DEF KeptInv, KeepingInv
  <2>2. \A t : AccountAt(t) = AccountOf(orders, t)
    BY DEF AccountAt, AccountOf
  <2>3. CopiesAreExact
    BY <2>2 DEF KeptInv, CopyOK, CopiesAreExact
  <2> QED BY <2>1, <2>3
<1> QED BY <1>1, KeptFirst, KeptStep, PTL DEF KeepingSpec

-----------------------------------------------------------------------------
(* The position stream *)

Update == [previous : Positions, event : Events, position : Positions]

(* The error of the stream is raised only once the reconnects are used up,    *)
(* and from then on consume only cleans up.                                   *)
StreamErrorIsFinal ==
    error = "stream" =>
        /\ pc \in {"cleanup", "close", "raised"}
        /\ after = "raise"
        /\ MaxReconnects # Unlimited /\ reconnects = MaxReconnects

(* The finally block knows what it was entered for. *)
FinallyHasReason == pc \in {"backoff", "cleanup", "close"} => after # "none"

Inv == RoundsAreClean /\ StreamErrorIsFinal /\ FinallyHasReason

-----------------------------------------------------------------------------
(* The mapping and the position *)

LEMMA MapEventsType ==
    ASSUME NEW m \in Messages
    PROVE  MapEvents(m) \subseteq Events
<1>1. m.l \in Nat
  BY QuantityAssumption DEF Messages
<1>2. \A d \in Directions : [type |-> "increase", direction |-> d, quantity |-> m.l] \in Events
  BY <1>1 DEF Events
<1>3. [type |-> "decrease", quantity |-> m.l] \in Events
  BY <1>1 DEF Events
<1>4. TradeEvent(m) \in {[type |-> "increase", direction |-> "long", quantity |-> m.l],
                        [type |-> "increase", direction |-> "short", quantity |-> m.l],
                        [type |-> "decrease", quantity |-> m.l]}
  BY DEF TradeEvent
<1> QED
  BY <1>2, <1>3, <1>4 DEF MapEvents, Directions

(* apply_event returns a position: a decrease never exceeds what is held. *)
LEMMA ApplyEventType ==
    ASSUME NEW pos \in Positions, NEW event \in Events, Applies(pos, event)
    PROVE  ApplyEvent(pos, event) \in Positions
<1>1. pos.quantity \in Nat /\ event.quantity \in Nat
  BY DEF Positions, Events
<1>2. CASE event.type = "increase"
  BY <1>1, <1>2 DEF ApplyEvent, Positions
<1>3. CASE event.type # "increase"
  <2>1. event.type = "decrease" /\ event.quantity =< pos.quantity
    BY <1>3 DEF Events, Applies
  <2>2. pos.quantity - event.quantity \in Nat
    BY <1>1, <2>1
  <2> QED
    BY <1>3, <2>2 DEF ApplyEvent, Positions
<1> QED
  BY <1>2, <1>3

(* The two outcomes of handle_event: the listener advances, or not at all. *)
LEMMA HandleEventListener ==
    ASSUME TypeOK, NEW m \in Messages, NEW event \in MapEvents(m), HandleEvent(event)
    PROVE  \/ UNCHANGED listener
           \/ /\ ~Closed(position)
              /\ position' \in Positions
              /\ updates' = Append(updates, [previous |-> position, event |-> event,
                                             position |-> position'])
              /\ [previous |-> position, event |-> event, position |-> position'] \in Update
<1>1. event \in Events
  BY MapEventsType
<1>2. CASE Applies(position, event)
  <2>1. ApplyEvent(position, event) \in Positions
    BY <1>1, <1>2, ApplyEventType DEF TypeOK
  <2>2. /\ position' = ApplyEvent(position, event)
        /\ updates' = Append(updates, [previous |-> position, event |-> event,
                                       position |-> ApplyEvent(position, event)])
    BY <1>2 DEF HandleEvent
  <2> QED
    BY <1>1, <1>2, <2>1, <2>2 DEF Applies, TypeOK, Update
<1>3. CASE ~Applies(position, event)
  BY <1>3 DEF HandleEvent
<1> QED
  BY <1>2, <1>3

LEMMA HandleEventConsume ==
    ASSUME NEW event, HandleEvent(event)
    PROVE  UNCHANGED consume \/ StreamFailed
BY DEF HandleEvent

-----------------------------------------------------------------------------
(* The rounds *)

LEMMA InitInv == Init => Inv
<1> SUFFICES ASSUME Init PROVE Inv
  OBVIOUS
<1> USE DEF Init
<1>1. TypeOK
  BY QuantityAssumption DEF TypeOK, InitialPosition, Positions, Closed
<1>2. KeysAreClosed /\ ReconnectsAreUsed /\ KeepaliveBelongsToRound
      /\ StreamErrorIsFinal /\ FinallyHasReason
  BY LimitAssumption
  DEF KeysAreClosed, ReconnectsAreUsed, KeepaliveBelongsToRound, StreamErrorIsFinal, FinallyHasReason
<1> QED
  BY <1>1, <1>2 DEF Inv, RoundsAreClean

(* A failure of the stream is repeated or ends the rounds, whatever became of *)
(* the listener.                                                              *)
LEMMA StreamFailedInv ==
    ASSUME Inv, pc \in {"connect", "stream"}, StreamFailed, UNCHANGED <<open_keys, keepalive>>,
           position' \in Positions, updates' \in Seq(Update)
    PROVE  Inv'
<1> USE DEF Inv, RoundsAreClean, StreamFailed
<1>1. TypeOK'
  BY DEF TypeOK, Update
<1>2. KeysAreClosed'
  BY DEF KeysAreClosed
<1>3. KeepaliveBelongsToRound'
  BY DEF KeepaliveBelongsToRound
<1>4. ReconnectsAreUsed' /\ StreamErrorIsFinal' /\ FinallyHasReason'
  BY LimitAssumption DEF TypeOK, ReconnectsAreUsed, StreamErrorIsFinal, FinallyHasReason
<1> QED
  BY <1>1, <1>2, <1>3, <1>4

LEMMA StartStreamInv ==
    ASSUME Inv, StartStream
    PROVE  Inv'
<1> USE DEF Inv, RoundsAreClean, StartStream, Raise, listener
<1>1. TypeOK'
  BY DEF TypeOK
<1>2. KeysAreClosed'
  BY DEF KeysAreClosed
<1>3. ReconnectsAreUsed' /\ StreamErrorIsFinal' /\ FinallyHasReason'
  BY DEF ReconnectsAreUsed, StreamErrorIsFinal, FinallyHasReason
<1>4. KeepaliveBelongsToRound'
  BY DEF KeepaliveBelongsToRound
<1> QED
  BY <1>1, <1>2, <1>3, <1>4

LEMMA ConnectInv ==
    ASSUME Inv, Connect
    PROVE  Inv'
<1>1. CASE StreamFailed
  BY <1>1, StreamFailedInv DEF Connect, Inv, RoundsAreClean, TypeOK, listener, Update
<1>2. CASE pc' = "stream" /\ UNCHANGED <<after, error, reconnects, key>>
  BY <1>2
  DEF Connect, Inv, RoundsAreClean, TypeOK, KeysAreClosed, ReconnectsAreUsed,
      KeepaliveBelongsToRound, StreamErrorIsFinal, FinallyHasReason, listener
<1> QED
  BY <1>1, <1>2 DEF Connect

LEMMA DisconnectInv ==
    ASSUME Inv, Disconnect
    PROVE  Inv'
<1>1. CASE StreamFailed
  BY <1>1, StreamFailedInv DEF Disconnect, Inv, RoundsAreClean, TypeOK, listener, Update
<1>2. CASE pc' = "cleanup" /\ after' = "return" /\ UNCHANGED <<error, reconnects, key>>
  BY <1>2
  DEF Disconnect, Inv, RoundsAreClean, TypeOK, KeysAreClosed, ReconnectsAreUsed,
      KeepaliveBelongsToRound, StreamErrorIsFinal, FinallyHasReason, listener
<1> QED
  BY <1>1, <1>2 DEF Disconnect

LEMMA ReceiveInv ==
    ASSUME Inv, NEW m \in Messages, Receive(m)
    PROVE  Inv'
<1>1. PICK event \in MapEvents(m) : HandleEvent(event)
  BY DEF Receive
<1>2. position' \in Positions /\ updates' \in Seq(Update)
  <2>1. position \in Positions /\ updates \in Seq(Update)
    BY DEF Inv, RoundsAreClean, TypeOK, Update
  <2>2. \/ UNCHANGED listener
        \/ /\ position' \in Positions
           /\ \E u \in Update : updates' = Append(updates, u)
    BY <1>1, HandleEventListener DEF Inv, RoundsAreClean
  <2> QED
    BY <2>1, <2>2 DEF listener
<1>3. CASE StreamFailed
  BY <1>2, <1>3, StreamFailedInv DEF Receive
<1>4. CASE UNCHANGED consume
  BY <1>2, <1>4
  DEF Receive, consume, Inv, RoundsAreClean, TypeOK, KeysAreClosed, ReconnectsAreUsed,
      KeepaliveBelongsToRound, StreamErrorIsFinal, FinallyHasReason, Update
<1> QED
  BY <1>1, <1>3, <1>4, HandleEventConsume

LEMMA BackoffInv ==
    ASSUME Inv, Backoff
    PROVE  Inv'
BY DEF Backoff, Inv, RoundsAreClean, TypeOK, KeysAreClosed, ReconnectsAreUsed,
       KeepaliveBelongsToRound, StreamErrorIsFinal, FinallyHasReason, listener

LEMMA CleanupInv ==
    ASSUME Inv, Cleanup
    PROVE  Inv'
<1> USE DEF Inv, RoundsAreClean, Cleanup, Raise, listener
<1>1. TypeOK'
  BY DEF TypeOK
<1>2. KeysAreClosed'
  BY DEF KeysAreClosed
<1>3. ReconnectsAreUsed' /\ StreamErrorIsFinal' /\ FinallyHasReason'
  BY DEF ReconnectsAreUsed, StreamErrorIsFinal, FinallyHasReason
<1>4. KeepaliveBelongsToRound'
  BY DEF KeepaliveBelongsToRound
<1> QED
  BY <1>1, <1>2, <1>3, <1>4

LEMMA CloseInv ==
    ASSUME Inv, Close
    PROVE  Inv'
<1> USE DEF Inv, RoundsAreClean, Close, Raise, listener
<1>1. pc' \in {"returned", "raised", "start"}
  BY DEF TypeOK, FinallyHasReason
<1>2. TypeOK'
  BY <1>1 DEF TypeOK
<1>3. KeysAreClosed'
  BY DEF KeysAreClosed
<1>4. ReconnectsAreUsed' /\ StreamErrorIsFinal' /\ FinallyHasReason'
  BY DEF ReconnectsAreUsed, StreamErrorIsFinal, FinallyHasReason
<1>5. KeepaliveBelongsToRound'
  BY DEF KeepaliveBelongsToRound
<1> QED
  BY <1>2, <1>3, <1>4, <1>5

LEMMA KeepaliveFailsInv ==
    ASSUME Inv, KeepaliveFails \/ Expire \/ UNCHANGED vars
    PROVE  Inv'
BY DEF KeepaliveFails, Expire, Awaiting, Inv, RoundsAreClean, TypeOK, KeysAreClosed,
       ReconnectsAreUsed, KeepaliveBelongsToRound, StreamErrorIsFinal, FinallyHasReason,
       consume, listener, vars

LEMMA NextInv ==
    ASSUME Inv, [Next]_vars
    PROVE  Inv'
BY StartStreamInv, ConnectInv, DisconnectInv, ReceiveInv, BackoffInv, CleanupInv, CloseInv,
   KeepaliveFailsInv
DEF Next, ConsumeStep

(* Whatever fails in a round, no listen key and no keepalive task outlives    *)
(* it, and an error of the stream ends consume only when every allowed        *)
(* reconnect was made.                                                        *)
THEOREM RoundsStayClean == Spec => []RoundsAreClean
<1>1. Spec => []Inv
  BY InitInv, NextInv, PTL DEF Spec
<1> QED
  BY <1>1, PTL DEF Inv

-----------------------------------------------------------------------------
(* The replay *)

(* The position the listener held after its first i updates. *)
At(u, i) == IF i = 0 THEN InitialPosition ELSE u[i].position

Replays(u, pos) ==
    /\ \A i \in DOMAIN u : u[i].previous = At(u, i - 1)
    /\ pos = At(u, Len(u))
    /\ \A i \in 1..(Len(u) - 1) : ~Closed(At(u, i))

LEMMA ReplayNames == UpdatesReplay <=> Replays(updates, position)
BY DEF UpdatesReplay, Replays, At

(* One more update from a position that is open continues the replay. *)
LEMMA AppendReplays ==
    ASSUME NEW u \in Seq(Update), NEW pos, Replays(u, pos), ~Closed(pos), NEW event, NEW next,
           [previous |-> pos, event |-> event, position |-> next] \in Update
    PROVE  Replays(Append(u, [previous |-> pos, event |-> event, position |-> next]), next)
<1> DEFINE n == [previous |-> pos, event |-> event, position |-> next]
           v == Append(u, n)
<1>0. Len(u) \in Nat
  OBVIOUS
<1>1. /\ Len(u) \in Nat /\ DOMAIN u = 1..Len(u)
      /\ Len(v) = Len(u) + 1 /\ DOMAIN v = 1..(Len(u) + 1)
      /\ v[Len(u) + 1] = n
      /\ \A i \in 1..Len(u) : v[i] = u[i]
  OBVIOUS
<1>2. n.previous = pos /\ n.position = next
  OBVIOUS
<1> HIDE DEF n, v
<1>3. \A i \in 0..Len(u) : At(v, i) = At(u, i)
  BY <1>1 DEF At
<1>4. At(v, Len(v)) = next
  BY <1>1, <1>2 DEF At
<1>5. \A i \in DOMAIN v : v[i].previous = At(v, i - 1)
  <2> SUFFICES ASSUME NEW i \in 1..(Len(u) + 1)
               PROVE  v[i].previous = At(v, i - 1)
    BY <1>1
  <2>1. i - 1 \in 0..Len(u) /\ At(v, i - 1) = At(u, i - 1)
    BY <1>1, <1>3
  <2>2. CASE i = Len(u) + 1
    <3>1. i - 1 = Len(u)
      BY <1>1, <2>2
    <3> QED
      BY <1>1, <1>2, <2>1, <2>2, <3>1 DEF Replays
  <2>3. CASE i # Len(u) + 1
    <3>1. i \in 1..Len(u)
      BY <1>1, <2>3
    <3> QED
      BY <1>1, <2>1, <3>1 DEF Replays
  <2> QED
    BY <2>2, <2>3
<1>6. \A i \in 1..(Len(v) - 1) : ~Closed(At(v, i))
  <2> SUFFICES ASSUME NEW i \in 1..Len(u)
               PROVE  ~Closed(At(v, i))
    BY <1>1
  <2>1. At(v, i) = At(u, i)
    BY <1>1, <1>3
  <2>2. CASE i = Len(u)
    BY <2>1, <2>2 DEF Replays
  <2>3. CASE i # Len(u)
    <3>1. i \in 1..(Len(u) - 1)
      BY <1>0, <2>3
    <3> QED
      BY <2>1, <3>1 DEF Replays
  <2> QED
    BY <2>2, <2>3
<1>7. Replays(v, next)
  BY <1>4, <1>5, <1>6 DEF Replays
<1> QED
  BY <1>7 DEF v, n

LEMMA ReplayInv ==
    ASSUME Inv, UpdatesReplay, [Next]_vars
    PROVE  UpdatesReplay'
<1>1. CASE UNCHANGED listener
  BY <1>1 DEF UpdatesReplay, listener
<1>2. ASSUME NEW m \in Messages, Receive(m)
      PROVE  UpdatesReplay'
  <2>1. PICK event \in MapEvents(m) : HandleEvent(event)
    BY <1>2 DEF Receive
  <2> DEFINE n == [previous |-> position, event |-> event, position |-> position']
  <2>2. CASE ~Closed(position) /\ updates' = Append(updates, n) /\ n \in Update
    <3>1. updates \in Seq(Update) /\ Replays(updates, position)
      BY ReplayNames DEF Inv, RoundsAreClean, TypeOK, Update
    <3>2. Replays(updates', position')
      BY <2>2, <3>1, AppendReplays
    <3> QED
      BY <3>2 DEF UpdatesReplay, Replays, At
  <2> QED
    BY <1>1, <2>1, <2>2, HandleEventListener DEF Inv, RoundsAreClean
<1>3. UNCHANGED listener \/ \E m \in Messages : Receive(m)
  BY DEF Next, ConsumeStep, StartStream, Connect, Disconnect, Backoff, Cleanup, Close,
         KeepaliveFails, Expire, vars
<1> QED
  BY <1>1, <1>2, <1>3

(* The updates handed to the caller replay the position from the initial one  *)
(* to the current one, across reconnects, refused events and handlers that    *)
(* fail: nothing is lost, repeated or applied to a closed position.           *)
THEOREM UpdatesStayReplayable == Spec => []UpdatesReplay
<1>1. Init => UpdatesReplay
  BY DEF Init, UpdatesReplay
<1>2. Spec => []Inv
  BY InitInv, NextInv, PTL DEF Spec
<1> QED
  BY <1>1, <1>2, ReplayInv, PTL DEF Spec

-----------------------------------------------------------------------------
(* Whether a price takes the place of another one in a deque: in that of   *)
(* the highs if it is at least as high, in that of the lows as low.        *)
Exceeds(a, b, sign) == sign * a > sign * b

Entries == [index : Nat, price : Int]

(* A deque over prices: of the last period ones, each that no later one    *)
(* takes the place of.                                                     *)
IsDeque(deque, prices, period, sign) ==
    /\ deque \in Seq(Entries)
    /\ \A k \in 1..Len(deque) :
         /\ deque[k].index < Len(prices) /\ deque[k].index >= Len(prices) - period
         /\ deque[k].price = prices[deque[k].index + 1]
    /\ \A k \in 1..Len(deque) : \A j \in 1..k : deque[k].index - deque[j].index >= k - j
    /\ \A k \in 1..Len(deque) : \A j \in 1..(k - 1) : Exceeds(deque[j].price, deque[k].price, sign)
    /\ \A i \in 1..Len(prices) : i > Len(prices) - period =>
         \E k \in 1..Len(deque) :
            deque[k].index + 1 >= i /\ ~Exceeds(prices[i], deque[k].price, sign)

LEMMA EntriesOf ==
    ASSUME NEW deque \in Seq(Entries)
    PROVE  /\ Len(deque) \in Nat /\ DOMAIN deque = 1..Len(deque)
           /\ \A k \in 1..Len(deque) : deque[k] \in Entries
           /\ \A k \in 1..Len(deque) : deque[k].index \in Nat /\ deque[k].price \in Int
<1>1. \A k \in 1..Len(deque) : deque[k] \in Entries
  BY ElementOfSeq
<1>2. \A e \in Entries : e.index \in Nat /\ e.price \in Int
  BY DEF Entries
<1> QED
  BY <1>1, <1>2

LEMMA ExceedsOrders ==
    ASSUME NEW sign \in {1, -1}
    PROVE  /\ \A a \in Int : ~Exceeds(a, a, sign)
           /\ \A a, b \in Int : a # b => Exceeds(a, b, sign) \/ Exceeds(b, a, sign)
           /\ \A a, b, c \in Int : Exceeds(a, b, sign) /\ Exceeds(b, c, sign) => Exceeds(a, c, sign)
           /\ \A a, b, c \in Int : Exceeds(a, b, sign) /\ ~Exceeds(c, b, sign) => Exceeds(a, c, sign)
           /\ \A a, b, c \in Int : ~Exceeds(a, b, sign) /\ ~Exceeds(b, c, sign) => ~Exceeds(a, c, sign)
<1>1. CASE sign = 1
  BY <1>1 DEF Exceeds
<1>2. CASE sign = -1
  <2>1. \A a, b \in Int : Exceeds(a, b, sign) <=> a < b
    BY <1>2 DEF Exceeds
  <2> QED
    BY <2>1
<1> QED
  BY <1>1, <1>2

LEMMA LargestOrNone ==
    ASSUME NEW n \in Nat, NEW s \in SUBSET (1..n)
    PROVE  /\ Max({0} \union s) \in {0} \union s
           /\ \A y \in s : Max({0} \union s) >= y
<1>1. CASE s = {}
  <2>1. {0} \union s = {0}
    BY <1>1
  <2>2. Max({0}) = 0
    BY DEF Max
  <2> QED
    BY <1>1, <2>1, <2>2
<1>2. CASE s # {}
  <2>1. Max(s) \in s /\ \A y \in s : Max(s) >= y
    BY <1>2, LargestOfNats
  <2>2. Max(s) >= 0
    <3>1. Max(s) \in 1..n
      BY <2>1
    <3> QED BY <3>1
  <2>3. \E x \in {0} \union s : \A y \in {0} \union s : x >= y
    BY <2>1, <2>2
  <2> QED
    BY <2>3 DEF Max
<1> QED
  BY <1>1, <1>2

LEMMA SmallestOfNats ==
    ASSUME NEW n \in Nat, NEW s \in SUBSET (1..n), s # {}
    PROVE  Min(s) \in s /\ \A y \in s : Min(s) =< y
<1>1. s \in SUBSET Nat
  OBVIOUS
<1>2. \E x \in s : \A y \in s : x =< y
  BY <1>1, Smallest
<1> QED
  BY <1>2 DEF Min

(* What is popped from the back, and the entry that is appended.           *)
IsPushed(pushed, deque, entry, sign, m) ==
    /\ pushed \in Seq(Entries)
    /\ Len(pushed) = m + 1
    /\ \A k \in 1..m : pushed[k] = deque[k]
    /\ pushed[m + 1] = entry
    /\ \A k \in 1..m : Exceeds(deque[k].price, entry.price, sign)
    /\ \A k \in (m + 1)..Len(deque) : ~Exceeds(deque[k].price, entry.price, sign)

(* What a push keeps of a deque: the entries up to the last that exceeds   *)
(* the new entry, in their order, and the new entry behind them.           *)
LEMMA PushedIs ==
    ASSUME NEW deque \in Seq(Entries), NEW entry \in Entries,
           NEW sign \in {1, -1},
           \A k \in 1..Len(deque) : \A j \in 1..(k - 1) : Exceeds(deque[j].price, deque[k].price, sign)
    PROVE  \E m \in 0..Len(deque) : IsPushed(Pushed(deque, entry, sign), deque, entry, sign, m)
<1> DEFINE n == Len(deque)
           exceed == {k \in 1..n : Exceeds(deque[k].price, entry.price, sign)}
           m == Max({0} \union exceed)
           front == SubSeq(deque, 1, m)
<1>1. /\ n \in Nat /\ DOMAIN deque = 1..n /\ entry.price \in Int
      /\ \A k \in 1..n : deque[k] \in Entries /\ deque[k].price \in Int
  BY EntriesOf DEF Entries
<1>2. Pushed(deque, entry, sign) = Append(front, entry)
  BY <1>1 DEF Pushed, Exceeds
<1>3. exceed \in SUBSET (1..n)
  OBVIOUS
<1>4. m \in {0} \union exceed /\ \A y \in exceed : m >= y
  <2> HIDE DEF exceed
  <2> QED BY <1>1, <1>3, LargestOrNone
<1> HIDE DEF m
<1>5. m \in 0..n
  BY <1>1, <1>3, <1>4
<1>6. front \in Seq(Entries) /\ Len(front) = m /\ \A k \in 1..m : front[k] = deque[k]
  <2>1. \A k \in 1..m : deque[k] \in Entries /\ 1 + k - 1 = k
    BY <1>1, <1>5
  <2>2. /\ front \in Seq(Entries) /\ Len(front) = IF 1 <= m THEN m - 1 + 1 ELSE 0
        /\ \A k \in 1..(m - 1 + 1) : front[k] = deque[1 + k - 1]
    BY <1>5, <2>1, SubSeqProperties
  <2>3. (IF 1 <= m THEN m - 1 + 1 ELSE 0) = m /\ m - 1 + 1 = m
    BY <1>1, <1>5
  <2> QED
    BY <2>1, <2>2, <2>3
<1> HIDE DEF front
<1>7. /\ Append(front, entry) \in Seq(Entries)
      /\ Len(Append(front, entry)) = m + 1
      /\ Append(front, entry)[m + 1] = entry
      /\ \A k \in 1..m : Append(front, entry)[k] = deque[k]
  BY <1>1, <1>5, <1>6
<1>8. ASSUME NEW k \in 1..m PROVE Exceeds(deque[k].price, entry.price, sign)
  <2>1. m \in 1..n /\ Exceeds(deque[m].price, entry.price, sign) /\ k \in 1..n
    BY <1>1, <1>4, <1>5
  <2>2. deque[k].price \in Int /\ deque[m].price \in Int /\ entry.price \in Int
    BY <1>1, <2>1
  <2>3. k # m => Exceeds(deque[k].price, deque[m].price, sign)
    BY <1>1, <2>1
  <2> QED
    BY <2>1, <2>2, <2>3, ExceedsOrders
<1>9. ASSUME NEW k \in (m + 1)..n PROVE ~Exceeds(deque[k].price, entry.price, sign)
  <2>1. k \in 1..n /\ ~(m >= k)
    BY <1>1, <1>5
  <2> QED
    BY <1>4, <2>1
<1>10. IsPushed(Append(front, entry), deque, entry, sign, m)
  BY <1>7, <1>8, <1>9 DEF IsPushed
<1> QED
  BY <1>2, <1>5, <1>10

(* What is left when the front is dropped.                                 *)
LEMMA DroppedIs ==
    ASSUME NEW deque \in Seq(Entries), NEW earliest \in Int, deque # <<>>,
           deque[Len(deque)].index >= earliest,
           \A k \in 1..Len(deque) : \A j \in 1..k : deque[k].index - deque[j].index >= k - j
    PROVE  \E m \in 0..(Len(deque) - 1) :
             /\ Dropped(deque, earliest) \in Seq(Entries)
             /\ Len(Dropped(deque, earliest)) = Len(deque) - m
             /\ \A k \in 1..(Len(deque) - m) : Dropped(deque, earliest)[k] = deque[k + m]
             /\ \A k \in 1..m : deque[k].index < earliest
             /\ \A k \in (m + 1)..Len(deque) : deque[k].index >= earliest
<1> DEFINE n == Len(deque)
           stay == {k \in 1..n : deque[k].index >= earliest}
           first == Min(stay)
<1>1. /\ n \in Nat /\ n > 0 /\ DOMAIN deque = 1..n
      /\ \A k \in 1..n : deque[k] \in Entries /\ deque[k].index \in Nat
  BY EntriesOf
<1>2. n \in stay /\ stay \in SUBSET (1..n) /\ stay # {}
  <2>1. n \in 1..n /\ deque[n].index >= earliest
    BY <1>1
  <2> QED
    BY <2>1
<1>3. Dropped(deque, earliest) = SubSeq(deque, first, n)
  BY <1>1, <1>2 DEF Dropped
<1>4. first \in stay /\ \A y \in stay : first =< y
  <2> HIDE DEF stay
  <2> QED BY <1>1, <1>2, SmallestOfNats
<1> HIDE DEF first
<1>5. first \in 1..n /\ deque[first].index >= earliest
  BY <1>4
<1> DEFINE m == first - 1
<1>6. m \in 0..(n - 1)
  BY <1>1, <1>5
<1>7. /\ SubSeq(deque, first, n) \in Seq(Entries)
      /\ Len(SubSeq(deque, first, n)) = n - m
      /\ \A k \in 1..(n - m) : SubSeq(deque, first, n)[k] = deque[k + m]
  <2>1. \A i \in first..n : deque[i] \in Entries
    BY <1>1, <1>5
  <2>2. /\ SubSeq(deque, first, n) \in Seq(Entries)
        /\ Len(SubSeq(deque, first, n)) = n - first + 1
        /\ \A k \in 1..(n - first + 1) : SubSeq(deque, first, n)[k] = deque[first + k - 1]
    BY <1>1, <1>5, <2>1, SubSeqProperties
  <2>3. n - first + 1 = n - m /\ \A k \in 1..(n - m) : first + k - 1 = k + m
    BY <1>1, <1>5
  <2> QED
    BY <2>2, <2>3
<1>8. ASSUME NEW k \in 1..m PROVE deque[k].index < earliest
  <2>1. k \in 1..n /\ ~(first =< k)
    BY <1>1, <1>5
  <2>2. k \notin stay
    BY <1>4, <2>1
  <2> QED
    BY <1>1, <2>1, <2>2
<1>9. ASSUME NEW k \in (m + 1)..n PROVE deque[k].index >= earliest
  <2>1. k \in 1..n /\ first \in 1..k
    BY <1>1, <1>5
  <2>2. deque[k].index - deque[first].index >= k - first
    BY <2>1
  <2> QED
    BY <1>1, <1>5, <2>1, <2>2
<1> HIDE DEF m
<1> QED
  BY <1>3, <1>6, <1>7, <1>8, <1>9

(* A deque is one over the prices and the next one after that is pushed and*)
(* the front is dropped.                                                   *)
LEMMA DequeFed ==
    ASSUME NEW deque, NEW prices \in Seq(Int), NEW x \in Int, NEW period \in Nat \ {0},
           NEW sign \in {1, -1}, IsDeque(deque, prices, period, sign)
    PROVE  IsDeque(Dropped(Pushed(deque, [index |-> Len(prices), price |-> x], sign),
                           Len(prices) + 1 - period),
                   Append(prices, x), period, sign)
<1> DEFINE n == Len(prices)
           d == Len(deque)
           entry == [index |-> n, price |-> x]
           pushed == Pushed(deque, entry, sign)
           earliest == n + 1 - period
           kept == Dropped(pushed, earliest)
           longer == Append(prices, x)
           Ordered(s) == \A k \in 1..Len(s) : \A j \in 1..k : s[k].index - s[j].index >= k - j
           Steep(s) == \A k \in 1..Len(s) : \A j \in 1..(k - 1) :
                          Exceeds(s[j].price, s[k].price, sign)
<1>1. /\ n \in Nat /\ entry \in Entries /\ entry.index = n /\ entry.price = x
      /\ earliest \in Int /\ earliest =< n /\ DOMAIN prices = 1..n
      /\ \A i \in 1..n : prices[i] \in Int
  BY DEF Entries
<1>2. /\ longer \in Seq(Int) /\ Len(longer) = n + 1 /\ longer[n + 1] = x
      /\ \A i \in 1..n : longer[i] = prices[i]
  BY <1>1
<1>3. /\ deque \in Seq(Entries) /\ Ordered(deque) /\ Steep(deque)
      /\ \A k \in 1..d : /\ deque[k].index < n /\ deque[k].index >= n - period
                        /\ deque[k].price = prices[deque[k].index + 1]
      /\ \A i \in 1..n : i > n - period =>
           \E k \in 1..d : deque[k].index + 1 >= i /\ ~Exceeds(prices[i], deque[k].price, sign)
  BY DEF IsDeque
<1>4. d \in Nat /\ \A k \in 1..d : deque[k].index \in Nat /\ deque[k].price \in Int
  BY <1>3, EntriesOf
<1> HIDE DEF entry, earliest, longer
<1>5. PICK m \in 0..d :
             /\ pushed \in Seq(Entries)
             /\ Len(pushed) = m + 1
             /\ \A k \in 1..m : pushed[k] = deque[k]
             /\ pushed[m + 1] = entry
             /\ \A k \in 1..m : Exceeds(deque[k].price, entry.price, sign)
             /\ \A k \in (m + 1)..d : ~Exceeds(deque[k].price, entry.price, sign)
  <2>1. \A k \in 1..Len(deque) : \A j \in 1..(k - 1) :
            Exceeds(deque[j].price, deque[k].price, sign)
    BY <1>3
  <2>2. deque \in Seq(Entries) /\ entry \in Entries /\ sign \in {1, -1}
    BY <1>1, <1>3
  <2> HIDE DEF pushed, d
  <2>3. \E m \in 0..Len(deque) : IsPushed(Pushed(deque, entry, sign), deque, entry, sign, m)
    BY <2>1, <2>2, PushedIs
  <2> QED
    BY <2>3 DEF pushed, d, IsPushed
<1> HIDE DEF pushed
<1>6. Ordered(pushed)
  <2> SUFFICES ASSUME NEW k \in 1..(m + 1), NEW j \in 1..k
               PROVE  pushed[k].index - pushed[j].index >= k - j
    BY <1>5
  <2>1. CASE k \in 1..m
    <3>1. k \in 1..d /\ j \in 1..m
      BY <1>4, <2>1
    <3>2. pushed[k] = deque[k] /\ pushed[j] = deque[j]
      BY <1>5, <2>1, <3>1
    <3> QED
      BY <1>3, <3>1, <3>2
  <2>2. CASE k = m + 1 /\ j = m + 1
    BY <1>1, <1>5, <2>2
  <2>3. CASE k = m + 1 /\ j \in 1..m
    <3>1. m \in 1..d /\ j \in 1..d
      BY <1>4, <2>3
    <3>2. deque[m].index - deque[j].index >= m - j /\ deque[m].index < n
      BY <1>3, <2>3, <3>1
    <3>3. pushed[k].index = n /\ pushed[j] = deque[j]
      BY <1>1, <1>5, <2>3
    <3>4. \A u, v \in Nat : u - v >= m - j /\ u < n => n - v >= (m + 1) - j
      BY <1>1, <1>4, <3>1
    <3>5. deque[m].index \in Nat /\ deque[j].index \in Nat
      BY <1>4, <3>1
    <3>6. n - deque[j].index >= (m + 1) - j
      BY <3>2, <3>4, <3>5
    <3> QED
      BY <2>3, <3>3, <3>6
  <2> QED
    BY <1>4, <2>1, <2>2, <2>3
<1>7. Steep(pushed)
  <2> SUFFICES ASSUME NEW k \in 1..(m + 1), NEW j \in 1..(k - 1)
               PROVE  Exceeds(pushed[j].price, pushed[k].price, sign)
    BY <1>5
  <2>1. j \in 1..m /\ pushed[j] = deque[j]
    BY <1>4, <1>5
  <2>2. CASE k \in 1..m
    <3>1. k \in 1..d /\ pushed[k] = deque[k]
      BY <1>4, <1>5, <2>2
    <3> QED
      BY <1>3, <2>1, <3>1
  <2>3. CASE k = m + 1
    BY <1>5, <2>1, <2>3
  <2> QED
    BY <1>4, <2>2, <2>3
<1>8. pushed # <<>> /\ pushed[Len(pushed)].index >= earliest
  BY <1>1, <1>4, <1>5
<1>9. PICK a \in 0..(Len(pushed) - 1) :
             /\ kept \in Seq(Entries)
             /\ Len(kept) = Len(pushed) - a
             /\ \A k \in 1..(Len(pushed) - a) : kept[k] = pushed[k + a]
             /\ \A k \in 1..a : pushed[k].index < earliest
             /\ \A k \in (a + 1)..Len(pushed) : pushed[k].index >= earliest
  BY <1>1, <1>5, <1>6, <1>8, DroppedIs
<1> HIDE DEF kept
<1> DEFINE l == m + 1 - a
<1>10. /\ m \in Nat /\ a \in 0..m /\ l \in Nat /\ l > 0 /\ Len(kept) = l
       /\ \A k \in 1..l : k + a \in (a + 1)..(m + 1) /\ k + a \in 1..(m + 1) /\ kept[k] = pushed[k + a]
  BY <1>4, <1>5, <1>9
<1> HIDE DEF l
<1>11. ASSUME NEW k \in 1..l
       PROVE  /\ kept[k].index < n + 1 /\ kept[k].index >= n + 1 - period
              /\ kept[k].price = longer[kept[k].index + 1]
  <2>1. kept[k] = pushed[k + a] /\ kept[k].index >= earliest
    BY <1>5, <1>9, <1>10
  <2>2. CASE k + a = m + 1
    <3>1. kept[k] = entry
      BY <1>5, <2>1, <2>2
    <3>2. kept[k].index = n /\ kept[k].price = x
      BY <1>1, <3>1
    <3>3. n < n + 1 /\ n >= n + 1 - period
      BY <1>1
    <3> QED
      BY <1>2, <3>2, <3>3
  <2>3. CASE k + a \in 1..m
    <3>1. k + a \in 1..d /\ kept[k] = deque[k + a]
      BY <1>4, <1>5, <2>1, <2>3
    <3>2. deque[k + a].index < n /\ deque[k + a].price = prices[deque[k + a].index + 1]
          /\ deque[k + a].index \in Nat
      BY <1>3, <1>4, <3>1
    <3>3. \A u \in Nat : u < n => u + 1 \in 1..n /\ u < n + 1
      BY <1>1
    <3>4. deque[k + a].index + 1 \in 1..n /\ deque[k + a].index < n + 1
      BY <3>2, <3>3
    <3>5. longer[deque[k + a].index + 1] = prices[deque[k + a].index + 1]
      BY <1>2, <3>4
    <3>6. kept[k] = deque[k + a]
      BY <2>1, <3>1
    <3>7. kept[k].index < n + 1 /\ kept[k].price = longer[kept[k].index + 1]
      BY <3>2, <3>4, <3>5, <3>6
    <3>8. kept[k].index >= n + 1 - period
      BY <2>1 DEF earliest
    <3> QED
      BY <3>7, <3>8
  <2>4. k + a = m + 1 \/ k + a \in 1..m
    BY <1>4, <1>10
  <2> QED
    BY <2>2, <2>3, <2>4
<1>12. Ordered(kept)
  <2> SUFFICES ASSUME NEW k \in 1..l, NEW j \in 1..k
               PROVE  kept[k].index - kept[j].index >= k - j
    BY <1>10
  <2>1. j \in 1..l /\ k + a \in 1..Len(pushed) /\ j + a \in 1..(k + a) /\ (k + a) - (j + a) = k - j
    BY <1>5, <1>10
  <2>2. pushed[k + a].index - pushed[j + a].index >= (k + a) - (j + a)
    BY <1>6, <2>1
  <2> QED
    BY <1>10, <2>1, <2>2
<1>13. Steep(kept)
  <2> SUFFICES ASSUME NEW k \in 1..l, NEW j \in 1..(k - 1)
               PROVE  Exceeds(kept[j].price, kept[k].price, sign)
    BY <1>10
  <2>1. j \in 1..l /\ k + a \in 1..Len(pushed) /\ j + a \in 1..((k + a) - 1)
    BY <1>5, <1>10
  <2>2. Exceeds(pushed[j + a].price, pushed[k + a].price, sign)
    BY <1>7, <2>1
  <2> QED
    BY <1>10, <2>1, <2>2
<1>14. ASSUME NEW i \in 1..(n + 1), i > (n + 1) - period
       PROVE  \E k \in 1..l : kept[k].index + 1 >= i /\ ~Exceeds(longer[i], kept[k].price, sign)
  <2>1. l \in 1..l /\ kept[l] = entry
    BY <1>5, <1>10 DEF l
  <2>2. CASE i = n + 1
    <3>1. longer[i] = x /\ kept[l].index = n /\ kept[l].price = x
      BY <1>1, <1>2, <2>1, <2>2
    <3>2. ~Exceeds(x, x, sign)
      BY ExceedsOrders
    <3>3. n + 1 >= i
      BY <1>1, <2>2
    <3> QED
      BY <2>1, <3>1, <3>2, <3>3
  <2>3. CASE i \in 1..n
    <3>1. i > n - period
      BY <1>1, <1>14, <2>3
    <3>2. PICK k \in 1..d : deque[k].index + 1 >= i /\ ~Exceeds(prices[i], deque[k].price, sign)
      BY <1>3, <2>3, <3>1
    <3>3. CASE k \in 1..m
      <4>1. pushed[k] = deque[k] /\ deque[k].index >= earliest /\ k \in 1..Len(pushed)
        BY <1>1, <1>4, <1>5, <1>14, <2>3, <3>2, <3>3 DEF earliest
      <4>2. ~(k \in 1..a)
        BY <1>1, <1>4, <1>9, <4>1
      <4>3. k - a \in 1..l /\ (k - a) + a = k
        BY <1>4, <1>5, <1>10, <3>3, <4>2 DEF l
      <4>4. kept[k - a] = deque[k]
        BY <1>10, <4>1, <4>3
      <4> QED
        BY <1>2, <2>3, <3>2, <4>3, <4>4
    <3>4. CASE k \in (m + 1)..d
      <4>1. ~Exceeds(deque[k].price, entry.price, sign) /\ entry.index + 1 >= i
        BY <1>1, <1>5, <2>3, <3>4
      <4>2. ~Exceeds(prices[i], entry.price, sign)
        BY <1>1, <1>4, <2>3, <3>2, <4>1, ExceedsOrders
      <4> QED
        BY <1>2, <2>1, <2>3, <4>1, <4>2
    <3> QED
      BY <1>4, <3>3, <3>4
  <2> QED
    BY <1>1, <2>2, <2>3
<1>15. IsDeque(kept, longer, period, sign)
  BY <1>2, <1>9, <1>10, <1>11, <1>12, <1>13, <1>14, SMTT(30) DEF IsDeque
<1> QED
  BY <1>15 DEF kept, pushed, entry, earliest, longer

(* The front of a full deque is the bound of the last period prices.       *)
IsBound(bound, prices, period, sign) ==
    /\ \E i \in 1..period : bound = prices[Len(prices) - period + i]
    /\ \A i \in 1..period : ~Exceeds(prices[Len(prices) - period + i], bound, sign)

(* The front of a deque that is full is the bound of the last period prices.*)
LEMMA FrontIsBound ==
    ASSUME NEW deque, NEW prices \in Seq(Int), NEW period \in Nat \ {0},
           NEW sign \in {1, -1}, IsDeque(deque, prices, period, sign)
    PROVE  /\ Len(deque) =< period
           /\ Len(prices) >= period =>
                deque # <<>> /\ IsBound(deque[1].price, prices, period, sign)
<1> DEFINE n == Len(prices)
           d == Len(deque)
<1>1. /\ deque \in Seq(Entries)
      /\ \A k \in 1..d : \A j \in 1..k : deque[k].index - deque[j].index >= k - j
      /\ \A k \in 1..d : \A j \in 1..(k - 1) : Exceeds(deque[j].price, deque[k].price, sign)
      /\ \A k \in 1..d : /\ deque[k].index < n /\ deque[k].index >= n - period
                        /\ deque[k].price = prices[deque[k].index + 1]
      /\ \A i \in 1..n : i > n - period =>
           \E k \in 1..d : deque[k].index + 1 >= i /\ ~Exceeds(prices[i], deque[k].price, sign)
  BY DEF IsDeque
<1>2. /\ d \in Nat /\ \A k \in 1..d : deque[k].index \in Nat /\ deque[k].price \in Int
      /\ n \in Nat /\ \A i \in 1..n : prices[i] \in Int
  BY <1>1, EntriesOf
<1>3. d =< period
  <2> SUFFICES ASSUME d > 0 PROVE d =< period
    BY <1>2
  <2>1. 1 \in 1..d /\ d \in 1..d
    BY <1>2
  <2>2. deque[d].index - deque[1].index >= d - 1 /\ deque[d].index < n /\ deque[1].index >= n - period
    BY <1>1, <2>1
  <2>3. \A u, v \in Nat : u - v >= d - 1 /\ u < n /\ v >= n - period => d =< period
    BY <1>2
  <2> HIDE DEF d
  <2> QED
    BY <1>2, <2>1, <2>2, <2>3
<1>4. SUFFICES ASSUME n >= period
               PROVE  deque # <<>> /\ IsBound(deque[1].price, prices, period, sign)
  BY <1>3
<1>5. n \in 1..n /\ n > n - period
  BY <1>2, <1>4
<1>6. 1 \in 1..d
  <2>1. \E k \in 1..d : TRUE
    BY <1>1, <1>5
  <2> QED
    BY <1>2, <2>1
<1>7. ASSUME NEW i \in 1..period
      PROVE  ~Exceeds(prices[n - period + i], deque[1].price, sign)
  <2> DEFINE nr == n - period + i
  <2>1. nr \in 1..n /\ nr > n - period
    BY <1>2, <1>4
  <2> HIDE DEF nr
  <2>2. PICK k \in 1..d : ~Exceeds(prices[nr], deque[k].price, sign)
    BY <1>1, <2>1
  <2>3. k # 1 => Exceeds(deque[1].price, deque[k].price, sign)
    BY <1>1, <1>2
  <2>4. deque[1].price \in Int /\ deque[k].price \in Int /\ prices[nr] \in Int
    BY <1>2, <1>6, <2>1
  <2>5. ~Exceeds(prices[nr], deque[1].price, sign)
    <3> DEFINE p == prices[nr]
               q == deque[k].price
               r == deque[1].price
    <3> HIDE DEF p, q, r
    <3>1. p \in Int /\ q \in Int /\ r \in Int /\ ~Exceeds(p, q, sign) /\ (r = q \/ Exceeds(r, q, sign))
      BY <2>2, <2>3, <2>4 DEF p, q, r
    <3>2. ~Exceeds(p, r, sign)
      <4>1. Exceeds(r, q, sign) => ~Exceeds(q, r, sign)
        BY <3>1, ExceedsOrders
      <4> QED
        BY <3>1, <4>1, ExceedsOrders
    <3> QED
      BY <3>2 DEF p, r
  <2> QED
    BY <2>5 DEF nr
<1>8. \E i \in 1..period : deque[1].price = prices[n - period + i]
  <2> DEFINE first == deque[1].index
             i == first + 1 - (n - period)
  <2>1. first \in Nat /\ first < n /\ first >= n - period /\ n \in Nat /\ period \in Nat
    BY <1>1, <1>2, <1>6
  <2> HIDE DEF first, n
  <2>2. i \in 1..period /\ n - period + i = first + 1
    BY ONLY <2>1
  <2> USE DEF first, n
  <2> HIDE DEF i
  <2> QED
    BY <1>1, <1>6, <2>2
<1> QED
  <2>1. deque # <<>>
    BY <1>6
  <2>2. IsBound(deque[1].price, prices, period, sign)
    BY <1>7, <1>8 DEF IsBound
  <2> QED
    BY <2>1, <2>2

LEMMA GreatestIs ==
    ASSUME NEW S \in SUBSET Int, NEW x \in S, \A y \in S : x >= y
    PROVE  Max(S) = x
<1> DEFINE m == Max(S)
<1>1. m \in S /\ \A y \in S : m >= y
  BY DEF Max
<1> HIDE DEF m
<1>2. m \in Int /\ x \in Int /\ m >= x /\ x >= m
  BY <1>1
<1>3. m = x
  BY <1>2
<1> QED
  BY <1>3 DEF m

LEMMA LeastIs ==
    ASSUME NEW S \in SUBSET Int, NEW x \in S, \A y \in S : x =< y
    PROVE  Min(S) = x
<1> DEFINE m == Min(S)
<1>1. m \in S /\ \A y \in S : m =< y
  BY DEF Min
<1> HIDE DEF m
<1>2. m \in Int /\ x \in Int /\ m =< x /\ x =< m
  BY <1>1
<1>3. m = x
  BY <1>2
<1> QED
  BY <1>3 DEF m

-----------------------------------------------------------------------------
(* A window over the candles of a tape t that it was fed with              *)

HighsIn(t, history) == [k \in 1..Len(history) |-> t[history[k]].high]
LowsIn(t, history) == [k \in 1..Len(history) |-> t[history[k]].low]
BarsIn(t, history) == [k \in DOMAIN history |-> t[history[k]]]

(* The two deques of a window are deques over what it was fed with; the    *)
(* last of it was the candle before the one it was evaluated at.           *)
WindowOK(t, window, history, period) ==
    /\ history \in Seq(1..Len(t))
    /\ window = [index |-> Len(history), last |-> window.last,
                 highs |-> window.highs, lows |-> window.lows]
    /\ IsDeque(window.highs, HighsIn(t, history), period, 1)
    /\ IsDeque(window.lows, LowsIn(t, history), period, -1)
    /\ window.last \in Nat
    /\ window.last # 0 => history # <<>> /\ history[Len(history)] = window.last - 1

LEMMA HistoryIs ==
    ASSUME NEW t \in Seq(TapeBars), NEW history \in Seq(1..Len(t))
    PROVE  /\ Len(t) \in Nat /\ Len(history) \in Nat /\ DOMAIN history = 1..Len(history)
           /\ \A k \in 1..Len(t) : t[k] \in TapeBars
           /\ \A k \in 1..Len(history) : history[k] \in 1..Len(t) /\ t[history[k]] \in TapeBars
           /\ HighsIn(t, history) \in Seq(Int) /\ Len(HighsIn(t, history)) = Len(history)
           /\ LowsIn(t, history) \in Seq(Int) /\ Len(LowsIn(t, history)) = Len(history)
<1>1. Len(t) \in Nat /\ \A k \in 1..Len(t) : t[k] \in TapeBars
  BY ElementOfSeq
<1>2. Len(history) \in Nat /\ DOMAIN history = 1..Len(history)
  OBVIOUS
<1>3. \A k \in 1..Len(history) : history[k] \in 1..Len(t)
  BY ElementOfSeq
<1>4. \A k \in 1..Len(history) : t[history[k]].high \in Int /\ t[history[k]].low \in Int
  BY <1>1, <1>3, RollingAssumption
<1>5. HighsIn(t, history) \in [1..Len(history) -> Int] /\ LowsIn(t, history) \in [1..Len(history) -> Int]
  BY <1>4 DEF HighsIn, LowsIn
<1>6. /\ HighsIn(t, history) \in Seq(Int) /\ Len(HighsIn(t, history)) = Len(history)
      /\ LowsIn(t, history) \in Seq(Int) /\ Len(LowsIn(t, history)) = Len(history)
  <2>1. \A n \in Nat : \A f \in [1..n -> Int] : f \in Seq(Int) /\ Len(f) = n
    OBVIOUS
  <2> QED
    BY <1>2, <1>5, <2>1
<1> QED
  BY <1>1, <1>2, <1>3, <1>6

LEMMA HistoryFed ==
    ASSUME NEW t \in Seq(TapeBars), NEW history \in Seq(1..Len(t)), NEW nr \in 1..Len(t)
    PROVE  /\ Append(history, nr) \in Seq(1..Len(t))
           /\ Len(Append(history, nr)) = Len(history) + 1
           /\ Append(history, nr)[Len(history) + 1] = nr
           /\ HighsIn(t, Append(history, nr)) = Append(HighsIn(t, history), t[nr].high)
           /\ LowsIn(t, Append(history, nr)) = Append(LowsIn(t, history), t[nr].low)
           /\ t[nr].high \in Int /\ t[nr].low \in Int
<1> DEFINE n == Len(history)
           longer == Append(history, nr)
<1>1. /\ longer \in Seq(1..Len(t)) /\ Len(longer) = n + 1 /\ longer[n + 1] = nr /\ n \in Nat
      /\ \A k \in 1..n : longer[k] = history[k]
  BY HistoryIs
<1>2. t[nr].high \in Int /\ t[nr].low \in Int
  BY HistoryIs, RollingAssumption
<1> HIDE DEF longer, n
<1>3. Len(HighsIn(t, history)) = n /\ Len(LowsIn(t, history)) = n
  BY HistoryIs DEF n
<1>4. HighsIn(t, longer) = Append(HighsIn(t, history), t[nr].high)
  <2>1. HighsIn(t, longer) = [k \in 1..(n + 1) |-> t[longer[k]].high]
    BY <1>1 DEF HighsIn
  <2>2. Append(HighsIn(t, history), t[nr].high)
          = [k \in 1..(n + 1) |-> IF k = n + 1 THEN t[nr].high ELSE HighsIn(t, history)[k]]
    BY <1>3
  <2>3. ASSUME NEW k \in 1..(n + 1)
        PROVE  t[longer[k]].high = IF k = n + 1 THEN t[nr].high ELSE HighsIn(t, history)[k]
    <3>1. k # n + 1 => k \in 1..n
      BY <1>1
    <3> QED
      BY <1>1, <3>1 DEF HighsIn, n
  <2> QED
    BY <2>1, <2>2, <2>3
<1>5. LowsIn(t, longer) = Append(LowsIn(t, history), t[nr].low)
  <2>1. LowsIn(t, longer) = [k \in 1..(n + 1) |-> t[longer[k]].low]
    BY <1>1 DEF LowsIn
  <2>2. Append(LowsIn(t, history), t[nr].low)
          = [k \in 1..(n + 1) |-> IF k = n + 1 THEN t[nr].low ELSE LowsIn(t, history)[k]]
    BY <1>3
  <2>3. ASSUME NEW k \in 1..(n + 1)
        PROVE  t[longer[k]].low = IF k = n + 1 THEN t[nr].low ELSE LowsIn(t, history)[k]
    <3>1. k # n + 1 => k \in 1..n
      BY <1>1
    <3> QED
      BY <1>1, <3>1 DEF LowsIn, n
  <2> QED
    BY <2>1, <2>2, <2>3
<1> QED
  BY <1>1, <1>2, <1>4, <1>5 DEF longer, n

IsWindow(w) == w = [index |-> w.index, last |-> w.last, highs |-> w.highs, lows |-> w.lows]

LEMMA AppendedIs ==
    ASSUME NEW candle, NEW period, NEW window, IsWindow(window)
    PROVE  Appended(window, candle, period)
             = [index |-> window.index + 1, last |-> window.last,
                highs |-> Dropped(Pushed(window.highs,
                                         [index |-> window.index, price |-> candle.high], 1),
                                  window.index + 1 - period),
                lows |-> Dropped(Pushed(window.lows,
                                        [index |-> window.index, price |-> candle.low], -1),
                                 window.index + 1 - period)]
<1> DEFINE h == Dropped(Pushed(window.highs, [index |-> window.index, price |-> candle.high], 1),
                        window.index + 1 - period)
           l == Dropped(Pushed(window.lows, [index |-> window.index, price |-> candle.low], -1),
                        window.index + 1 - period)
           i == window.index + 1
<1>0. window = [index |-> window.index, last |-> window.last,
                highs |-> window.highs, lows |-> window.lows]
  BY DEF IsWindow
<1>1. Appended(window, candle, period) = [window EXCEPT !.index = i, !.highs = h, !.lows = l]
  BY DEF Appended
<1> HIDE DEF h, l, i
<1> DEFINE w1 == [window EXCEPT !.index = i]
           w2 == [w1 EXCEPT !.highs = h]
           w3 == [w2 EXCEPT !.lows = l]
<1>2. [window EXCEPT !.index = i, !.highs = h, !.lows = l] = w3
  BY <1>0
<1>3. w1 = [index |-> i, last |-> window.last, highs |-> window.highs, lows |-> window.lows]
  BY <1>0
<1> HIDE DEF w1
<1>4. w2 = [index |-> i, last |-> window.last, highs |-> h, lows |-> window.lows]
  BY <1>3
<1> HIDE DEF w2
<1>5. w3 = [index |-> i, last |-> window.last, highs |-> h, lows |-> l]
  BY <1>4
<1> HIDE DEF w3
<1> QED
  BY <1>1, <1>2, <1>5 DEF h, l, i

(* What a window that was fed is.                                          *)
LEMMA WindowAppended ==
    ASSUME NEW t \in Seq(TapeBars), NEW window, NEW history, NEW period \in Nat \ {0},
           NEW nr \in 1..Len(t), NEW last \in Nat, last = nr + 1, WindowOK(t, window, history, period)
    PROVE  WindowOK(t, [Appended(window, t[nr], period) EXCEPT !.last = last],
                    Append(history, nr), period)
<1> DEFINE n == Len(history)
           earliest == n + 1 - period
           highs == Dropped(Pushed(window.highs, [index |-> n, price |-> t[nr].high], 1), earliest)
           lows == Dropped(Pushed(window.lows, [index |-> n, price |-> t[nr].low], -1), earliest)
           longer == Append(history, nr)
<1>1. /\ history \in Seq(1..Len(t)) /\ n \in Nat
      /\ window = [index |-> n, last |-> window.last, highs |-> window.highs, lows |-> window.lows]
      /\ IsDeque(window.highs, HighsIn(t, history), period, 1)
      /\ IsDeque(window.lows, LowsIn(t, history), period, -1)
  BY HistoryIs DEF WindowOK
<1>2. /\ longer \in Seq(1..Len(t)) /\ Len(longer) = n + 1 /\ longer[n + 1] = nr
      /\ HighsIn(t, longer) = Append(HighsIn(t, history), t[nr].high)
      /\ LowsIn(t, longer) = Append(LowsIn(t, history), t[nr].low)
      /\ t[nr].high \in Int /\ t[nr].low \in Int
  BY <1>1, HistoryFed, SMTT(30)
<1>3. /\ HighsIn(t, history) \in Seq(Int) /\ Len(HighsIn(t, history)) = n
      /\ LowsIn(t, history) \in Seq(Int) /\ Len(LowsIn(t, history)) = n
  BY <1>1, HistoryIs
<1>4. 1 \in {1, -1} /\ -1 \in {1, -1}
  OBVIOUS
<1>5. IsDeque(highs, Append(HighsIn(t, history), t[nr].high), period, 1)
  BY <1>1, <1>2, <1>3, <1>4, DequeFed
<1>6. IsDeque(lows, Append(LowsIn(t, history), t[nr].low), period, -1)
  BY <1>1, <1>2, <1>3, <1>4, DequeFed
<1>7. Appended(window, t[nr], period)
        = [index |-> n + 1, last |-> window.last, highs |-> highs, lows |-> lows]
  <2>1. window.index = n /\ IsWindow(window)
    BY <1>1 DEF IsWindow
  <2>2. Appended(window, t[nr], period)
             = [index |-> window.index + 1, last |-> window.last,
                highs |-> Dropped(Pushed(window.highs,
                                         [index |-> window.index, price |-> t[nr].high], 1),
                                  window.index + 1 - period),
                lows |-> Dropped(Pushed(window.lows,
                                        [index |-> window.index, price |-> t[nr].low], -1),
                                 window.index + 1 - period)]
    BY <2>1, AppendedIs
  <2> QED
    BY <2>1, <2>2
<1> HIDE DEF highs, lows, longer
<1> DEFINE fresh == [Appended(window, t[nr], period) EXCEPT !.last = last]
<1>8. fresh = [index |-> n + 1, last |-> last, highs |-> highs, lows |-> lows]
  BY <1>7
<1> HIDE DEF fresh
<1>9. /\ fresh.highs = highs /\ fresh.lows = lows /\ fresh.last = last
      /\ fresh = [index |-> n + 1, last |-> fresh.last, highs |-> fresh.highs, lows |-> fresh.lows]
  BY <1>8
<1>10. longer # <<>> /\ longer[Len(longer)] = last - 1
  BY <1>1, <1>2
<1>11. WindowOK(t, fresh, longer, period)
  BY <1>2, <1>5, <1>6, <1>9, <1>10 DEF WindowOK
<1> QED
  BY <1>11 DEF fresh, longer

LEMMA NewWindow ==
    ASSUME NEW t \in Seq(TapeBars), NEW period \in Nat \ {0}
    PROVE  WindowOK(t, NewRange, <<>>, period)
<1>1. <<>> \in Seq(1..Len(t)) /\ Len(<<>>) = 0
  OBVIOUS
<1>2. /\ HighsIn(t, <<>>) = [k \in 1..0 |-> t[<<>>[k]].high]
      /\ LowsIn(t, <<>>) = [k \in 1..0 |-> t[<<>>[k]].low]
  BY <1>1 DEF HighsIn, LowsIn
<1>3. Len(HighsIn(t, <<>>)) = 0 /\ Len(LowsIn(t, <<>>)) = 0
  BY <1>1, HistoryIs
<1>4. \A prices, sign : Len(prices) = 0 => IsDeque(<<>>, prices, period, sign)
  BY DEF IsDeque
<1>5. IsDeque(<<>>, HighsIn(t, <<>>), period, 1) /\ IsDeque(<<>>, LowsIn(t, <<>>), period, -1)
  BY <1>3, <1>4
<1> QED
  BY <1>1, <1>5 DEF WindowOK, NewRange

(* One evaluation, at candle n of the tape.                                *)
LEMMA WindowRanged ==
    ASSUME NEW t \in Seq(TapeBars), NEW window, NEW history, NEW period \in Nat \ {0},
           NEW n \in 2..Len(t), NEW market, Len(market) = n, Back(market, 1) = t[n - 1],
           WindowOK(t, window, history, period)
    PROVE  /\ WindowOK(t, Ranged(window, market, period), FedWith(history, window, market), period)
           /\ Ranged(window, market, period).last = n
<1>1. Len(t) \in Nat /\ n \in Nat /\ n # 0 /\ n - 1 \in 1..Len(t) /\ n = (n - 1) + 1
  BY HistoryIs
<1>2. CASE ~Feeds(window, n)
  <2>1. Ranged(window, market, period) = window /\ FedWith(history, window, market) = history
    BY <1>2 DEF Ranged, FedWith
  <2> QED
    BY <1>2, <2>1 DEF Feeds
<1>3. CASE Feeds(window, n)
  <2> DEFINE base == IF Resets(window, n) THEN NewRange ELSE window
             told == IF Resets(window, n) THEN <<>> ELSE history
             nr == n - 1
  <2>1. WindowOK(t, base, told, period)
    BY NewWindow
  <2>2. /\ Ranged(window, market, period) = [Appended(base, t[n - 1], period) EXCEPT !.last = n]
        /\ FedWith(history, window, market) = Append(told, n - 1)
    BY <1>3 DEF Ranged, FedWith
  <2> HIDE DEF base, told
  <2>3. nr \in 1..Len(t) /\ n = nr + 1
    BY <1>1
  <2> HIDE DEF nr
  <2>4. WindowOK(t, [Appended(base, t[nr], period) EXCEPT !.last = n], Append(told, nr), period)
    BY <1>1, <2>1, <2>3, WindowAppended
  <2>5. [Appended(base, t[nr], period) EXCEPT !.last = n].last = n
    <3>1. \E a, b, c, d : Appended(base, t[nr], period) = [index |-> a, last |-> b, highs |-> c, lows |-> d]
      <4>1. base = [index |-> Len(told), last |-> base.last, highs |-> base.highs, lows |-> base.lows]
        BY <2>1 DEF WindowOK
      <4>2. IsWindow(base)
        BY <4>1 DEF IsWindow
      <4> DEFINE candle == t[nr]
      <4> HIDE DEF candle
      <4>3. Appended(base, candle, period)
             = [index |-> base.index + 1, last |-> base.last,
                highs |-> Dropped(Pushed(base.highs,
                                         [index |-> base.index, price |-> candle.high], 1),
                                  base.index + 1 - period),
                lows |-> Dropped(Pushed(base.lows,
                                        [index |-> base.index, price |-> candle.low], -1),
                                 base.index + 1 - period)]
        BY <4>2, AppendedIs
      <4> QED
        BY <4>3 DEF candle
    <3> QED
      BY <3>1
  <2> QED
    BY <2>2, <2>4, <2>5 DEF nr
<1> QED
  BY <1>2, <1>3

(* A tape only grows, and what a window was fed with stays where it is.    *)
Grows(t, u) == Len(t) =< Len(u) /\ \A k \in 1..Len(t) : u[k] = t[k]

LEMMA WindowStays ==
    ASSUME NEW t \in Seq(TapeBars), NEW u \in Seq(TapeBars), Grows(t, u),
           NEW window, NEW history, NEW period, WindowOK(t, window, history, period)
    PROVE  WindowOK(u, window, history, period)
<1>1. history \in Seq(1..Len(t)) /\ Len(t) \in Nat /\ Len(u) \in Nat
  BY DEF WindowOK
<1>2. \A k \in 1..Len(history) : history[k] \in 1..Len(t)
  BY <1>1, HistoryIs
<1>3. HighsIn(u, history) = HighsIn(t, history) /\ LowsIn(u, history) = LowsIn(t, history)
  BY <1>2 DEF HighsIn, LowsIn, Grows
<1>4. history \in Seq(1..Len(u))
  <2> DEFINE S == 1..Len(t)
             T == 1..Len(u)
  <2>1. S \subseteq T
    BY <1>1 DEF Grows
  <2>2. history \in Seq(S)
    BY <1>1
  <2> HIDE DEF S, T
  <2>3. history \in Seq(T)
    BY <2>1, <2>2
  <2> QED
    BY <2>3 DEF T
<1> QED
  BY <1>3, <1>4 DEF WindowOK

(* A full window is known, and has the bounds of the last period candles it*)
(* was fed with.                                                           *)
LEMMA WindowBounds ==
    ASSUME NEW t \in Seq(TapeBars), NEW window, NEW history, NEW period \in Nat \ {0},
           WindowOK(t, window, history, period)
    PROVE  /\ window.index = Len(history)
           /\ Len(window.highs) =< period /\ Len(window.lows) =< period
           /\ Len(history) >= period =>
                /\ Known(window, period)
                /\ HighOf(window) = High(BarsIn(t, Ending(history, period)))
                /\ LowOf(window) = Low(BarsIn(t, Ending(history, period)))
<1> DEFINE n == Len(history)
           highs == HighsIn(t, history)
           lows == LowsIn(t, history)
           ending == Ending(history, period)
           bars == BarsIn(t, ending)
<1>1. /\ history \in Seq(1..Len(t)) /\ window.index = n
      /\ IsDeque(window.highs, highs, period, 1) /\ IsDeque(window.lows, lows, period, -1)
  <2>1. window = [index |-> n, last |-> window.last, highs |-> window.highs, lows |-> window.lows]
    BY DEF WindowOK
  <2> QED
    BY <2>1 DEF WindowOK
<1>2. /\ n \in Nat /\ highs \in Seq(Int) /\ Len(highs) = n /\ lows \in Seq(Int) /\ Len(lows) = n
      /\ \A k \in 1..n : history[k] \in 1..Len(t) /\ t[history[k]] \in TapeBars
  BY <1>1, HistoryIs
<1>3. 1 \in {1, -1} /\ -1 \in {1, -1}
  OBVIOUS
<1>4. /\ Len(window.highs) =< period
      /\ n >= period => window.highs # <<>> /\ IsBound(window.highs[1].price, highs, period, 1)
  <2> HIDE DEF highs
  <2> QED BY <1>1, <1>2, <1>3, FrontIsBound
<1>5. /\ Len(window.lows) =< period
      /\ n >= period => window.lows # <<>> /\ IsBound(window.lows[1].price, lows, period, -1)
  <2> HIDE DEF lows
  <2> QED BY <1>1, <1>2, <1>3, FrontIsBound
<1>6. ASSUME n >= period
      PROVE  /\ DOMAIN bars = 1..period
             /\ \A i \in 1..period : /\ bars[i].high = highs[n - period + i]
                                   /\ bars[i].low = lows[n - period + i]
                                   /\ bars[i].high \in Int /\ bars[i].low \in Int
  <2>1. \A i \in 1..period : n - period + i \in 1..n /\ (n - period + 1) + i - 1 = n - period + i
    BY <1>2, <1>6
  <2>2. \A i \in (n - period + 1)..n : history[i] \in 1..Len(t)
    BY <1>2, <1>6
  <2>3. /\ ending \in Seq(1..Len(t))
        /\ Len(ending) = IF n - period + 1 <= n THEN n - (n - period + 1) + 1 ELSE 0
        /\ \A i \in 1..(n - (n - period + 1) + 1) : ending[i] = history[(n - period + 1) + i - 1]
    <3> DEFINE from == n - period + 1
               S == 1..Len(t)
    <3>1. from \in Int /\ n \in Int /\ ending = SubSeq(history, from, n)
      BY <1>2 DEF Ending
    <3>2. \A i \in from..n : history[i] \in S
      BY <2>2
    <3> HIDE DEF from, n, ending, S
    <3>3. /\ ending \in Seq(S) /\ Len(ending) = IF from <= n THEN n - from + 1 ELSE 0
          /\ \A i \in 1..(n - from + 1) : ending[i] = history[from + i - 1]
      BY <3>1, <3>2, SubSeqProperties
    <3> QED
      BY <3>3 DEF from, S
  <2>4. n - (n - period + 1) + 1 = period /\ n - period + 1 <= n
    BY <1>2
  <2>5. Len(ending) = period /\ DOMAIN ending = 1..period
        /\ \A i \in 1..period : ending[i] = history[n - period + i]
    BY <2>1, <2>3, <2>4
  <2> HIDE DEF ending
  <2>6. DOMAIN bars = 1..period /\ \A i \in 1..period : bars[i] = t[history[n - period + i]]
    BY <2>5 DEF BarsIn
  <2>7. \A i \in 1..period : /\ highs[n - period + i] = t[history[n - period + i]].high
                           /\ lows[n - period + i] = t[history[n - period + i]].low
    BY <2>1 DEF HighsIn, LowsIn
  <2>8. \A i \in 1..period : t[history[n - period + i]] \in TapeBars
    BY <1>2, <2>1
  <2> HIDE DEF bars, highs, lows
  <2> QED
    BY <2>6, <2>7, <2>8, RollingAssumption
<1> HIDE DEF bars, highs, lows
<1>7. ASSUME n >= period
      PROVE  HighOf(window) = High(bars)
  <2> DEFINE S == {bars[i].high : i \in DOMAIN bars}
             x == window.highs[1].price
  <2>1. S = {bars[i].high : i \in 1..period} /\ S \in SUBSET Int
    BY <1>6, <1>7
  <2>2. IsBound(x, highs, period, 1)
    BY <1>4, <1>7
  <2> HIDE DEF x
  <2>3. x \in S
    BY <1>2, <1>6, <1>7, <2>1, <2>2 DEF IsBound
  <2>4. \A i \in 1..period : x >= bars[i].high
    <3> SUFFICES ASSUME NEW i \in 1..period PROVE x >= bars[i].high
      OBVIOUS
    <3>1. ~Exceeds(bars[i].high, x, 1)
      BY <1>2, <1>6, <1>7, <2>2 DEF IsBound
    <3>2. bars[i].high \in Int /\ x \in Int
      BY <1>6, <1>7, <2>1, <2>3
    <3> QED
      BY <3>1, <3>2 DEF Exceeds
  <2>5. \A y \in S : x >= y
    BY <2>1, <2>4
  <2> HIDE DEF S
  <2>6. Max(S) = x
    BY <2>1, <2>3, <2>5, GreatestIs
  <2> QED
    BY <2>6 DEF S, x, HighOf, High
<1>8. ASSUME n >= period
      PROVE  LowOf(window) = Low(bars)
  <2> DEFINE S == {bars[i].low : i \in DOMAIN bars}
             x == window.lows[1].price
  <2>1. S = {bars[i].low : i \in 1..period} /\ S \in SUBSET Int
    BY <1>6, <1>8
  <2>2. IsBound(x, lows, period, -1)
    BY <1>5, <1>8
  <2> HIDE DEF x
  <2>3. x \in S
    BY <1>2, <1>6, <1>8, <2>1, <2>2 DEF IsBound
  <2>4. \A i \in 1..period : x =< bars[i].low
    <3> SUFFICES ASSUME NEW i \in 1..period PROVE x =< bars[i].low
      OBVIOUS
    <3>1. ~Exceeds(bars[i].low, x, -1)
      BY <1>2, <1>6, <1>8, <2>2 DEF IsBound
    <3>2. bars[i].low \in Int /\ x \in Int
      BY <1>6, <1>8, <2>1, <2>3
    <3> QED
      BY <3>1, <3>2 DEF Exceeds
  <2>5. \A y \in S : x =< y
    BY <2>1, <2>4
  <2> HIDE DEF S
  <2>6. Min(S) = x
    BY <2>1, <2>3, <2>5, LeastIs
  <2> QED
    BY <2>6 DEF S, x, LowOf, Low
<1>9. n >= period => Known(window, period)
  BY <1>1, <1>4, <1>5 DEF Known
<1> QED
  BY <1>1, <1>4, <1>5, <1>7, <1>8, <1>9 DEF bars

-----------------------------------------------------------------------------
(* The average volume                                                      *)

VolumesOf(bars) == [k \in 1..Len(bars) |-> bars[k].volume]

(* The volumes of candles, as the fold adds them up.                       *)
LEMMA VolumeTrace ==
    ASSUME NEW seq \in Seq(TapeBars)
    PROVE  \E T : /\ T[0] = 0
                  /\ VolumeOf(seq) = T[Len(seq)]
                  /\ \A k \in 0..Len(seq) : T[k] \in Int
                  /\ \A k \in 1..Len(seq) : T[k] = T[k - 1] + seq[k].volume
<1> DEFINE n == Len(seq)
           add == [k \in 1..n |-> seq[k].volume]
           step == [z \in (1..n) \X Int |-> z[2] + add[z[1]]]
           Iter(f) == f = [s \in SUBSET (1..n) |->
                            IF s = {} THEN 0 ELSE f[s \ {Max(s)}] + seq[Max(s)].volume]
           V == Int
           zero == 0
           largest == [s \in SUBSET (1..n) |-> Max(s)]
<1>1. n \in Nat /\ DOMAIN seq = 1..n
  OBVIOUS
<1>2. \A k \in 1..n : add[k] \in Int /\ add[k] = seq[k].volume
  BY ElementOfSeq, RollingAssumption
<1> HIDE DEF add
<1>3. \A k \in 1..n, v \in Int : step[<<k, v>>] = v + add[k] /\ step[<<k, v>>] \in Int
  BY <1>2
<1> HIDE DEF n, step
<1>4. zero \in V /\ \A k \in 1..n, v \in V : step[<<k, v>>] \in V
  BY <1>3
<1> HIDE DEF V, zero
<1>5. PICK f : IsFold(f, 1..n, V, zero, largest, step)
  BY <1>1, <1>4, LeftFoldsExist
<1>6. ASSUME NEW s \in SUBSET (1..n), s # {}
      PROVE  f[s] = f[s \ {Max(s)}] + seq[Max(s)].volume
  <2>1. Max(s) \in 1..n /\ s \ {Max(s)} \in SUBSET (1..n) /\ largest[s] = Max(s)
    BY <1>1, <1>6, LargestOfNats
  <2>2. f[s] = step[<<Max(s), f[s \ {Max(s)}]>>] /\ f[s \ {Max(s)}] \in Int
    BY <1>5, <1>6, <2>1 DEF IsFold, V
  <2> QED
    BY <1>2, <1>3, <2>1, <2>2
<1>7. Iter(f)
  BY <1>5, <1>6 DEF IsFold, zero
<1> DEFINE iter == CHOOSE g : Iter(g)
<1>8. Iter(iter)
  BY <1>7
<1>9. VolumeOf(seq) = iter[1..n]
  BY <1>1 DEF VolumeOf, FoldLeft, MapThenFoldSet
<1> HIDE DEF iter
<1> DEFINE T == [k \in 0..n |-> iter[1..k]]
<1>10. T[0] = 0
  <2>1. 1..0 = {} /\ {} \in SUBSET (1..n)
    OBVIOUS
  <2> QED
    BY <1>1, <1>8, <2>1
<1>11. ASSUME NEW k \in 1..n
       PROVE  T[k] = T[k - 1] + seq[k].volume
  <2>1. 1..k \in SUBSET (1..n) /\ k \in Nat /\ k > 0 /\ k - 1 \in 0..n /\ k \in 0..n
    BY <1>1
  <2>2. Max(1..k) = k /\ (1..k) \ {k} = 1..(k - 1) /\ 1..k # {}
    BY <2>1, LargestOfInterval
  <2>3. iter[1..k] = iter[1..(k - 1)] + seq[k].volume
    BY <1>8, <2>1, <2>2
  <2> QED
    BY <2>1, <2>3
<1>12. iter[1..n] = T[n]
  BY <1>1
<1> HIDE DEF T
<1>13. ASSUME NEW k \in 1..n, T[k - 1] \in Int PROVE T[k] \in Int
  BY <1>2, <1>11, <1>13
<1>14. T[0] \in V /\ \A k \in 1..n : T[k - 1] \in V => T[k] \in V
  BY <1>10, <1>13 DEF V
<1>15. \A k \in 0..n : T[k] \in V
  BY <1>1, <1>14, TraceType
<1> QED
  BY <1>9, <1>10, <1>11, <1>12, <1>15 DEF n, V

(* The total with one more candle, and without the oldest one.             *)
LEMMA VolumeAppended ==
    ASSUME NEW seq \in Seq(TapeBars), NEW bar \in TapeBars
    PROVE  VolumeOf(Append(seq, bar)) = VolumeOf(seq) + bar.volume /\ VolumeOf(seq) \in Int
<1> DEFINE n == Len(seq)
           longer == Append(seq, bar)
<1>1. /\ n \in Nat /\ longer \in Seq(TapeBars) /\ Len(longer) = n + 1 /\ longer[n + 1] = bar
      /\ \A k \in 1..n : longer[k] = seq[k]
  OBVIOUS
<1> HIDE DEF longer
<1>2. PICK S : /\ S[0] = 0 /\ VolumeOf(seq) = S[n] /\ \A k \in 0..n : S[k] \in Int
               /\ \A k \in 1..n : S[k] = S[k - 1] + seq[k].volume
  BY VolumeTrace
<1>3. PICK T : /\ T[0] = 0 /\ VolumeOf(longer) = T[n + 1]
               /\ \A k \in 1..(n + 1) : T[k] = T[k - 1] + longer[k].volume
  <2>1. \E T : /\ T[0] = 0 /\ VolumeOf(longer) = T[Len(longer)]
               /\ \A k \in 0..Len(longer) : T[k] \in Int
               /\ \A k \in 1..Len(longer) : T[k] = T[k - 1] + longer[k].volume
    BY <1>1, VolumeTrace
  <2> HIDE DEF n
  <2> QED
    BY <1>1, <2>1
<1> HIDE DEF n
<1>4. ASSUME NEW k \in 1..n, S[k - 1] = T[k - 1] PROVE S[k] = T[k]
  <2>1. k \in 1..(n + 1)
    BY <1>1
  <2> QED
    BY <1>1, <1>2, <1>3, <1>4, <2>1
<1>5. S[n] = T[n]
  <2>1. GoOnAlike(S, T, n)
    BY <1>1, <1>2, <1>3, <1>4 DEF GoOnAlike
  <2>2. n \in 0..n /\ n \in Nat
    BY <1>1
  <2>3. \A k \in 0..n : S[k] = T[k]
    BY ONLY <2>1, TracesAgree
  <2> QED
    BY <2>2, <2>3
<1>6. n \in 0..n /\ n + 1 \in 1..(n + 1) /\ (n + 1) - 1 = n
  BY <1>1
<1>7. T[n + 1] = T[n] + bar.volume
  <2>1. T[n + 1] = T[(n + 1) - 1] + longer[n + 1].volume
    BY <1>3, <1>6
  <2> QED
    BY <1>1, <1>6, <2>1
<1> QED
  BY <1>2, <1>3, <1>5, <1>6, <1>7 DEF longer

LEMMA VolumeOfTail ==
    ASSUME NEW seq \in Seq(TapeBars), seq # <<>>
    PROVE  VolumeOf(Tail(seq)) = VolumeOf(seq) - seq[1].volume
<1> DEFINE n == Len(seq) - 1
           rest == Tail(seq)
<1>1. /\ n \in Nat /\ rest \in Seq(TapeBars) /\ Len(rest) = n /\ Len(seq) = n + 1
      /\ \A k \in 1..n : rest[k] = seq[k + 1]
  OBVIOUS
<1> HIDE DEF rest, n
<1>2. PICK S : /\ S[0] = 0 /\ VolumeOf(rest) = S[n] /\ \A k \in 0..n : S[k] \in Int
               /\ \A k \in 1..n : S[k] = S[k - 1] + rest[k].volume
  BY <1>1, VolumeTrace
<1>3. PICK T : /\ T[0] = 0 /\ VolumeOf(seq) = T[n + 1] /\ \A k \in 0..(n + 1) : T[k] \in Int
               /\ \A k \in 1..(n + 1) : T[k] = T[k - 1] + seq[k].volume
  BY <1>1, VolumeTrace, SMTT(30)
<1>4. \A k \in 1..(n + 1) : seq[k].volume \in Int
  BY <1>1, ElementOfSeq, RollingAssumption
<1> DEFINE U == [k \in 0..n |-> T[k + 1] - seq[1].volume]
<1>5. 0 \in 0..n /\ n \in 0..n /\ 1 \in 1..(n + 1)
  BY <1>1
<1>6. U[0] = S[0]
  <2>1. T[1] = T[1 - 1] + seq[1].volume /\ U[0] = T[0 + 1] - seq[1].volume
    BY <1>3, <1>5
  <2>2. T[1] = 0 + seq[1].volume /\ U[0] = T[1] - seq[1].volume
    BY <1>3, <2>1
  <2> QED
    BY <1>2, <1>4, <1>5, <2>2
<1>7. ASSUME NEW k \in 1..n, S[k - 1] = U[k - 1] PROVE S[k] = U[k]
  <2>1. k + 1 \in 1..(n + 1) /\ k - 1 \in 0..n /\ k \in 0..n /\ (k + 1) - 1 = k /\ (k - 1) + 1 = k
        /\ k \in 0..(n + 1) /\ k + 1 \in 0..(n + 1)
    BY <1>1
  <2>2. T[k + 1] = T[(k + 1) - 1] + seq[k + 1].volume
    BY <1>3, <2>1
  <2>3. U[k - 1] = T[(k - 1) + 1] - seq[1].volume /\ U[k] = T[k + 1] - seq[1].volume
    BY <2>1
  <2>4. S[k] = S[k - 1] + seq[k + 1].volume
    BY <1>1, <1>2
  <2>5. T[k] \in Int /\ seq[k + 1].volume \in Int /\ seq[1].volume \in Int
    BY <1>3, <1>4, <1>5, <2>1
  <2> HIDE DEF U
  <2>6. T[k + 1] = T[k] + seq[k + 1].volume /\ S[k] = U[k - 1] + seq[k + 1].volume
    BY <1>7, <2>1, <2>2, <2>4
  <2>7. U[k - 1] = T[k] - seq[1].volume
    BY <2>1, <2>3
  <2> DEFINE a == T[k]
             b == seq[k + 1].volume
             c == seq[1].volume
  <2>8. /\ a \in Int /\ b \in Int /\ c \in Int
        /\ S[k] = (a - c) + b /\ U[k] = (a + b) - c
    BY <2>3, <2>5, <2>6, <2>7
  <2> HIDE DEF a, b, c
  <2> QED
    BY <2>8
<1>8. U[n] = T[n + 1] - seq[1].volume
  BY <1>5
<1> HIDE DEF U
<1>9. S[n] = U[n]
  <2>1. GoOnAlike(S, U, n)
    BY <1>1, <1>6, <1>7 DEF GoOnAlike
  <2>2. n \in 0..n /\ n \in Nat
    BY <1>1
  <2>3. \A k \in 0..n : S[k] = U[k]
    BY ONLY <2>1, TracesAgree
  <2> QED
    BY <2>2, <2>3
<1> QED
  BY <1>2, <1>3, <1>5, <1>8, <1>9 DEF rest

(* The candles whose volumes are kept.                                     *)
KeptBars(t, history, most) == BarsIn(t, Ending(history, Min({Len(history), most})))

(* The kept volumes, and their total.                                      *)
VolumeOK(t, average, history) ==
    /\ history \in Seq(1..Len(t))
    /\ average = [values |-> average.values, total |-> average.total, last |-> average.last]
    /\ average.values = VolumesOf(KeptBars(t, history, Breakout.lookback))
    /\ average.total = VolumeOf(KeptBars(t, history, Breakout.lookback))

LEMMA LessOf ==
    ASSUME NEW a \in Int, NEW b \in Int
    PROVE  (a =< b => Min({a, b}) = a) /\ (b =< a => Min({a, b}) = b)
<1>1. {a, b} \in SUBSET Int /\ a \in {a, b} /\ b \in {a, b}
  OBVIOUS
<1>2. a =< b => Min({a, b}) = a
  BY <1>1, LeastIs
<1>3. b =< a => Min({a, b}) = b
  BY <1>1, LeastIs
<1> QED
  BY <1>2, <1>3

(* c bars are kept of the history, at most so many.                        *)
Keeps(t, history, most, c) ==
    /\ t \in Seq(TapeBars) /\ history \in Seq(1..Len(t)) /\ most \in Nat
    /\ c \in Nat /\ c =< Len(history) /\ c =< most /\ (c = Len(history) \/ c = most)

LEMMA KeptIs ==
    ASSUME NEW t, NEW history, NEW most, NEW c, Keeps(t, history, most, c)
    PROVE  /\ KeptBars(t, history, most) \in Seq(TapeBars)
           /\ Len(KeptBars(t, history, most)) = c
           /\ DOMAIN KeptBars(t, history, most) = 1..c
           /\ \A i \in 1..c : KeptBars(t, history, most)[i] = t[history[Len(history) - c + i]]
<1> DEFINE n == Len(history)
           from == n - c + 1
           S == 1..Len(t)
           ending == Ending(history, c)
           bars == BarsIn(t, ending)
<1>0. /\ t \in Seq(TapeBars) /\ history \in Seq(1..Len(t)) /\ most \in Nat
      /\ c \in Nat /\ c =< Len(history) /\ c =< most /\ (c = Len(history) \/ c = most)
  BY DEF Keeps
<1> USE <1>0
<1>1. n \in Nat /\ \A k \in 1..n : history[k] \in S /\ t[history[k]] \in TapeBars
  BY HistoryIs
<1>2. Min({n, most}) = c
  <2> HIDE DEF n
  <2> QED BY <1>1, LessOf DEF n
<1>3. KeptBars(t, history, most) = bars
  BY <1>2 DEF KeptBars
<1>4. from \in Int /\ n \in Int /\ ending = SubSeq(history, from, n)
  BY <1>1 DEF Ending
<1>5. \A i \in from..n : history[i] \in S
  BY <1>1
<1>6. from <= n + 1 /\ n - from + 1 = c /\ (from <= n \/ c = 0)
      /\ \A i \in 1..c : from + i - 1 = n - c + i /\ n - c + i \in 1..n
  BY <1>1
<1> HIDE DEF from, n, ending, S
<1>7. /\ ending \in Seq(S) /\ Len(ending) = IF from <= n THEN n - from + 1 ELSE 0
      /\ \A i \in 1..(n - from + 1) : ending[i] = history[from + i - 1]
  BY <1>4, <1>5, SubSeqProperties
<1>8. Len(ending) = c /\ DOMAIN ending = 1..c /\ \A i \in 1..c : ending[i] = history[n - c + i]
  <2>1. Len(ending) = c
    BY <1>4, <1>6, <1>7
  <2>2. DOMAIN ending = 1..c
    BY <1>7, <2>1
  <2> QED
    BY <1>6, <1>7, <2>1, <2>2
<1>9. bars = [i \in 1..c |-> t[history[n - c + i]]]
  BY <1>8 DEF BarsIn
<1>10. \A i \in 1..c : t[history[n - c + i]] \in TapeBars
  BY <1>1, <1>6
<1>11. bars \in [1..c -> TapeBars] /\ DOMAIN bars = 1..c /\ \A i \in 1..c : bars[i] = t[history[n - c + i]]
  BY <1>9, <1>10
<1> HIDE DEF bars
<1>12. bars \in Seq(TapeBars) /\ Len(bars) = c
  <2>1. \A f \in [1..c -> TapeBars] : f \in Seq(TapeBars) /\ Len(f) = c
    OBVIOUS
  <2> QED
    BY <1>11, <2>1
<1> QED
  BY <1>3, <1>11, <1>12 DEF n

LEMMA KeptExists ==
    ASSUME NEW n \in Nat, NEW most \in Nat
    PROVE  \E c \in Nat : c =< n /\ c =< most /\ (c = n \/ c = most)
<1>1. CASE n =< most
  BY <1>1
<1>2. CASE most =< n
  BY <1>2
<1> QED
  BY <1>1, <1>2

LEMMA VolumesAppended ==
    ASSUME NEW bars \in Seq(TapeBars), NEW bar \in TapeBars
    PROVE  VolumesOf(Append(bars, bar)) = Append(VolumesOf(bars), bar.volume)
<1> DEFINE n == Len(bars)
           longer == Append(bars, bar)
<1>1. /\ n \in Nat /\ Len(longer) = n + 1 /\ longer[n + 1] = bar
      /\ \A k \in 1..n : longer[k] = bars[k]
  OBVIOUS
<1> HIDE DEF longer
<1>2. VolumesOf(longer) = [k \in 1..(n + 1) |-> longer[k].volume]
  BY <1>1 DEF VolumesOf
<1>3. Len(VolumesOf(bars)) = n
  BY <1>1 DEF VolumesOf
<1> HIDE DEF n
<1>4. Append(VolumesOf(bars), bar.volume)
        = [k \in 1..(n + 1) |-> IF k = n + 1 THEN bar.volume ELSE VolumesOf(bars)[k]]
  BY <1>1, <1>3
<1>5. ASSUME NEW k \in 1..(n + 1)
      PROVE  longer[k].volume = IF k = n + 1 THEN bar.volume ELSE VolumesOf(bars)[k]
  <2>1. k # n + 1 => k \in 1..n
    BY <1>1
  <2> QED
    BY <1>1, <2>1 DEF VolumesOf, n
<1> QED
  BY <1>2, <1>4, <1>5 DEF longer

LEMMA VolumesOfTail ==
    ASSUME NEW bars \in Seq(TapeBars), bars # <<>>
    PROVE  VolumesOf(Tail(bars)) = Tail(VolumesOf(bars)) /\ VolumesOf(bars)[1] = bars[1].volume
<1> DEFINE n == Len(bars) - 1
<1>1. n \in Nat /\ Len(bars) = n + 1 /\ Len(Tail(bars)) = n /\ \A k \in 1..n : Tail(bars)[k] = bars[k + 1]
  OBVIOUS
<1>2. VolumesOf(Tail(bars)) = [k \in 1..n |-> bars[k + 1].volume]
  BY <1>1 DEF VolumesOf
<1>3. VolumesOf(bars) = [k \in 1..(n + 1) |-> bars[k].volume] /\ Len(VolumesOf(bars)) = n + 1
  BY <1>1 DEF VolumesOf
<1> HIDE DEF n
<1>4. Tail(VolumesOf(bars)) = [k \in 1..n |-> VolumesOf(bars)[k + 1]]
  BY <1>1, <1>3
<1>5. \A k \in 1..n : k + 1 \in 1..(n + 1) /\ VolumesOf(bars)[k + 1] = bars[k + 1].volume
  BY <1>1, <1>3
<1>6. 1 \in 1..(n + 1)
  BY <1>1
<1> QED
  BY <1>2, <1>3, <1>4, <1>5, <1>6

LEMMA LastOrBefore ==
    ASSUME NEW c \in Nat, NEW i \in 1..(c + 1)
    PROVE  i = c + 1 \/ i \in 1..c
OBVIOUS

(* The candles kept when another one is averaged.                          *)
LEMMA KeptFed ==
    ASSUME NEW t \in Seq(TapeBars), NEW history \in Seq(1..Len(t)), NEW nr \in 1..Len(t),
           NEW most \in Nat \ {0}
    PROVE  LET kept == KeptBars(t, history, most)
               next == KeptBars(t, Append(history, nr), most)
           IN  /\ Len(kept) < most => next = Append(kept, t[nr])
               /\ Len(kept) >= most => kept # <<>> /\ Len(kept) = most /\ next = Append(Tail(kept), t[nr])
<1> DEFINE n == Len(history)
           longer == Append(history, nr)
           kept == KeptBars(t, history, most)
           next == KeptBars(t, longer, most)
<1>1. /\ n \in Nat /\ longer \in Seq(1..Len(t)) /\ Len(longer) = n + 1 /\ longer[n + 1] = nr
      /\ \A k \in 1..n : longer[k] = history[k]
  BY HistoryIs
<1>2. PICK c \in Nat : c =< n /\ c =< most /\ (c = n \/ c = most)
  BY <1>1, KeptExists
<1>3. /\ kept \in Seq(TapeBars) /\ Len(kept) = c
      /\ \A i \in 1..c : kept[i] = t[history[n - c + i]]
  <2>1. Keeps(t, history, most, c)
    BY <1>2 DEF Keeps
  <2> QED
    BY <2>1, KeptIs
<1> HIDE DEF kept, longer
<1>4. CASE c < most
  <2>1. c = n /\ c + 1 \in Nat /\ c + 1 =< most /\ c + 1 = Len(longer)
    BY <1>1, <1>2, <1>4
  <2>2. /\ next \in Seq(TapeBars) /\ Len(next) = c + 1
        /\ \A i \in 1..(c + 1) : next[i] = t[longer[Len(longer) - (c + 1) + i]]
    <3> DEFINE d == c + 1
    <3>1. Keeps(t, longer, most, d)
      BY <1>1, <2>1 DEF Keeps
    <3> HIDE DEF d, n
    <3>2. /\ next \in Seq(TapeBars) /\ Len(next) = d
          /\ \A i \in 1..d : next[i] = t[longer[Len(longer) - d + i]]
      BY <3>1, KeptIs
    <3> QED
      BY <3>2 DEF d
  <2> HIDE DEF next
  <2>3. ASSUME NEW i \in 1..(c + 1) PROVE next[i] = Append(kept, t[nr])[i]
    <3>1. Len(longer) - (c + 1) + i = i /\ next[i] = t[longer[i]]
      BY <1>1, <2>1, <2>2
    <3>2. CASE i = c + 1
      <4>1. longer[i] = nr /\ next[i] = t[nr]
        BY <1>1, <2>1, <3>1, <3>2
      <4>2. Append(kept, t[nr])[c + 1] = t[nr]
        BY <1>3
      <4> QED
        BY <3>2, <4>1, <4>2
    <3>3. CASE i \in 1..c
      <4>1. kept[i] = t[history[i]] /\ longer[i] = history[i]
        BY <1>1, <1>3, <2>1, <3>3
      <4>2. next[i] = kept[i]
        BY <3>1, <4>1
      <4>3. Append(kept, t[nr])[i] = kept[i]
        BY <1>3, <3>3
      <4> QED
        BY <4>2, <4>3
    <3> QED
      <4>1. i = c + 1 \/ i \in 1..c
        BY LastOrBefore
      <4> QED
        BY <3>2, <3>3, <4>1
  <2>4. Append(kept, t[nr]) \in Seq(TapeBars) /\ Len(Append(kept, t[nr])) = c + 1
    BY <1>3, HistoryIs
  <2>5. next = Append(kept, t[nr])
    BY <2>2, <2>3, <2>4, SeqEqual
  <2> QED
    BY <1>3, <1>4, <2>5 DEF kept, next, longer
<1>5. CASE c = most
  <2>1. c > 0 /\ c =< Len(longer)
    BY <1>1, <1>2, <1>5
  <2>2. /\ next \in Seq(TapeBars) /\ Len(next) = c
        /\ \A i \in 1..c : next[i] = t[longer[Len(longer) - c + i]]
    <3>1. Keeps(t, longer, most, c)
      BY <1>1, <1>5, <2>1 DEF Keeps
    <3> DEFINE d == c
    <3>2. Keeps(t, longer, most, d)
      BY <3>1
    <3> HIDE DEF d, n
    <3>3. /\ next \in Seq(TapeBars) /\ Len(next) = d
          /\ \A i \in 1..d : next[i] = t[longer[Len(longer) - d + i]]
      BY <3>2, KeptIs
    <3> QED
      BY <3>3 DEF d
  <2> HIDE DEF next
  <2>3. kept # <<>> /\ Tail(kept) \in Seq(TapeBars) /\ Len(Tail(kept)) = c - 1
        /\ \A i \in 1..(c - 1) : Tail(kept)[i] = kept[i + 1]
    BY <1>3, <2>1
  <2> DEFINE rest == Tail(kept)
  <2> HIDE DEF rest
  <2>4. /\ Append(rest, t[nr]) \in Seq(TapeBars) /\ Len(Append(rest, t[nr])) = c
        /\ Append(rest, t[nr])[c] = t[nr]
        /\ \A i \in 1..(c - 1) : Append(rest, t[nr])[i] = kept[i + 1]
    BY <2>3, HistoryIs DEF rest
  <2>5. ASSUME NEW i \in 1..c PROVE next[i] = Append(rest, t[nr])[i]
    <3>5. Len(longer) - c + i = n - c + (i + 1)
      BY <1>1, <1>2
    <3>1. next[i] = t[longer[n - c + (i + 1)]]
      <4> HIDE DEF n
      <4> QED BY <2>2, <3>5
    <3>2. CASE i = c
      <4>1. n - c + (i + 1) = n + 1
        BY <1>1, <3>2
      <4> QED
        BY <1>1, <2>4, <3>1, <3>2, <4>1
    <3>3. CASE i \in 1..(c - 1)
      <4>1. i + 1 \in 1..c /\ n - c + (i + 1) \in 1..n
        BY <1>1, <1>2, <3>3
      <4>2. kept[i + 1] = t[history[n - c + (i + 1)]] /\ longer[n - c + (i + 1)] = history[n - c + (i + 1)]
        BY <1>1, <1>3, <4>1
      <4> QED
        BY <2>4, <3>1, <3>3, <4>2
    <3>4. i = c \/ i \in 1..(c - 1)
      BY <1>2
    <3> QED
      BY <3>2, <3>3, <3>4
  <2>6. next = Append(rest, t[nr])
    BY <2>2, <2>4, <2>5, SeqEqual
  <2> QED
    BY <1>3, <1>5, <2>3, <2>6 DEF kept, next, longer, rest
<1> QED
  BY <1>2, <1>4, <1>5

(* One more volume is averaged.                                            *)
LEMMA VolumeFed ==
    ASSUME NEW t \in Seq(TapeBars), NEW average, NEW history, VolumeOK(t, average, history),
           NEW n \in 2..Len(t), NEW market, Len(market) = n, Back(market, 1) = t[n - 1],
           average.last # n - 1
    PROVE  /\ VolumeOK(t, Averaged(average, market), Append(history, n - 1))
           /\ Averaged(average, market) # average
<1> DEFINE nr == n - 1
           most == Breakout.lookback
           kept == KeptBars(t, history, most)
           longer == Append(history, nr)
           next == KeptBars(t, longer, most)
           bar == t[nr]
           fresh == Averaged(average, market)
           values == VolumesOf(kept)
           total == VolumeOf(kept)
           over == Len(Append(values, bar.volume)) > most
<1>1. /\ nr \in 1..Len(t) /\ most \in Nat \ {0} /\ history \in Seq(1..Len(t))
      /\ Len(market) - 1 = nr /\ Back(market, 1) = bar
  BY HistoryIs, RollingAssumption DEF VolumeOK
<1>2. bar \in TapeBars /\ Len(history) \in Nat /\ longer \in Seq(1..Len(t))
  BY <1>1, HistoryIs, HistoryFed
<1>3. average.values = values /\ average.total = total
  BY DEF VolumeOK
<1>4. fresh = [last |-> nr,
               values |-> IF over THEN Tail(Append(values, bar.volume)) ELSE Append(values, bar.volume),
               total |-> total + bar.volume - (IF over THEN Append(values, bar.volume)[1] ELSE 0)]
  BY <1>1, <1>3 DEF Averaged
<1>5. /\ Len(kept) < most => next = Append(kept, bar)
      /\ Len(kept) >= most => kept # <<>> /\ Len(kept) = most /\ next = Append(Tail(kept), bar)
  BY <1>1, KeptFed
<1>6. kept \in Seq(TapeBars)
  <2>1. PICK c \in Nat : c =< Len(history) /\ c =< most /\ (c = Len(history) \/ c = most)
    BY <1>1, <1>2, KeptExists
  <2>2. Keeps(t, history, most, c)
    BY <1>1, <2>1 DEF Keeps
  <2> QED
    BY <2>2, KeptIs
<1> HIDE DEF nr, most, kept, next, bar, fresh
<1>7. /\ Len(kept) \in Nat /\ Len(values) = Len(kept) /\ values \in Seq(Int)
      /\ total \in Int /\ bar.volume \in Int
  <2>1. Len(kept) \in Nat /\ \A k \in 1..Len(kept) : kept[k].volume \in Int
    BY <1>6, ElementOfSeq, RollingAssumption
  <2>2. values \in [1..Len(kept) -> Int]
    BY <2>1 DEF VolumesOf
  <2>3. \A m \in Nat : \A f \in [1..m -> Int] : f \in Seq(Int) /\ Len(f) = m
    OBVIOUS
  <2> QED
    BY <1>2, <1>6, <2>1, <2>2, <2>3, VolumeAppended, RollingAssumption
<1>8. over <=> Len(kept) + 1 > most
  BY <1>7
<1>9. CASE Len(kept) < most
  <2>1. ~over
    BY <1>1, <1>7, <1>8, <1>9
  <2>2. fresh = [last |-> nr, values |-> Append(values, bar.volume), total |-> total + bar.volume - 0]
    BY <1>4, <2>1
  <2>3. fresh.values = VolumesOf(next) /\ fresh.total = VolumeOf(next)
    <3>1. VolumesOf(next) = Append(values, bar.volume)
      BY <1>2, <1>5, <1>6, <1>9, VolumesAppended
    <3>2. VolumeOf(next) = total + bar.volume
      BY <1>2, <1>5, <1>6, <1>9, VolumeAppended
    <3> QED
      BY <1>7, <2>2, <3>1, <3>2
  <2>4. fresh = [values |-> fresh.values, total |-> fresh.total, last |-> fresh.last] /\ fresh.last = nr
    BY <2>2
  <2> QED
    BY <1>2, <2>3, <2>4 DEF VolumeOK, fresh, next, nr, most
<1>10. CASE Len(kept) >= most
  <2>1. over /\ kept # <<>> /\ next = Append(Tail(kept), bar)
    BY <1>1, <1>5, <1>7, <1>8, <1>10
  <2>2. /\ Tail(Append(values, bar.volume)) = Append(Tail(values), bar.volume)
        /\ Append(values, bar.volume)[1] = values[1]
    <3>1. \A seq \in Seq(Int), v \in Int : seq # <<>> =>
             /\ Tail(Append(seq, v)) = Append(Tail(seq), v) /\ Append(seq, v)[1] = seq[1]
      <4> SUFFICES ASSUME NEW seq \in Seq(Int), NEW v \in Int, seq # <<>>
                   PROVE  Tail(Append(seq, v)) = Append(Tail(seq), v) /\ Append(seq, v)[1] = seq[1]
        OBVIOUS
      <4>1. /\ Tail(Append(seq, v)) \in Seq(Int) /\ Append(Tail(seq), v) \in Seq(Int)
            /\ Len(Tail(Append(seq, v))) = Len(seq) /\ Len(Append(Tail(seq), v)) = Len(seq)
        <5> DEFINE long == Append(seq, v)
                   tail == Tail(seq)
        <5>1. long \in Seq(Int) /\ Len(long) = Len(seq) + 1 /\ Len(seq) \in Nat /\ long # <<>>
          OBVIOUS
        <5>2. tail \in Seq(Int) /\ Len(tail) = Len(seq) - 1
          OBVIOUS
        <5> HIDE DEF long, tail
        <5>3. Tail(long) \in Seq(Int) /\ Len(Tail(long)) = Len(seq)
          BY <5>1
        <5>4. Append(tail, v) \in Seq(Int) /\ Len(Append(tail, v)) = Len(seq)
          BY <5>1, <5>2
        <5> QED
          BY <5>3, <5>4 DEF long, tail
      <4>2. ASSUME NEW k \in 1..Len(seq)
            PROVE  Tail(Append(seq, v))[k] = Append(Tail(seq), v)[k]
        <5>1. Tail(Append(seq, v))[k] = Append(seq, v)[k + 1]
          BY <4>1
        <5>2. CASE k = Len(seq)
          BY <5>1, <5>2
        <5>3. CASE k \in 1..(Len(seq) - 1)
          <6>1. Append(seq, v)[k + 1] = seq[k + 1]
            BY <5>3
          <6>2. Append(Tail(seq), v)[k] = Tail(seq)[k] /\ Tail(seq)[k] = seq[k + 1]
            BY <5>3
          <6> QED
            BY <5>1, <6>1, <6>2
        <5>4. k = Len(seq) \/ k \in 1..(Len(seq) - 1)
          OBVIOUS
        <5> QED
          BY <5>2, <5>3, <5>4
      <4>3. Tail(Append(seq, v)) = Append(Tail(seq), v)
        BY <4>1, <4>2, SeqEqual
      <4> QED
        BY <4>3
    <3>2. values # <<>>
      BY <1>7, <2>1
    <3> QED
      BY <1>7, <3>1, <3>2
  <2>3. fresh = [last |-> nr, values |-> Append(Tail(values), bar.volume),
                 total |-> total + bar.volume - values[1]]
    BY <1>4, <2>1, <2>2
  <2>4. fresh.values = VolumesOf(next) /\ fresh.total = VolumeOf(next)
    <3>1. /\ Tail(kept) \in Seq(TapeBars) /\ VolumesOf(Tail(kept)) = Tail(values)
          /\ values[1] = kept[1].volume
      BY <1>6, <2>1, VolumesOfTail
    <3>2. VolumesOf(next) = Append(Tail(values), bar.volume)
      BY <1>2, <2>1, <3>1, VolumesAppended
    <3>3. VolumeOf(next) = VolumeOf(Tail(kept)) + bar.volume
      BY <1>2, <2>1, <3>1, VolumeAppended
    <3>4. VolumeOf(Tail(kept)) = total - kept[1].volume
      BY <1>6, <2>1, VolumeOfTail
    <3>5. kept[1].volume \in Int
      BY <1>6, <1>7, <2>1, ElementOfSeq, RollingAssumption
    <3>6. fresh.total = total + bar.volume - kept[1].volume /\ VolumeOf(next) = total - kept[1].volume + bar.volume
      BY <2>3, <3>1, <3>3, <3>4
    <3> HIDE DEF total
    <3>7. fresh.total = VolumeOf(next)
      BY <1>7, <3>5, <3>6
    <3> QED
      BY <2>3, <3>2, <3>7
  <2>5. fresh = [values |-> fresh.values, total |-> fresh.total, last |-> fresh.last] /\ fresh.last = nr
    BY <2>3
  <2> QED
    BY <1>2, <2>4, <2>5 DEF VolumeOK, fresh, next, nr, most
<1> QED
  BY <1>1, <1>7, <1>9, <1>10

LEMMA VolumeStays ==
    ASSUME NEW t \in Seq(TapeBars), NEW u \in Seq(TapeBars), Grows(t, u),
           NEW average, NEW history, VolumeOK(t, average, history)
    PROVE  VolumeOK(u, average, history)
<1> DEFINE most == Breakout.lookback
           n == Len(history)
<1>1. /\ history \in Seq(1..Len(t)) /\ most \in Nat /\ n \in Nat
      /\ \A k \in 1..n : history[k] \in 1..Len(t)
  BY HistoryIs, RollingAssumption DEF VolumeOK
<1>2. history \in Seq(1..Len(u))
  <2> DEFINE S == 1..Len(t)
             T == 1..Len(u)
  <2>1. Len(t) \in Nat /\ Len(u) \in Nat
    OBVIOUS
  <2>2. S \subseteq T
    BY <2>1 DEF Grows
  <2>3. history \in Seq(S)
    BY <1>1
  <2> HIDE DEF S, T
  <2>4. history \in Seq(T)
    BY <2>2, <2>3
  <2> QED
    BY <2>4 DEF T
<1>3. PICK c \in Nat : c =< n /\ c =< most /\ (c = n \/ c = most)
  BY <1>1, KeptExists
<1>4. KeptBars(u, history, most) = KeptBars(t, history, most)
  <2>1. /\ KeptBars(t, history, most) \in Seq(TapeBars) /\ Len(KeptBars(t, history, most)) = c
        /\ \A i \in 1..c : KeptBars(t, history, most)[i] = t[history[n - c + i]]
    <3>1. Keeps(t, history, most, c)
      BY <1>1, <1>3 DEF Keeps
    <3> HIDE DEF n, most
    <3>2. /\ KeptBars(t, history, most) \in Seq(TapeBars) /\ Len(KeptBars(t, history, most)) = c
          /\ \A i \in 1..c : KeptBars(t, history, most)[i] = t[history[Len(history) - c + i]]
      BY <3>1, KeptIs
    <3> QED
      BY <3>2 DEF n
  <2>2. /\ KeptBars(u, history, most) \in Seq(TapeBars) /\ Len(KeptBars(u, history, most)) = c
        /\ \A i \in 1..c : KeptBars(u, history, most)[i] = u[history[n - c + i]]
    <3> HIDE DEF n, most
    <3>1. Keeps(u, history, most, c)
      BY <1>1, <1>2, <1>3 DEF n, Keeps
    <3>2. /\ KeptBars(u, history, most) \in Seq(TapeBars) /\ Len(KeptBars(u, history, most)) = c
          /\ \A i \in 1..c : KeptBars(u, history, most)[i] = u[history[Len(history) - c + i]]
      BY <3>1, KeptIs
    <3> QED
      BY <3>2 DEF n
  <2>3. \A i \in 1..c : n - c + i \in 1..n
    BY <1>1, <1>3
  <2>4. \A i \in 1..c : u[history[n - c + i]] = t[history[n - c + i]]
    BY <1>1, <2>3 DEF Grows
  <2> HIDE DEF n, most
  <2> DEFINE a == KeptBars(t, history, most)
             b == KeptBars(u, history, most)
  <2>5. a \in Seq(TapeBars) /\ b \in Seq(TapeBars) /\ Len(a) = Len(b) /\ \A i \in 1..Len(a) : a[i] = b[i]
    <3> HIDE DEF a, b
    <3>1. /\ a \in Seq(TapeBars) /\ Len(a) = c /\ b \in Seq(TapeBars) /\ Len(b) = c
          /\ \A i \in 1..c : a[i] = t[history[n - c + i]]
          /\ \A i \in 1..c : b[i] = u[history[n - c + i]]
      BY <2>1, <2>2 DEF a, b
    <3> QED
      BY <2>4, <3>1
  <2> HIDE DEF a, b
  <2>6. a = b
    BY <2>5, SeqEqual
  <2> QED
    BY <2>6 DEF a, b
<1> QED
  BY <1>2, <1>4 DEF VolumeOK

LEMMA NewVolume ==
    ASSUME NEW t \in Seq(TapeBars)
    PROVE  VolumeOK(t, NewAverage, <<>>)
<1> DEFINE none == KeptBars(t, <<>>, Breakout.lookback)
<1>1. <<>> \in Seq(1..Len(t)) /\ Len(<<>>) = 0 /\ Breakout.lookback \in Nat
  BY RollingAssumption
<1>2. none \in Seq(TapeBars) /\ Len(none) = 0
  <2> DEFINE empty == <<>>
             zero == 0
  <2>1. Keeps(t, empty, Breakout.lookback, zero)
    BY <1>1 DEF Keeps
  <2> HIDE DEF empty, zero
  <2>2. KeptBars(t, empty, Breakout.lookback) \in Seq(TapeBars)
        /\ Len(KeptBars(t, empty, Breakout.lookback)) = zero
    BY <2>1, KeptIs
  <2> QED
    BY <2>2 DEF empty, zero
<1> HIDE DEF none
<1>3. VolumesOf(none) = <<>>
  BY <1>2 DEF VolumesOf
<1>4. VolumeOf(none) = 0
  BY <1>2, VolumeTrace
<1> QED
  BY <1>1, <1>3, <1>4 DEF VolumeOK, NewAverage, none

-----------------------------------------------------------------------------
(* What was decided                                                        *)

WidestOf(t, history, period) == High(BarsIn(t, Ending(history, period)))
LowestOf(t, history, period) == Low(BarsIn(t, Ending(history, period)))

(* The last decision, at candle at, was taken on the candles that the      *)
(* window was fed with.                                                    *)
EdgeSaid(t, nr, decision, window, history) ==
    /\ nr \in 0..Len(t)
    /\ nr >= Edge.range + 2 =>
         /\ window.last = nr
         /\ Len(history) < Edge.range => decision = "wait"
         /\ Len(history) >= Edge.range =>
              decision = EdgeDirection(SubSeq(t, 1, nr), LowestOf(t, history, Edge.range),
                                       WidestOf(t, history, Edge.range))

(* A signal of the breakout at candle nr, given the bounds of its windows. *)
BreakoutSaid(t, nr, decision, lookback, compression, wide, narrow) ==
    /\ nr \in 0..Len(t)
    /\ nr >= Largest(Breakout.lookback, Breakout.filter) + 2 =>
         /\ lookback.last = nr /\ compression.last = nr
         /\ decision \in {"long", "short"} =>
              /\ Len(wide) >= Breakout.lookback /\ Len(narrow) >= Breakout.compression
              /\ Compressed(LowestOf(t, wide, Breakout.lookback), WidestOf(t, wide, Breakout.lookback),
                            LowestOf(t, narrow, Breakout.compression),
                            WidestOf(t, narrow, Breakout.compression))
              /\ decision = BreakoutDirection(SubSeq(t, 1, nr), LowestOf(t, wide, Breakout.lookback),
                                              WidestOf(t, wide, Breakout.lookback))

LEMMA MarketIs ==
    ASSUME NEW t \in Seq(TapeBars), NEW n \in 0..Len(t)
    PROVE  /\ SubSeq(t, 1, n) \in Seq(TapeBars) /\ Len(SubSeq(t, 1, n)) = n
           /\ \A k \in 1..n : SubSeq(t, 1, n)[k] = t[k]
           /\ n >= 2 => Back(SubSeq(t, 1, n), 1) = t[n - 1]
<1> DEFINE market == SubSeq(t, 1, n)
<1>1. Len(t) \in Nat /\ n \in Nat /\ \A k \in 1..n : t[k] \in TapeBars
  BY HistoryIs, ElementOfSeq
<1>2. /\ market \in Seq(TapeBars) /\ Len(market) = IF 1 <= n THEN n - 1 + 1 ELSE 0
      /\ \A k \in 1..(n - 1 + 1) : market[k] = t[1 + k - 1]
  BY <1>1, SubSeqProperties
<1> HIDE DEF market
<1>3. Len(market) = n /\ \A k \in 1..n : market[k] = t[k]
  BY <1>1, <1>2
<1>4. n >= 2 => Back(market, 1) = t[n - 1]
  BY <1>1, <1>3 DEF Back
<1> QED
  BY <1>2, <1>3, <1>4 DEF market

LEMMA EndingIs ==
    ASSUME NEW t \in Seq(TapeBars), NEW history \in Seq(1..Len(t)), NEW period \in Nat,
           period =< Len(history)
    PROVE  /\ BarsIn(t, Ending(history, period)) \in Seq(TapeBars)
           /\ Len(BarsIn(t, Ending(history, period))) = period
           /\ \A i \in 1..period :
                BarsIn(t, Ending(history, period))[i] = t[history[Len(history) - period + i]]
           /\ \A i \in 1..period : /\ Len(history) - period + i \in 1..Len(history)
                                 /\ Ending(history, period)[i] = history[Len(history) - period + i]
           /\ Len(Ending(history, period)) = period
<1> DEFINE n == Len(history)
           from == n - period + 1
           S == 1..Len(t)
           ending == Ending(history, period)
           bars == BarsIn(t, ending)
<1>1. n \in Nat /\ \A k \in 1..n : history[k] \in S /\ t[history[k]] \in TapeBars
  BY HistoryIs
<1>4. from \in Int /\ n \in Int /\ ending = SubSeq(history, from, n)
  BY <1>1 DEF Ending
<1>5. \A i \in from..n : history[i] \in S
  BY <1>1
<1>6. from <= n + 1 /\ n - from + 1 = period /\ (from <= n \/ period = 0)
      /\ \A i \in 1..period : from + i - 1 = n - period + i /\ n - period + i \in 1..n
  BY <1>1
<1> HIDE DEF from, n, ending, S
<1>7. /\ ending \in Seq(S) /\ Len(ending) = IF from <= n THEN n - from + 1 ELSE 0
      /\ \A i \in 1..(n - from + 1) : ending[i] = history[from + i - 1]
  BY <1>4, <1>5, SubSeqProperties
<1>8. Len(ending) = period /\ DOMAIN ending = 1..period
      /\ \A i \in 1..period : ending[i] = history[n - period + i]
  <2>1. Len(ending) = period
    BY <1>4, <1>6, <1>7
  <2>2. DOMAIN ending = 1..period
    BY <1>7, <2>1
  <2> QED
    BY <1>6, <1>7, <2>1, <2>2
<1>9. bars = [i \in 1..period |-> t[history[n - period + i]]]
  BY <1>8 DEF BarsIn
<1>10. \A i \in 1..period : t[history[n - period + i]] \in TapeBars
  BY <1>1, <1>6
<1>11. bars \in [1..period -> TapeBars] /\ \A i \in 1..period : bars[i] = t[history[n - period + i]]
  BY <1>9, <1>10
<1> HIDE DEF bars
<1>12. bars \in Seq(TapeBars) /\ Len(bars) = period
  <2>1. \A f \in [1..period -> TapeBars] : f \in Seq(TapeBars) /\ Len(f) = period
    OBVIOUS
  <2> QED
    BY <1>11, <2>1
<1> QED
  BY <1>6, <1>8, <1>11, <1>12 DEF n, ending, bars

LEMMA EndingStays ==
    ASSUME NEW t \in Seq(TapeBars), NEW u \in Seq(TapeBars), Grows(t, u),
           NEW history \in Seq(1..Len(t)), NEW period \in Nat, period =< Len(history)
    PROVE  /\ LowestOf(u, history, period) = LowestOf(t, history, period)
           /\ WidestOf(u, history, period) = WidestOf(t, history, period)
<1> DEFINE e == Ending(history, period)
<1>1. \A k \in DOMAIN e : e[k] \in 1..Len(t)
  <2>1. /\ Len(e) = period /\ \A i \in 1..period : e[i] = history[Len(history) - period + i]
        /\ \A i \in 1..period : Len(history) - period + i \in 1..Len(history)
    BY EndingIs
  <2>2. DOMAIN e = 1..period
    BY <2>1 DEF Ending
  <2> HIDE DEF e
  <2>3. \A k \in 1..Len(history) : history[k] \in 1..Len(t)
    BY HistoryIs
  <2> QED
    BY <2>1, <2>2, <2>3
<1> HIDE DEF e
<1>2. BarsIn(u, e) = BarsIn(t, e)
  BY <1>1 DEF BarsIn, Grows
<1> QED
  BY <1>2 DEF e, LowestOf, WidestOf

LEMMA MarketStays ==
    ASSUME NEW t \in Seq(TapeBars), NEW u \in Seq(TapeBars), Grows(t, u), NEW n \in 0..Len(t)
    PROVE  SubSeq(u, 1, n) = SubSeq(t, 1, n) /\ n \in 0..Len(u)
<1>1. n \in 0..Len(u) /\ n \in Nat
  BY DEF Grows
<1> DEFINE a == SubSeq(t, 1, n)
           b == SubSeq(u, 1, n)
<1>2. a \in Seq(TapeBars) /\ Len(a) = n /\ \A k \in 1..n : a[k] = t[k]
  BY MarketIs
<1>3. b \in Seq(TapeBars) /\ Len(b) = n /\ \A k \in 1..n : b[k] = u[k]
  BY <1>1, MarketIs
<1>4. \A k \in 1..n : u[k] = t[k]
  BY DEF Grows
<1> HIDE DEF a, b
<1>5. b = a
  BY <1>2, <1>3, <1>4, SeqEqual
<1> QED
  BY <1>1, <1>5 DEF a, b

LEMMA EdgeStays ==
    ASSUME NEW t \in Seq(TapeBars), NEW u \in Seq(TapeBars), Grows(t, u),
           NEW nr, NEW decision, NEW window, NEW history \in Seq(1..Len(t)),
           EdgeSaid(t, nr, decision, window, history)
    PROVE  EdgeSaid(u, nr, decision, window, history)
<1>1. nr \in 0..Len(t) /\ Edge.range \in Nat
  BY RollingAssumption DEF EdgeSaid
<1>2. SubSeq(u, 1, nr) = SubSeq(t, 1, nr) /\ nr \in 0..Len(u)
  BY <1>1, MarketStays
<1>3. Len(history) >= Edge.range =>
        /\ LowestOf(u, history, Edge.range) = LowestOf(t, history, Edge.range)
        /\ WidestOf(u, history, Edge.range) = WidestOf(t, history, Edge.range)
  BY <1>1, EndingStays, HistoryIs
<1> QED
  BY <1>2, <1>3 DEF EdgeSaid

LEMMA BreakoutStays ==
    ASSUME NEW t \in Seq(TapeBars), NEW u \in Seq(TapeBars), Grows(t, u),
           NEW nr, NEW decision, NEW lookback, NEW compression,
           NEW wide \in Seq(1..Len(t)), NEW narrow \in Seq(1..Len(t)),
           BreakoutSaid(t, nr, decision, lookback, compression, wide, narrow)
    PROVE  BreakoutSaid(u, nr, decision, lookback, compression, wide, narrow)
<1>1. nr \in 0..Len(t) /\ Breakout.lookback \in Nat /\ Breakout.compression \in Nat
  BY RollingAssumption DEF BreakoutSaid
<1>2. SubSeq(u, 1, nr) = SubSeq(t, 1, nr) /\ nr \in 0..Len(u)
  BY <1>1, MarketStays
<1>3. Len(wide) >= Breakout.lookback =>
        /\ LowestOf(u, wide, Breakout.lookback) = LowestOf(t, wide, Breakout.lookback)
        /\ WidestOf(u, wide, Breakout.lookback) = WidestOf(t, wide, Breakout.lookback)
  BY <1>1, EndingStays, HistoryIs
<1>4. Len(narrow) >= Breakout.compression =>
        /\ LowestOf(u, narrow, Breakout.compression) = LowestOf(t, narrow, Breakout.compression)
        /\ WidestOf(u, narrow, Breakout.compression) = WidestOf(t, narrow, Breakout.compression)
  BY <1>1, EndingStays, HistoryIs
<1> QED
  BY <1>2, <1>3, <1>4 DEF BreakoutSaid

LEMMA Progression ==
    ASSUME NEW p \in Nat, NEW e, \A k \in 1..p : e[k] \in Nat, \A k \in 2..p : e[k] = e[k - 1] + 1
    PROVE  \A k \in 1..p : e[k] = e[1] + (k - 1)
<1> DEFINE R == {m \in Nat : m + 1 =< p => e[m + 1] = e[1] + m}
<1>1. 0 \in R
  <2>1. 1 =< p => e[1] = e[1] + 0
    OBVIOUS
  <2> QED BY <2>1
<1>2. ASSUME NEW m \in Nat, m \in R PROVE m + 1 \in R
  <2> SUFFICES ASSUME (m + 1) + 1 =< p PROVE e[(m + 1) + 1] = e[1] + (m + 1)
    OBVIOUS
  <2>1. (m + 1) + 1 \in 2..p /\ ((m + 1) + 1) - 1 = m + 1 /\ 1 \in 1..p
    OBVIOUS
  <2>2. e[(m + 1) + 1] = e[m + 1] + 1 /\ e[m + 1] = e[1] + m /\ e[1] \in Nat
    BY <1>2, <2>1
  <2> QED
    BY <2>2
<1> HIDE DEF R
<1>3. Nat \subseteq R
  BY <1>1, <1>2, Induction
<1> USE DEF R
<1>4. ASSUME NEW k \in 1..p PROVE e[k] = e[1] + (k - 1)
  <2>1. k - 1 \in Nat /\ (k - 1) + 1 = k
    OBVIOUS
  <2>2. k - 1 \in R
    BY <1>3, <2>1
  <2> QED
    BY <2>1, <2>2
<1> QED
  BY <1>4

(* Candles fed without a gap are the candles before the latest one.        *)
LEMMA EndingIsPrior ==
    ASSUME NEW t \in Seq(TapeBars), NEW history \in Seq(1..Len(t)), NEW period \in Nat \ {0},
           period =< Len(history), NEW n \in 2..Len(t), history[Len(history)] = n - 1,
           Unbroken(Ending(history, period))
    PROVE  BarsIn(t, Ending(history, period)) = Prior(SubSeq(t, 1, n), period)
<1> DEFINE e == Ending(history, period)
           bars == BarsIn(t, e)
           market == SubSeq(t, 1, n)
           m == Len(history)
<1>1. /\ m \in Nat /\ Len(t) \in Nat /\ n \in 0..Len(t) /\ n \in Nat
      /\ \A k \in 1..m : history[k] \in 1..Len(t)
  BY HistoryIs
<1>2. /\ bars \in Seq(TapeBars) /\ Len(bars) = period /\ Len(e) = period
      /\ \A i \in 1..period : bars[i] = t[history[m - period + i]]
      /\ \A i \in 1..period : m - period + i \in 1..m /\ e[i] = history[m - period + i]
  BY EndingIs
<1>3. \A k \in 2..period : e[k] = e[k - 1] + 1
  BY <1>2 DEF Unbroken
<1> HIDE DEF e, bars, m
<1>4. \A k \in 1..period : e[k] \in Nat
  <2>1. \A k \in 1..period : e[k] \in 1..Len(t)
    BY <1>1, <1>2
  <2> QED
    BY <1>1, <2>1
<1>6. \A i \in 1..period : e[i] = e[1] + (i - 1)
  BY <1>3, <1>4, Progression
<1>7. e[1] = n - period /\ 1 \in 1..period /\ period \in 1..period /\ e[1] \in 1..Len(t)
  <2>1. 1 \in 1..period /\ period \in 1..period
    OBVIOUS
  <2>2. e[period] = n - 1
    <3>1. e[period] = history[m - period + period] /\ m - period + period = m
      BY <1>1, <1>2, <2>1
    <3> QED
      BY <3>1 DEF m
  <2>3. e[period] = e[1] + (period - 1)
    BY <1>6, <2>1
  <2>4. e[1] = n - period
    BY <1>1, <1>4, <2>1, <2>2, <2>3
  <2> QED
    BY <1>1, <1>2, <2>1, <2>4
<1>8. /\ market \in Seq(TapeBars) /\ Len(market) = n /\ \A k \in 1..n : market[k] = t[k]
  BY <1>1, MarketIs
<1> HIDE DEF market
<1> DEFINE from == n - period
           to == n - 1
           prior == Prior(market, period)
<1>9. prior = SubSeq(market, from, to) /\ from \in 1..n /\ to \in 1..n /\ to - from + 1 = period /\ from <= to
  BY <1>1, <1>7, <1>8 DEF Prior
<1>10. \A i \in from..to : market[i] \in TapeBars
  <2>1. \A i \in 1..n : market[i] \in TapeBars
    BY <1>8, ElementOfSeq
  <2>2. \A i \in from..to : i \in 1..n
    BY <1>1, <1>9
  <2> QED
    BY <2>1, <2>2
<1>11. \A i \in 1..period : from + i - 1 \in 1..n /\ from + i - 1 = from + (i - 1)
  BY <1>1, <1>9
<1> HIDE DEF from, to, prior
<1>12. /\ prior \in Seq(TapeBars) /\ Len(prior) = period
       /\ \A i \in 1..period : prior[i] = market[from + i - 1]
  <2>1. from \in Int /\ to \in Int
    BY <1>9
  <2>2. /\ prior \in Seq(TapeBars) /\ Len(prior) = IF from <= to THEN to - from + 1 ELSE 0
        /\ \A i \in 1..(to - from + 1) : prior[i] = market[from + i - 1]
    BY <1>9, <1>10, <2>1, SubSeqProperties
  <2> QED
    BY <1>9, <2>2
<1>13. \A i \in 1..period : bars[i] = prior[i]
  <2> SUFFICES ASSUME NEW i \in 1..period PROVE bars[i] = prior[i]
    OBVIOUS
  <2>1. prior[i] = t[from + (i - 1)]
    BY <1>8, <1>11, <1>12
  <2>2. bars[i] = t[e[i]]
    BY <1>2
  <2>3. e[i] = from + (i - 1)
    BY <1>6, <1>7 DEF from
  <2> QED
    BY <2>1, <2>2, <2>3
<1>14. bars = prior
  BY <1>2, <1>12, <1>13, SeqEqual
<1> QED
  BY <1>14 DEF bars, prior, e, market

-----------------------------------------------------------------------------
(* The invariant: what the windows are, and what the last decisions were   *)
(* taken on, in terms of the candles fed.                                  *)

TapeOK == tape \in Seq(TapeBars) /\ now \in 0..Len(tape)

BreakoutOK ==
    /\ breakout = [lookback |-> breakout.lookback, compression |-> breakout.compression,
                   volume |-> breakout.volume, decision |-> breakout.decision, at |-> breakout.at]
    /\ WindowOK(tape, breakout.lookback, fed.lookback, Breakout.lookback)
    /\ WindowOK(tape, breakout.compression, fed.compression, Breakout.compression)
    /\ VolumeOK(tape, breakout.volume, fed.volume)
    /\ BreakoutSaid(tape, breakout.at, breakout.decision, breakout.lookback, breakout.compression,
                    fed.lookback, fed.compression)

EdgeOK ==
    /\ edge = [window |-> edge.window, decision |-> edge.decision, at |-> edge.at]
    /\ WindowOK(tape, edge.window, fed.window, Edge.range)
    /\ EdgeSaid(tape, edge.at, edge.decision, edge.window, fed.window)

FedOK ==
    fed = [lookback |-> fed.lookback, compression |-> fed.compression,
           volume |-> fed.volume, window |-> fed.window]

RollingInv == TapeOK /\ FedOK /\ BreakoutOK /\ EdgeOK

LEMMA RollingFirst == RollingInit => RollingInv
<1> SUFFICES ASSUME RollingInit PROVE RollingInv
  OBVIOUS
<1>1. /\ tape = <<>> /\ tape \in Seq(TapeBars) /\ now = 0 /\ Len(tape) = 0
      /\ breakout = [lookback |-> NewRange, compression |-> NewRange, volume |-> NewAverage,
                     decision |-> "none", at |-> 0]
      /\ edge = [window |-> NewRange, decision |-> "none", at |-> 0]
      /\ fed = [lookback |-> <<>>, compression |-> <<>>, volume |-> <<>>, window |-> <<>>]
  BY DEF RollingInit
<1>2. TapeOK /\ FedOK
  BY <1>1 DEF TapeOK, FedOK
<1>3. BreakoutOK
  <2>1. /\ WindowOK(tape, NewRange, <<>>, Breakout.lookback)
        /\ WindowOK(tape, NewRange, <<>>, Breakout.compression)
        /\ VolumeOK(tape, NewAverage, <<>>)
    BY <1>1, NewWindow, NewVolume, RollingAssumption
  <2>2. ~(0 >= Largest(Breakout.lookback, Breakout.filter) + 2)
    BY RollingAssumption DEF Largest
  <2>3. BreakoutSaid(tape, 0, "none", NewRange, NewRange, <<>>, <<>>)
    BY <1>1, <2>2 DEF BreakoutSaid
  <2> QED
    BY <1>1, <2>1, <2>3 DEF BreakoutOK
<1>4. EdgeOK
  <2>1. WindowOK(tape, NewRange, <<>>, Edge.range)
    BY <1>1, NewWindow, RollingAssumption
  <2>2. ~(0 >= Edge.range + 2)
    BY RollingAssumption
  <2>3. EdgeSaid(tape, 0, "none", NewRange, <<>>)
    BY <1>1, <2>2 DEF EdgeSaid
  <2> QED
    BY <1>1, <2>1, <2>3 DEF EdgeOK
<1> QED
  BY <1>2, <1>3, <1>4 DEF RollingInv

(* Candles that arrive, and a market that goes back.                       *)
LEMMA TapeMoves ==
    ASSUME RollingInv, CandleArrives \/ MarketRewinds
    PROVE  RollingInv'
<1>1. UNCHANGED <<breakout, edge, fed>>
  BY DEF CandleArrives, MarketRewinds
<1>2. TapeOK' /\ Grows(tape, tape')
  <2>1. /\ tape \in Seq(TapeBars) /\ now \in 0..Len(tape) /\ Len(tape) \in Nat /\ now \in Nat
    BY DEF RollingInv, TapeOK
  <2>2. CASE tape' = tape
    <3>1. now' \in 0..Len(tape)
      BY <2>1, <2>2 DEF CandleArrives, MarketRewinds
    <3> QED
      BY <2>1, <2>2, <3>1 DEF TapeOK, Grows
  <2>3. CASE CandleArrives /\ now = Len(tape) /\ \E bar \in TapeBars : tape' = Append(tape, bar)
    <3>1. PICK bar \in TapeBars : tape' = Append(tape, bar)
      BY <2>3
    <3>2. /\ tape' \in Seq(TapeBars) /\ Len(tape') = Len(tape) + 1
          /\ \A k \in 1..Len(tape) : tape'[k] = tape[k]
      BY <2>1, <3>1
    <3>3. now' = now + 1
      BY <2>3 DEF CandleArrives
    <3> QED
      BY <2>1, <2>3, <3>2, <3>3 DEF TapeOK, Grows
  <2> QED
    BY <2>2, <2>3 DEF CandleArrives, MarketRewinds
<1>3. tape \in Seq(TapeBars) /\ tape' \in Seq(TapeBars)
  BY <1>2 DEF RollingInv, TapeOK
<1>4. /\ fed.lookback \in Seq(1..Len(tape)) /\ fed.compression \in Seq(1..Len(tape))
      /\ fed.window \in Seq(1..Len(tape))
  BY DEF RollingInv, BreakoutOK, EdgeOK, WindowOK
<1>5. BreakoutOK'
  <2>1. /\ WindowOK(tape', breakout.lookback, fed.lookback, Breakout.lookback)
        /\ WindowOK(tape', breakout.compression, fed.compression, Breakout.compression)
    BY <1>2, <1>3, WindowStays DEF RollingInv, BreakoutOK
  <2>2. VolumeOK(tape', breakout.volume, fed.volume)
    BY <1>2, <1>3, VolumeStays DEF RollingInv, BreakoutOK
  <2>3. BreakoutSaid(tape', breakout.at, breakout.decision, breakout.lookback, breakout.compression,
                     fed.lookback, fed.compression)
    BY <1>2, <1>3, <1>4, BreakoutStays DEF RollingInv, BreakoutOK
  <2> QED
    BY <1>1, <2>1, <2>2, <2>3 DEF RollingInv, BreakoutOK
<1>6. EdgeOK'
  <2>1. WindowOK(tape', edge.window, fed.window, Edge.range)
    BY <1>2, <1>3, WindowStays DEF RollingInv, EdgeOK
  <2>2. EdgeSaid(tape', edge.at, edge.decision, edge.window, fed.window)
    BY <1>2, <1>3, <1>4, EdgeStays DEF RollingInv, EdgeOK
  <2> QED
    BY <1>1, <2>1, <2>2 DEF RollingInv, EdgeOK
<1>7. FedOK'
  BY <1>1 DEF RollingInv, FedOK
<1> QED
  BY <1>2, <1>5, <1>6, <1>7 DEF RollingInv

LEMMA EdgeEvaluated ==
    ASSUME RollingInv, EvaluateEdge
    PROVE  RollingInv'
<1> DEFINE market == Shown
           window == Ranged(edge.window, market, Edge.range)
           told == FedWith(fed.window, edge.window, market)
           n == now
<1>1. /\ tape \in Seq(TapeBars) /\ n \in 0..Len(tape) /\ n > 0 /\ Len(tape) \in Nat
      /\ UNCHANGED <<tape, now, rewinds, strategy, breakout>>
      /\ market = SubSeq(tape, 1, n)
  BY DEF RollingInv, TapeOK, EvaluateEdge, Shown
<1>2. Len(market) = n /\ (n >= 2 => Back(market, 1) = tape[n - 1])
  BY <1>1, MarketIs
<1>3. Edge.range \in Nat \ {0} /\ (EdgeReady(market) <=> n >= Edge.range + 2)
  BY <1>2, RollingAssumption DEF EdgeReady
<1>4. TapeOK'
  BY <1>1 DEF RollingInv, TapeOK
<1>5. CASE ~EdgeReady(market)
  <2>1. edge' = [edge EXCEPT !.decision = "wait", !.at = n] /\ fed' = fed
    BY <1>5 DEF EvaluateEdge
  <2>2. edge' = [window |-> edge.window, decision |-> "wait", at |-> n]
    <3> DEFINE e1 == [edge EXCEPT !.decision = "wait"]
               e2 == [e1 EXCEPT !.at = n]
    <3>1. edge' = e2
      BY <2>1
    <3>2. edge = [window |-> edge.window, decision |-> edge.decision, at |-> edge.at]
      BY DEF RollingInv, EdgeOK
    <3>3. e1 = [window |-> edge.window, decision |-> "wait", at |-> edge.at]
      BY <3>2
    <3> HIDE DEF e1
    <3>4. e2 = [window |-> edge.window, decision |-> "wait", at |-> n]
      BY <3>3
    <3> QED
      BY <3>1, <3>4
  <2>3. /\ edge'.window = edge.window /\ edge'.decision = "wait" /\ edge'.at = n
        /\ edge' = [window |-> edge'.window, decision |-> edge'.decision, at |-> edge'.at]
    BY <2>2
  <2>4. EdgeSaid(tape, n, "wait", edge.window, fed.window)
    BY <1>1, <1>3, <1>5 DEF EdgeSaid
  <2>5. EdgeOK'
    BY <1>1, <2>1, <2>3, <2>4 DEF RollingInv, EdgeOK
  <2>6. BreakoutOK' /\ FedOK'
    BY <1>1, <2>1 DEF RollingInv, BreakoutOK, FedOK
  <2> QED
    BY <1>4, <2>5, <2>6 DEF RollingInv
<1>6. CASE EdgeReady(market)
  <2> DEFINE says == IF ~Known(window, Edge.range) THEN "wait"
                     ELSE EdgeDirection(market, LowOf(window), HighOf(window))
  <2>1. edge' = [window |-> window, at |-> n, decision |-> says] /\ fed' = [fed EXCEPT !.window = told]
    BY <1>6 DEF EvaluateEdge
  <2>2. WindowOK(tape, window, told, Edge.range) /\ window.last = n
    <3>1. n \in 2..Len(tape) /\ Back(market, 1) = tape[n - 1]
      BY <1>1, <1>2, <1>3, <1>6
    <3>2. WindowOK(tape, edge.window, fed.window, Edge.range)
      BY DEF RollingInv, EdgeOK
    <3> DEFINE w == edge.window
               h == fed.window
               p == Edge.range
    <3>3. /\ tape \in Seq(TapeBars) /\ p \in Nat \ {0} /\ n \in 2..Len(tape) /\ Len(market) = n
          /\ Back(market, 1) = tape[n - 1] /\ WindowOK(tape, w, h, p)
      BY <1>1, <1>2, <1>3, <3>1, <3>2
    <3> HIDE DEF market, n, w, h, p
    <3>4. WindowOK(tape, Ranged(w, market, p), FedWith(h, w, market), p) /\ Ranged(w, market, p).last = n
      BY <3>3, WindowRanged
    <3> QED
      BY <3>4 DEF w, h, p
  <2> HIDE DEF window, told
  <2>3. /\ window.index = Len(told)
        /\ Len(told) >= Edge.range =>
             /\ Known(window, Edge.range)
             /\ HighOf(window) = WidestOf(tape, told, Edge.range)
             /\ LowOf(window) = LowestOf(tape, told, Edge.range)
    BY <1>1, <1>3, <2>2, WindowBounds DEF WidestOf, LowestOf
  <2>4. Known(window, Edge.range) => Len(told) >= Edge.range
    BY <2>3 DEF Known
  <2>5. Len(told) \in Nat
    BY <2>2 DEF WindowOK
  <2>6. EdgeSaid(tape, n, says, window, told)
    <3>1. Len(told) < Edge.range => says = "wait"
      BY <1>3, <2>4, <2>5
    <3>2. Len(told) >= Edge.range =>
            says = EdgeDirection(SubSeq(tape, 1, n), LowestOf(tape, told, Edge.range),
                                 WidestOf(tape, told, Edge.range))
      BY <1>1, <2>3
    <3> HIDE DEF says
    <3> QED
      BY <1>1, <2>2, <3>1, <3>2 DEF EdgeSaid
  <2> HIDE DEF says
  <2>7. /\ edge'.window = window /\ edge'.decision = says /\ edge'.at = n
        /\ edge' = [window |-> edge'.window, decision |-> edge'.decision, at |-> edge'.at]
    BY <2>1
  <2>8. /\ fed'.window = told /\ fed'.lookback = fed.lookback /\ fed'.compression = fed.compression
        /\ fed'.volume = fed.volume
        /\ FedOK'
    <3>1. fed = [lookback |-> fed.lookback, compression |-> fed.compression,
                 volume |-> fed.volume, window |-> fed.window]
      BY DEF RollingInv, FedOK
    <3>2. fed' = [lookback |-> fed.lookback, compression |-> fed.compression,
                  volume |-> fed.volume, window |-> told]
      BY <2>1, <3>1
    <3> QED
      BY <3>2 DEF FedOK
  <2>9. EdgeOK'
    BY <1>1, <2>2, <2>6, <2>7, <2>8 DEF EdgeOK
  <2>10. BreakoutOK'
    BY <1>1, <2>8 DEF RollingInv, BreakoutOK
  <2> QED
    BY <1>4, <2>8, <2>9, <2>10 DEF RollingInv
<1> QED
  BY <1>5, <1>6

LEMMA BreakoutEvaluated ==
    ASSUME RollingInv, EvaluateBreakout
    PROVE  RollingInv'
<1> DEFINE market == Shown
           lookback == Ranged(breakout.lookback, market, Breakout.lookback)
           compression == Ranged(breakout.compression, market, Breakout.compression)
           wide == FedWith(fed.lookback, breakout.lookback, market)
           narrow == FedWith(fed.compression, breakout.compression, market)
           n == now
<1>1. /\ tape \in Seq(TapeBars) /\ n \in 0..Len(tape) /\ n > 0 /\ Len(tape) \in Nat
      /\ UNCHANGED <<tape, now, rewinds, strategy, edge>>
      /\ market = SubSeq(tape, 1, n)
  BY DEF RollingInv, TapeOK, EvaluateBreakout, Shown
<1>2. Len(market) = n /\ (n >= 2 => Back(market, 1) = tape[n - 1])
  BY <1>1, MarketIs
<1>3. /\ Breakout.lookback \in Nat \ {0} /\ Breakout.compression \in Nat \ {0}
      /\ (BreakoutReady(market) <=> n >= Largest(Breakout.lookback, Breakout.filter) + 2)
      /\ (BreakoutReady(market) => n >= Breakout.lookback + 2)
  BY <1>1, <1>2, RollingAssumption DEF BreakoutReady, Largest
<1>4. TapeOK'
  BY <1>1 DEF RollingInv, TapeOK
<1>5. CASE ~BreakoutReady(market)
  <2>1. breakout' = [breakout EXCEPT !.decision = "wait", !.at = n] /\ fed' = fed
    BY <1>5 DEF EvaluateBreakout
  <2>2. breakout' = [lookback |-> breakout.lookback, compression |-> breakout.compression,
                     volume |-> breakout.volume, decision |-> "wait", at |-> n]
    <3> DEFINE b1 == [breakout EXCEPT !.decision = "wait"]
               b2 == [b1 EXCEPT !.at = n]
    <3>1. breakout' = b2
      BY <2>1
    <3>2. breakout = [lookback |-> breakout.lookback, compression |-> breakout.compression,
                      volume |-> breakout.volume, decision |-> breakout.decision, at |-> breakout.at]
      BY DEF RollingInv, BreakoutOK
    <3>3. b1 = [lookback |-> breakout.lookback, compression |-> breakout.compression,
                volume |-> breakout.volume, decision |-> "wait", at |-> breakout.at]
      BY <3>2
    <3> HIDE DEF b1
    <3>4. b2 = [lookback |-> breakout.lookback, compression |-> breakout.compression,
                volume |-> breakout.volume, decision |-> "wait", at |-> n]
      BY <3>3
    <3> QED
      BY <3>1, <3>4
  <2>3. /\ breakout'.lookback = breakout.lookback /\ breakout'.compression = breakout.compression
        /\ breakout'.volume = breakout.volume /\ breakout'.decision = "wait" /\ breakout'.at = n
        /\ breakout' = [lookback |-> breakout'.lookback, compression |-> breakout'.compression,
                        volume |-> breakout'.volume, decision |-> breakout'.decision,
                        at |-> breakout'.at]
    BY <2>2
  <2>4. BreakoutSaid(tape, n, "wait", breakout.lookback, breakout.compression,
                     fed.lookback, fed.compression)
    BY <1>1, <1>3, <1>5 DEF BreakoutSaid
  <2>5. BreakoutOK'
    BY <1>1, <2>1, <2>3, <2>4 DEF RollingInv, BreakoutOK
  <2>6. EdgeOK' /\ FedOK'
    BY <1>1, <2>1 DEF RollingInv, EdgeOK, FedOK
  <2> QED
    BY <1>4, <2>5, <2>6 DEF RollingInv
<1>6. CASE BreakoutReady(market)
  <2> DEFINE compressed == /\ Known(lookback, Breakout.lookback)
                           /\ Known(compression, Breakout.compression)
                           /\ Compressed(LowOf(lookback), HighOf(lookback),
                                         LowOf(compression), HighOf(compression))
             volume == IF compressed THEN Averaged(breakout.volume, market) ELSE breakout.volume
             averaged == IF volume = breakout.volume THEN fed.volume ELSE Append(fed.volume, n - 1)
             says == IF ~compressed \/ VolumeFails(volume, Last(market)) THEN "wait"
                     ELSE BreakoutDirection(market, LowOf(lookback), HighOf(lookback))
  <2>1. /\ breakout' = [lookback |-> lookback, compression |-> compression, volume |-> volume,
                        at |-> n, decision |-> says]
        /\ fed' = [fed EXCEPT !.lookback = wide, !.compression = narrow, !.volume = averaged]
    BY <1>6 DEF EvaluateBreakout
  <2>2. n \in 2..Len(tape) /\ Back(market, 1) = tape[n - 1]
    BY <1>1, <1>2, <1>3, <1>6
  <2>3. WindowOK(tape, lookback, wide, Breakout.lookback) /\ lookback.last = n
    <3> DEFINE w == breakout.lookback
               h == fed.lookback
               p == Breakout.lookback
    <3>1. /\ tape \in Seq(TapeBars) /\ p \in Nat \ {0} /\ n \in 2..Len(tape) /\ Len(market) = n
          /\ Back(market, 1) = tape[n - 1] /\ WindowOK(tape, w, h, p)
      BY <1>1, <1>2, <1>3, <2>2 DEF RollingInv, BreakoutOK
    <3> HIDE DEF market, n, w, h, p
    <3>2. WindowOK(tape, Ranged(w, market, p), FedWith(h, w, market), p) /\ Ranged(w, market, p).last = n
      BY <3>1, WindowRanged
    <3> QED
      BY <3>2 DEF w, h, p
  <2>4. WindowOK(tape, compression, narrow, Breakout.compression) /\ compression.last = n
    <3> DEFINE w == breakout.compression
               h == fed.compression
               p == Breakout.compression
    <3>1. /\ tape \in Seq(TapeBars) /\ p \in Nat \ {0} /\ n \in 2..Len(tape) /\ Len(market) = n
          /\ Back(market, 1) = tape[n - 1] /\ WindowOK(tape, w, h, p)
      BY <1>1, <1>2, <1>3, <2>2 DEF RollingInv, BreakoutOK
    <3> HIDE DEF market, n, w, h, p
    <3>2. WindowOK(tape, Ranged(w, market, p), FedWith(h, w, market), p) /\ Ranged(w, market, p).last = n
      BY <3>1, WindowRanged
    <3> QED
      BY <3>2 DEF w, h, p
  <2> HIDE DEF lookback, compression, wide, narrow, compressed
  <2>5. VolumeOK(tape, volume, averaged)
    <3> DEFINE a == breakout.volume
               h == fed.volume
    <3>1. VolumeOK(tape, a, h)
      BY DEF RollingInv, BreakoutOK
    <3>2. CASE ~compressed
      BY <3>1, <3>2
    <3>3. CASE compressed /\ a.last = n - 1
      <4>1. Averaged(a, market) = a
        BY <1>2, <3>3 DEF Averaged
      <4> QED
        BY <3>1, <3>3, <4>1
    <3>4. CASE compressed /\ a.last # n - 1
      <4>1. /\ tape \in Seq(TapeBars) /\ n \in 2..Len(tape) /\ Len(market) = n
            /\ Back(market, 1) = tape[n - 1]
        BY <1>1, <1>2, <2>2
      <4> HIDE DEF market, n, a, h
      <4>2. VolumeOK(tape, Averaged(a, market), Append(h, n - 1)) /\ Averaged(a, market) # a
        BY <3>1, <3>4, <4>1, VolumeFed
      <4> USE DEF a, h
      <4>3. volume = Averaged(a, market)
        BY <3>4
      <4>4. averaged = Append(h, n - 1)
        BY <4>2, <4>3
      <4> QED
        BY <4>2, <4>3, <4>4
    <3> QED
      BY <3>2, <3>3, <3>4
  <2>6. /\ lookback.index = Len(wide) /\ Len(wide) \in Nat
        /\ Len(wide) >= Breakout.lookback =>
             /\ HighOf(lookback) = WidestOf(tape, wide, Breakout.lookback)
             /\ LowOf(lookback) = LowestOf(tape, wide, Breakout.lookback)
    <3>1. wide \in Seq(1..Len(tape))
      BY <2>3 DEF WindowOK
    <3>2. Len(wide) \in Nat
      BY <3>1
    <3> QED
      BY <1>1, <1>3, <2>3, <3>2, WindowBounds DEF WidestOf, LowestOf
  <2>7. /\ compression.index = Len(narrow) /\ Len(narrow) \in Nat
        /\ Len(narrow) >= Breakout.compression =>
             /\ HighOf(compression) = WidestOf(tape, narrow, Breakout.compression)
             /\ LowOf(compression) = LowestOf(tape, narrow, Breakout.compression)
    <3>1. narrow \in Seq(1..Len(tape))
      BY <2>4 DEF WindowOK
    <3>2. Len(narrow) \in Nat
      BY <3>1
    <3> QED
      BY <1>1, <1>3, <2>4, <3>2, WindowBounds DEF WidestOf, LowestOf
  <2> HIDE DEF volume, averaged
  <2>8. BreakoutSaid(tape, n, says, lookback, compression, wide, narrow)
    <3>1. ASSUME says \in {"long", "short"}
          PROVE  /\ Len(wide) >= Breakout.lookback /\ Len(narrow) >= Breakout.compression
                 /\ Compressed(LowestOf(tape, wide, Breakout.lookback),
                               WidestOf(tape, wide, Breakout.lookback),
                               LowestOf(tape, narrow, Breakout.compression),
                               WidestOf(tape, narrow, Breakout.compression))
                 /\ says = BreakoutDirection(SubSeq(tape, 1, n),
                                             LowestOf(tape, wide, Breakout.lookback),
                                             WidestOf(tape, wide, Breakout.lookback))
      <4>1. says # "wait"
        <5> HIDE DEF says
        <5> QED BY <3>1
      <4>2. compressed /\ says = BreakoutDirection(market, LowOf(lookback), HighOf(lookback))
        BY <4>1
      <4>3. Len(wide) >= Breakout.lookback /\ Len(narrow) >= Breakout.compression
        BY <2>6, <2>7, <4>2 DEF compressed, Known
      <4> HIDE DEF says, market
      <4> QED
        BY <1>1, <2>6, <2>7, <4>2, <4>3 DEF compressed
    <3> HIDE DEF says
    <3> QED
      BY <1>1, <2>3, <2>4, <3>1 DEF BreakoutSaid
  <2> HIDE DEF says
  <2>9. /\ breakout'.lookback = lookback /\ breakout'.compression = compression
        /\ breakout'.volume = volume /\ breakout'.decision = says /\ breakout'.at = n
        /\ breakout' = [lookback |-> breakout'.lookback, compression |-> breakout'.compression,
                        volume |-> breakout'.volume, decision |-> breakout'.decision,
                        at |-> breakout'.at]
    BY <2>1
  <2>10. /\ fed'.window = fed.window /\ fed'.lookback = wide /\ fed'.compression = narrow
         /\ fed'.volume = averaged
         /\ FedOK'
    <3> DEFINE f1 == [fed EXCEPT !.lookback = wide]
               f2 == [f1 EXCEPT !.compression = narrow]
               f3 == [f2 EXCEPT !.volume = averaged]
    <3>1. fed = [lookback |-> fed.lookback, compression |-> fed.compression,
                 volume |-> fed.volume, window |-> fed.window]
      BY DEF RollingInv, FedOK
    <3>2. fed' = f3
      BY <2>1
    <3>3. f1 = [lookback |-> wide, compression |-> fed.compression,
                volume |-> fed.volume, window |-> fed.window]
      BY <3>1
    <3> HIDE DEF f1
    <3>4. f2 = [lookback |-> wide, compression |-> narrow, volume |-> fed.volume, window |-> fed.window]
      BY <3>3
    <3> HIDE DEF f2
    <3>5. f3 = [lookback |-> wide, compression |-> narrow, volume |-> averaged, window |-> fed.window]
      BY <3>4
    <3> HIDE DEF f3
    <3> QED
      BY <3>2, <3>5 DEF FedOK
  <2>11. BreakoutOK'
    BY <1>1, <2>3, <2>4, <2>5, <2>8, <2>9, <2>10 DEF BreakoutOK
  <2>12. EdgeOK'
    BY <1>1, <2>10 DEF RollingInv, EdgeOK
  <2> QED
    BY <1>4, <2>10, <2>11, <2>12 DEF RollingInv
<1> QED
  BY <1>5, <1>6

(* Every action keeps the invariant.                                       *)
LEMMA RollingStep == RollingInv /\ [RollingNext]_rollingVars => RollingInv'
<1> SUFFICES ASSUME RollingInv, [RollingNext]_rollingVars PROVE RollingInv'
  OBVIOUS
<1>1. CASE CandleArrives \/ MarketRewinds
  BY <1>1, TapeMoves
<1>2. CASE EvaluateBreakout
  BY <1>2, BreakoutEvaluated
<1>3. CASE EvaluateEdge
  BY <1>3, EdgeEvaluated
<1>4. CASE UNCHANGED rollingVars
  BY <1>4 DEF rollingVars, RollingInv, TapeOK, FedOK, BreakoutOK, EdgeOK
<1> QED
  BY <1>1, <1>2, <1>3, <1>4 DEF RollingNext

(* What the windows say of the market itself, if no candle was skipped.    *)
LEMMA WindowsHold == RollingInv => WindowsAreExact
<1> SUFFICES ASSUME RollingInv PROVE WindowsAreExact
  OBVIOUS
<1>1. /\ tape \in Seq(TapeBars) /\ now \in 0..Len(tape) /\ Len(tape) \in Nat
      /\ Shown = SubSeq(tape, 1, now) /\ Len(Shown) = now
  BY MarketIs DEF RollingInv, TapeOK, Shown
<1>2. /\ Breakout.lookback \in Nat \ {0} /\ Breakout.compression \in Nat \ {0}
      /\ Breakout.filter \in Nat /\ Edge.range \in Nat \ {0}
  BY RollingAssumption
<1>3. \A h : BarsAt(h) = BarsIn(tape, h)
  BY DEF BarsAt, BarsIn
<1>4. ASSUME NEW window, NEW history, NEW period \in Nat \ {0}, WindowOK(tape, window, history, period)
      PROVE  WindowIsExact(window, history, period)
  BY <1>1, <1>3, <1>4, WindowBounds DEF WindowIsExact
<1>5. /\ WindowIsExact(breakout.lookback, fed.lookback, Breakout.lookback)
      /\ WindowIsExact(breakout.compression, fed.compression, Breakout.compression)
      /\ WindowIsExact(edge.window, fed.window, Edge.range)
  BY <1>2, <1>4 DEF RollingInv, BreakoutOK, EdgeOK
<1>6. LET kept == Ending(fed.volume, Min({Len(fed.volume), Breakout.lookback}))
      IN  /\ breakout.volume.values = [k \in DOMAIN kept |-> tape[kept[k]].volume]
          /\ breakout.volume.total = VolumeOf(BarsAt(kept))
  <2> DEFINE kept == Ending(fed.volume, Min({Len(fed.volume), Breakout.lookback}))
             bars == BarsIn(tape, kept)
             history == fed.volume
  <2>1. /\ history \in Seq(1..Len(tape)) /\ bars = KeptBars(tape, history, Breakout.lookback)
        /\ breakout.volume.values = VolumesOf(bars) /\ breakout.volume.total = VolumeOf(bars)
    BY DEF RollingInv, BreakoutOK, VolumeOK, KeptBars
  <2>2. DOMAIN bars = DOMAIN kept /\ \A k \in DOMAIN kept : bars[k] = tape[kept[k]]
    BY DEF BarsIn
  <2>3. DOMAIN bars = 1..Len(bars)
    <3> HIDE DEF bars, history
    <3>1. PICK c \in Nat : /\ c =< Len(history) /\ c =< Breakout.lookback
                          /\ (c = Len(history) \/ c = Breakout.lookback)
      BY <1>1, <1>2, <2>1, KeptExists, HistoryIs
    <3>2. KeptBars(tape, history, Breakout.lookback) \in Seq(TapeBars)
      <4>1. Keeps(tape, history, Breakout.lookback, c)
        BY <1>1, <1>2, <2>1, <3>1 DEF Keeps
      <4> QED
        BY <4>1, KeptIs
    <3> QED
      BY <2>1, <3>2
  <2> HIDE DEF bars, kept
  <2>4. VolumesOf(bars) = [k \in DOMAIN kept |-> tape[kept[k]].volume]
    BY <2>2, <2>3 DEF VolumesOf
  <2> QED
    BY <1>3, <2>1, <2>4 DEF bars, kept
<1>7. ASSUME edge.at = now, EdgeReady(Shown)
      PROVE  edge.decision =
                IF Len(fed.window) < Edge.range THEN "wait"
                ELSE IF Unbroken(Ending(fed.window, Edge.range))
                THEN EdgeDirection(Shown, Low(Prior(Shown, Edge.range)), High(Prior(Shown, Edge.range)))
                ELSE edge.decision
  <2> DEFINE h == fed.window
             p == Edge.range
  <2>1. now >= p + 2 /\ now \in 2..Len(tape)
    BY <1>1, <1>2, <1>7 DEF EdgeReady
  <2>2. /\ edge.window.last = now
        /\ Len(h) < p => edge.decision = "wait"
        /\ Len(h) >= p =>
             edge.decision = EdgeDirection(Shown, LowestOf(tape, h, p), WidestOf(tape, h, p))
    BY <1>1, <1>7, <2>1 DEF RollingInv, EdgeOK, EdgeSaid
  <2>3. h \in Seq(1..Len(tape)) /\ h[Len(h)] = now - 1 /\ Len(h) \in Nat
    BY <1>1, <2>1, <2>2, HistoryIs DEF RollingInv, EdgeOK, WindowOK
  <2> HIDE DEF h, p
  <2>4. ASSUME Len(h) >= p, Unbroken(Ending(h, p))
        PROVE  LowestOf(tape, h, p) = Low(Prior(Shown, p)) /\ WidestOf(tape, h, p) = High(Prior(Shown, p))
    <3>1. p \in Nat \ {0} /\ p =< Len(h)
      BY <1>2, <2>3, <2>4 DEF p
    <3>2. BarsIn(tape, Ending(h, p)) = Prior(SubSeq(tape, 1, now), p)
      BY <1>1, <2>1, <2>3, <2>4, <3>1, EndingIsPrior
    <3> QED
      BY <1>1, <3>2 DEF LowestOf, WidestOf
  <2>5. Len(h) < p \/ Len(h) >= p
    BY <1>2, <2>3 DEF p
  <2> QED
    BY <1>2, <2>2, <2>3, <2>4, <2>5 DEF h, p
<1>8. ASSUME breakout.at = now, BreakoutReady(Shown), breakout.decision \in {"long", "short"}
      PROVE  /\ Len(fed.lookback) >= Breakout.lookback
             /\ Len(fed.compression) >= Breakout.compression
             /\ (/\ Unbroken(Ending(fed.lookback, Breakout.lookback))
                 /\ Unbroken(Ending(fed.compression, Breakout.compression))) =>
                  /\ Compressed(Low(Prior(Shown, Breakout.lookback)),
                                High(Prior(Shown, Breakout.lookback)),
                                Low(Prior(Shown, Breakout.compression)),
                                High(Prior(Shown, Breakout.compression)))
                  /\ breakout.decision =
                       BreakoutDirection(Shown, Low(Prior(Shown, Breakout.lookback)),
                                         High(Prior(Shown, Breakout.lookback)))
  <2> DEFINE h == fed.lookback
             g == fed.compression
             p == Breakout.lookback
             q == Breakout.compression
  <2>1. now >= Largest(p, Breakout.filter) + 2 /\ now \in 2..Len(tape)
    BY <1>1, <1>2, <1>8 DEF BreakoutReady, Largest
  <2>2. /\ breakout.lookback.last = now /\ breakout.compression.last = now
        /\ Len(h) >= p /\ Len(g) >= q
        /\ Compressed(LowestOf(tape, h, p), WidestOf(tape, h, p), LowestOf(tape, g, q), WidestOf(tape, g, q))
        /\ breakout.decision = BreakoutDirection(Shown, LowestOf(tape, h, p), WidestOf(tape, h, p))
    BY <1>1, <1>8, <2>1 DEF RollingInv, BreakoutOK, BreakoutSaid
  <2>3. /\ h \in Seq(1..Len(tape)) /\ h[Len(h)] = now - 1 /\ Len(h) \in Nat
        /\ g \in Seq(1..Len(tape)) /\ g[Len(g)] = now - 1 /\ Len(g) \in Nat
    BY <1>1, <2>1, <2>2, HistoryIs DEF RollingInv, BreakoutOK, WindowOK
  <2>4. p \in Nat \ {0} /\ q \in Nat \ {0}
    BY <1>2
  <2> HIDE DEF h, g, p, q
  <2>5. p =< Len(h) /\ q =< Len(g)
    BY <2>2, <2>3, <2>4
  <2>6. ASSUME Unbroken(Ending(h, p)), Unbroken(Ending(g, q))
        PROVE  /\ LowestOf(tape, h, p) = Low(Prior(Shown, p)) /\ WidestOf(tape, h, p) = High(Prior(Shown, p))
               /\ LowestOf(tape, g, q) = Low(Prior(Shown, q)) /\ WidestOf(tape, g, q) = High(Prior(Shown, q))
    <3>1. BarsIn(tape, Ending(h, p)) = Prior(SubSeq(tape, 1, now), p)
      BY <1>1, <2>1, <2>3, <2>4, <2>5, <2>6, EndingIsPrior
    <3>2. BarsIn(tape, Ending(g, q)) = Prior(SubSeq(tape, 1, now), q)
      BY <1>1, <2>1, <2>3, <2>4, <2>5, <2>6, EndingIsPrior
    <3> QED
      BY <1>1, <3>1, <3>2 DEF LowestOf, WidestOf
  <2>7. ASSUME Unbroken(Ending(h, p)), Unbroken(Ending(g, q))
        PROVE  /\ Compressed(Low(Prior(Shown, p)), High(Prior(Shown, p)),
                             Low(Prior(Shown, q)), High(Prior(Shown, q)))
               /\ breakout.decision =
                    BreakoutDirection(Shown, Low(Prior(Shown, p)), High(Prior(Shown, p)))
    <3>1. /\ LowestOf(tape, h, p) = Low(Prior(Shown, p)) /\ WidestOf(tape, h, p) = High(Prior(Shown, p))
          /\ LowestOf(tape, g, q) = Low(Prior(Shown, q)) /\ WidestOf(tape, g, q) = High(Prior(Shown, q))
      BY <2>6, <2>7
    <3> QED
      BY ONLY <2>2, <3>1
  <2>8. Len(h) >= p /\ Len(g) >= q
    BY <2>2
  <2>9. /\ Len(fed.lookback) >= Breakout.lookback
        /\ Len(fed.compression) >= Breakout.compression
    BY <2>8 DEF h, g, p, q
  <2>10. ASSUME Unbroken(Ending(fed.lookback, Breakout.lookback)),
                Unbroken(Ending(fed.compression, Breakout.compression))
         PROVE  /\ Compressed(Low(Prior(Shown, Breakout.lookback)),
                              High(Prior(Shown, Breakout.lookback)),
                              Low(Prior(Shown, Breakout.compression)),
                              High(Prior(Shown, Breakout.compression)))
                /\ breakout.decision =
                     BreakoutDirection(Shown, Low(Prior(Shown, Breakout.lookback)),
                                       High(Prior(Shown, Breakout.lookback)))
    <3>1. Unbroken(Ending(h, p)) /\ Unbroken(Ending(g, q))
      BY <2>10 DEF h, g, p, q
    <3>2. /\ Compressed(Low(Prior(Shown, p)), High(Prior(Shown, p)),
                        Low(Prior(Shown, q)), High(Prior(Shown, q)))
          /\ breakout.decision =
               BreakoutDirection(Shown, Low(Prior(Shown, p)), High(Prior(Shown, p)))
      BY <2>7, <3>1
    <3> QED
      BY ONLY <3>2 DEF p, q
  <2> QED
    BY <2>9, <2>10
<1> QED
  BY <1>5, <1>6, <1>7, <1>8 DEF WindowsAreExact

(* The windows of the breakout and of the reversion are exact for any      *)
(* candles, any periods, and a strategy evaluated at any candles in any    *)
(* order the market shows them, without a limit on either.                 *)
THEOREM WindowsStayExact == RollingSpec => []WindowsAreExact
<1>1. RollingInit => RollingInv
  BY RollingFirst
<1>2. RollingInv /\ [RollingNext]_rollingVars => RollingInv'
  BY RollingStep
<1>3. RollingInv => WindowsAreExact
  BY WindowsHold
<1> QED
  BY <1>1, <1>2, <1>3, PTL DEF RollingSpec

-----------------------------------------------------------------------------
(* Simulations                                                             *)
(*                                                                         *)
(* What the trades say of the candles and the answers (Recorded) stays     *)
(* true because both are only appended to, and a position remembers that   *)
(* nothing behind its entry ended it (Open).  Equity, peak and drawdown    *)
(* are those of the trades (Books), by one trade more at a time.           *)

Reasons == {"stop_loss", "take_profit", "opposite_signal", "end_of_data"}
Trades ==
    [direction : TradeSides, entry : Int, levels : Levels \union {NoLevels}, exit : Int, net : Int,
     reason : Reasons, from : Nat, to : Nat]

EquityOf(seq, n) ==
    FoldLeft(LAMBDA total, trade : total + trade.net, InitialEquity, SubSeq(seq, 1, n))

LEMMA TradeOf ==
    ASSUME NEW seq \in Seq(Trades)
    PROVE  /\ Len(seq) \in Nat /\ DOMAIN seq = 1..Len(seq)
           /\ \A k \in 1..Len(seq) :
                /\ seq[k] \in Trades /\ seq[k].net \in Int
                /\ seq[k].from \in Nat /\ seq[k].to \in Nat
                /\ seq[k].direction \in TradeSides /\ seq[k].reason \in Reasons
<1>1. \A k \in 1..Len(seq) : seq[k] \in Trades
  BY ElementOfSeq
<1>2. \A t \in Trades : /\ t.net \in Int /\ t.from \in Nat /\ t.to \in Nat
                        /\ t.direction \in TradeSides /\ t.reason \in Reasons
  BY DEF Trades
<1> QED
  BY <1>1, <1>2

(* The equity, as the fold adds it up.                                     *)
LEMMA EquityTrace ==
    ASSUME NEW seq \in Seq(Trades)
    PROVE  \E T : /\ T[0] = InitialEquity
                  /\ FoldLeft(LAMBDA total, trade : total + trade.net, InitialEquity, seq) = T[Len(seq)]
                  /\ \A k \in 0..Len(seq) : T[k] \in Int
                  /\ \A k \in 1..Len(seq) : T[k] = T[k - 1] + seq[k].net
<1> DEFINE n == Len(seq)
           add == [k \in 1..n |-> seq[k].net]
           step == [z \in (1..n) \X Int |-> z[2] + add[z[1]]]
           Iter(f) == f = [s \in SUBSET (1..n) |->
                            IF s = {} THEN InitialEquity ELSE f[s \ {Max(s)}] + seq[Max(s)].net]
           V == Int
           first == InitialEquity
           largest == [s \in SUBSET (1..n) |-> Max(s)]
<1>1. n \in Nat /\ DOMAIN seq = 1..n
  OBVIOUS
<1>2. \A k \in 1..n : add[k] \in Int /\ add[k] = seq[k].net
  BY TradeOf
<1> HIDE DEF add
<1>3. \A k \in 1..n, v \in Int : step[<<k, v>>] = v + add[k] /\ step[<<k, v>>] \in Int
  BY <1>2
<1> HIDE DEF n, step
<1>4. first \in V /\ \A k \in 1..n, v \in V : step[<<k, v>>] \in V
  BY <1>3, SimulatorAssumption
<1> HIDE DEF V, first
<1>5. PICK f : IsFold(f, 1..n, V, first, largest, step)
  BY <1>1, <1>4, LeftFoldsExist
<1>6. ASSUME NEW s \in SUBSET (1..n), s # {}
      PROVE  f[s] = f[s \ {Max(s)}] + seq[Max(s)].net
  <2>1. Max(s) \in 1..n /\ s \ {Max(s)} \in SUBSET (1..n) /\ largest[s] = Max(s)
    BY <1>1, <1>6, LargestOfNats
  <2>2. f[s] = step[<<Max(s), f[s \ {Max(s)}]>>] /\ f[s \ {Max(s)}] \in Int
    BY <1>5, <1>6, <2>1 DEF IsFold, V
  <2> QED
    BY <1>2, <1>3, <2>1, <2>2
<1>7. Iter(f)
  BY <1>5, <1>6 DEF IsFold, first
<1> DEFINE iter == CHOOSE g : Iter(g)
<1>8. Iter(iter)
  BY <1>7
<1>9. FoldLeft(LAMBDA total, trade : total + trade.net, InitialEquity, seq) = iter[1..n]
  BY <1>1 DEF FoldLeft, MapThenFoldSet
<1> HIDE DEF iter
<1> DEFINE T == [k \in 0..n |-> iter[1..k]]
<1>10. T[0] = InitialEquity
  <2>1. 1..0 = {} /\ {} \in SUBSET (1..n)
    OBVIOUS
  <2> QED
    BY <1>1, <1>8, <2>1
<1>11. ASSUME NEW k \in 1..n
       PROVE  T[k] = T[k - 1] + seq[k].net
  <2>1. 1..k \in SUBSET (1..n) /\ k \in Nat /\ k > 0 /\ k - 1 \in 0..n /\ k \in 0..n
    BY <1>1
  <2>2. Max(1..k) = k /\ (1..k) \ {k} = 1..(k - 1) /\ 1..k # {}
    BY <2>1, LargestOfInterval
  <2>3. iter[1..k] = iter[1..(k - 1)] + seq[k].net
    BY <1>8, <2>1, <2>2
  <2> QED
    BY <2>1, <2>3
<1>12. iter[1..n] = T[n]
  BY <1>1
<1> HIDE DEF T
<1>13. ASSUME NEW k \in 1..n, T[k - 1] \in Int PROVE T[k] \in Int
  BY <1>2, <1>11, <1>13
<1>14. T[0] \in V /\ \A k \in 1..n : T[k - 1] \in V => T[k] \in V
  BY <1>10, <1>13, SimulatorAssumption DEF V
<1>15. \A k \in 0..n : T[k] \in V
  BY <1>1, <1>14, TraceType
<1> QED
  BY <1>9, <1>10, <1>11, <1>12, <1>15 DEF n, V

(* It grows trade by trade.                                                *)
LEMMA EquitySteps ==
    ASSUME NEW seq \in Seq(Trades)
    PROVE  /\ EquityOf(seq, 0) = InitialEquity
           /\ \A t \in 0..Len(seq) : EquityOf(seq, t) \in Int
           /\ \A t \in 1..Len(seq) : EquityOf(seq, t) = EquityOf(seq, t - 1) + seq[t].net
<1> DEFINE Sum(s) == FoldLeft(LAMBDA total, trade : total + trade.net, InitialEquity, s)
           Start(t) == SubSeq(seq, 1, t)
<1>1. ASSUME NEW t \in 0..Len(seq)
      PROVE  /\ Start(t) \in Seq(Trades) /\ Len(Start(t)) = t
             /\ \A k \in 1..t : Start(t)[k] = seq[k]
  BY SubSeqProperties
<1>2. \A t : EquityOf(seq, t) = Sum(Start(t))
  BY DEF EquityOf
<1> HIDE DEF Start
<1>3. ASSUME NEW t \in 0..Len(seq)
      PROVE  \E T : /\ T[0] = InitialEquity /\ Sum(Start(t)) = T[t]
                    /\ \A k \in 0..t : T[k] \in Int
                    /\ \A k \in 1..t : T[k] = T[k - 1] + seq[k].net
  <2> DEFINE s == Start(t)
  <2>1. s \in Seq(Trades) /\ Len(s) = t /\ \A k \in 1..t : s[k] = seq[k]
    BY <1>1
  <2> HIDE DEF s
  <2>2. PICK T : /\ T[0] = InitialEquity /\ Sum(s) = T[Len(s)]
                 /\ \A k \in 0..Len(s) : T[k] \in Int
                 /\ \A k \in 1..Len(s) : T[k] = T[k - 1] + s[k].net
    BY <2>1, EquityTrace
  <2>3. \A k \in 1..t : T[k] = T[k - 1] + seq[k].net
    BY <2>1, <2>2
  <2> QED
    BY <2>1, <2>2, <2>3 DEF s
<1> HIDE DEF Sum
<1>4. EquityOf(seq, 0) = InitialEquity
  BY <1>2, <1>3
<1>5. ASSUME NEW t \in 1..Len(seq)
      PROVE  EquityOf(seq, t) = EquityOf(seq, t - 1) + seq[t].net
  <2>1. t \in 0..Len(seq) /\ t - 1 \in 0..Len(seq) /\ t - 1 \in Nat
    OBVIOUS
  <2>2. PICK T : /\ T[0] = InitialEquity /\ Sum(Start(t)) = T[t]
                 /\ \A k \in 1..t : T[k] = T[k - 1] + seq[k].net
    BY <1>3, <2>1, SMTT(30)
  <2>3. PICK S : /\ S[0] = InitialEquity /\ Sum(Start(t - 1)) = S[t - 1]
                 /\ \A k \in 1..(t - 1) : S[k] = S[k - 1] + seq[k].net
    BY <1>3, <2>1, SMTT(30)
  <2> DEFINE m == t - 1
  <2>4. GoOnAlike(S, T, m)
    BY <2>1, <2>2, <2>3 DEF GoOnAlike
  <2>5. m \in 0..m
    BY <2>1
  <2> HIDE DEF m
  <2>6. S[m] = T[m]
    <3>1. \A k \in 0..m : S[k] = T[k]
      BY ONLY <2>4, TracesAgree
    <3> QED
      BY <2>5, <3>1
  <2> QED
    BY <1>2, <2>2, <2>3, <2>6 DEF m
<1> QED
  BY <1>2, <1>3, <1>4, <1>5

(* What a trade more does not change.                                      *)
LEMMA EquityAppended ==
    ASSUME NEW seq \in Seq(Trades), NEW trade \in Trades
    PROVE  /\ Append(seq, trade) \in Seq(Trades) /\ Len(Append(seq, trade)) = Len(seq) + 1
           /\ \A k \in 0..Len(seq) : EquityOf(Append(seq, trade), k) = EquityOf(seq, k)
           /\ EquityOf(Append(seq, trade), Len(seq) + 1) = EquityOf(seq, Len(seq)) + trade.net
<1> DEFINE n == Len(seq)
           longer == Append(seq, trade)
           S == [k \in 0..n |-> EquityOf(longer, k)]
           T == [k \in 0..n |-> EquityOf(seq, k)]
<1>1. /\ n \in Nat /\ longer \in Seq(Trades) /\ Len(longer) = n + 1 /\ longer[n + 1] = trade
      /\ \A k \in 1..n : longer[k] = seq[k]
  OBVIOUS
<1> HIDE DEF longer
<1>2. /\ EquityOf(longer, 0) = InitialEquity
      /\ \A k \in 1..(n + 1) : EquityOf(longer, k) = EquityOf(longer, k - 1) + longer[k].net
  BY <1>1, EquitySteps
<1>3. /\ EquityOf(seq, 0) = InitialEquity
      /\ \A k \in 1..n : EquityOf(seq, k) = EquityOf(seq, k - 1) + seq[k].net
  BY EquitySteps
<1> HIDE DEF n
<1>4. S[0] = T[0]
  BY <1>1, <1>2, <1>3
<1>5. ASSUME NEW k \in 1..n, S[k - 1] = T[k - 1]
      PROVE  S[k] = T[k]
  <2>1. k \in 0..n /\ k - 1 \in 0..n /\ k \in 1..(n + 1)
    BY <1>1
  <2>2. S[k - 1] = EquityOf(longer, k - 1) /\ T[k - 1] = EquityOf(seq, k - 1)
        /\ S[k] = EquityOf(longer, k) /\ T[k] = EquityOf(seq, k)
    BY <2>1
  <2> HIDE DEF S, T
  <2> QED
    BY <1>1, <1>2, <1>3, <1>5, <2>1, <2>2
<1>6. \A k \in 0..n : S[k] = EquityOf(longer, k) /\ T[k] = EquityOf(seq, k)
  OBVIOUS
<1> HIDE DEF S, T
<1>7. \A k \in 0..n : S[k] = T[k]
  <2>1. GoOnAlike(S, T, n)
    BY <1>1, <1>4, <1>5 DEF GoOnAlike
  <2> QED
    BY ONLY <2>1, TracesAgree
<1>8. \A k \in 0..n : EquityOf(longer, k) = EquityOf(seq, k)
  BY <1>6, <1>7
<1>9. n + 1 \in 1..(n + 1) /\ (n + 1) - 1 = n /\ n \in 0..n
  BY <1>1
<1>10. EquityOf(longer, n + 1) = EquityOf(longer, n) + trade.net
  BY <1>1, <1>2, <1>9
<1> QED
  BY <1>1, <1>8, <1>9, <1>10 DEF n, longer

-----------------------------------------------------------------------------
(* Peaks and falls                                                         *)

(* The highest equity behind the first n trades.                           *)
IsPeak(seq, n, peak) ==
    /\ \E i \in 0..n : peak = EquityOf(seq, i)
    /\ \A i \in 0..n : EquityOf(seq, i) <= peak

LEMMA PeakIsOne ==
    ASSUME NEW seq \in Seq(Trades), NEW n \in 0..Len(seq), NEW p, NEW q,
           IsPeak(seq, n, p), IsPeak(seq, n, q)
    PROVE  p = q /\ p \in Int /\ p >= InitialEquity /\ p >= EquityOf(seq, n)
<1>1. \A i \in 0..n : EquityOf(seq, i) \in Int
  BY EquitySteps
<1>2. p \in Int /\ q \in Int /\ p <= q /\ q <= p
  BY <1>1 DEF IsPeak
<1>3. 0 \in 0..n /\ n \in 0..n
  OBVIOUS
<1>4. EquityOf(seq, 0) = InitialEquity
  BY EquitySteps
<1> QED
  BY <1>1, <1>2, <1>3, <1>4, SimulatorAssumption DEF IsPeak

LEMMA PeakGrows ==
    ASSUME NEW seq \in Seq(Trades), NEW n \in 1..Len(seq), NEW p, IsPeak(seq, n - 1, p)
    PROVE  LET e == EquityOf(seq, n) IN IsPeak(seq, n, IF e > p THEN e ELSE p)
<1> DEFINE e == EquityOf(seq, n)
           q == IF e > p THEN e ELSE p
<1>1. n \in Nat /\ n - 1 \in 0..Len(seq) /\ n \in 0..n /\ \A i \in 0..n : i = n \/ i \in 0..(n - 1)
  OBVIOUS
<1>2. \A i \in 0..n : EquityOf(seq, i) \in Int
  BY EquitySteps
<1>3. p \in Int /\ \A i \in 0..(n - 1) : EquityOf(seq, i) <= p
  BY <1>1, <1>2, PeakIsOne DEF IsPeak
<1>4. PICK j \in 0..(n - 1) : p = EquityOf(seq, j)
  BY DEF IsPeak
<1>5. e \in Int /\ j \in 0..n
  BY <1>1, <1>2, <1>4
<1> HIDE DEF e
<1>6. q \in Int /\ q >= p /\ q >= e /\ (q = e \/ q = p)
  BY <1>3, <1>5
<1> HIDE DEF q
<1>7. \E i \in 0..n : q = EquityOf(seq, i)
  BY <1>1, <1>4, <1>5, <1>6 DEF e
<1>8. ASSUME NEW i \in 0..n PROVE EquityOf(seq, i) <= q
  <2>1. CASE i = n
    BY <1>6, <2>1 DEF e
  <2>2. CASE i \in 0..(n - 1)
    BY <1>2, <1>3, <1>6, <2>2
  <2> QED
    BY <1>1, <2>1, <2>2
<1> QED
  BY <1>7, <1>8 DEF IsPeak, q, e

LEMMA PeaksExist ==
    ASSUME NEW seq \in Seq(Trades)
    PROVE  \A n \in 0..Len(seq) : \E p : IsPeak(seq, n, p)
<1> DEFINE R == {n \in Nat : n <= Len(seq) => \E p : IsPeak(seq, n, p)}
<1>1. 0 \in R
  <2>1. EquityOf(seq, 0) \in Int /\ 0..0 = {0}
    BY EquitySteps
  <2>2. IsPeak(seq, 0, EquityOf(seq, 0))
    BY <2>1 DEF IsPeak
  <2> QED
    BY <2>2
<1>2. ASSUME NEW n \in Nat, n \in R PROVE n + 1 \in R
  <2>1. CASE n + 1 <= Len(seq)
    <3>1. PICK p : IsPeak(seq, n, p)
      BY <1>2, <2>1
    <3>2. n + 1 \in 1..Len(seq) /\ (n + 1) - 1 = n
      BY <2>1
    <3>3. IsPeak(seq, (n + 1) - 1, p)
      BY <3>1, <3>2
    <3>4. \E q : IsPeak(seq, n + 1, q)
      BY <3>2, <3>3, PeakGrows
    <3> QED
      BY <3>4
  <2> QED
    BY <2>1
<1> HIDE DEF R
<1>3. Nat \subseteq R
  BY <1>1, <1>2, Induction
<1> QED
  BY <1>3 DEF R

LEMMA MulLeq ==
    ASSUME NEW x \in Int, NEW y \in Int, NEW c \in Nat, x <= y
    PROVE  x * c <= y * c
<1>1. (y - x) * c >= 0
  OBVIOUS
<1> QED
  BY <1>1

LEMMA MulLess ==
    ASSUME NEW x \in Int, NEW y \in Int, NEW c \in Nat \ {0}, x < y
    PROVE  x * c < y * c
<1>1. x + 1 <= y
  OBVIOUS
<1>2. (x + 1) * c <= y * c
  BY <1>1, MulLeq
<1>3. (x + 1) * c = x * c + c /\ x * c \in Int /\ y * c \in Int
  OBVIOUS
<1> QED
  BY <1>2, <1>3

(* A ratio x / y that is at most a / b is at most a larger s / u.          *)
LEMMA RatioBelow ==
    ASSUME NEW x \in Int, NEW y \in Nat \ {0}, NEW a \in Int, NEW b \in Nat \ {0},
           NEW s \in Int, NEW u \in Nat \ {0}, x * b <= a * y, a * u < s * b
    PROVE  x * u <= s * y
<1>1. (x * b) * u <= (a * y) * u
  BY MulLeq
<1>2. (a * u) * y < (s * b) * y
  BY MulLess
<1>3. (x * b) * u = (x * u) * b /\ (a * y) * u = (a * u) * y /\ (s * b) * y = (s * y) * b
  OBVIOUS
<1>4. ~(s * y < x * u)
  <2>1. ASSUME s * y < x * u PROVE  FALSE
    <3> DEFINE m == s * y
               k == x * u
    <3>1. m \in Int /\ k \in Int /\ m < k
      BY <2>1
    <3> HIDE DEF m, k
    <3>2. m * b < k * b
      BY <3>1, MulLess
    <3>3. m * b \in Int /\ k * b \in Int /\ (a * y) * u \in Int
      BY <3>1
    <3>4. k * b <= (a * y) * u /\ (a * y) * u < m * b
      BY <1>1, <1>2, <1>3 DEF m, k
    <3> QED
      BY <3>2, <3>3, <3>4
  <2> QED
    BY <2>1
<1> QED
  BY <1>4

LEMMA PeakAppended ==
    ASSUME NEW seq \in Seq(Trades), NEW trade \in Trades, NEW n \in 0..Len(seq), NEW p
    PROVE  IsPeak(Append(seq, trade), n, p) <=> IsPeak(seq, n, p)
<1>1. \A i \in 0..n : i \in 0..Len(seq)
  OBVIOUS
<1>2. \A i \in 0..n : EquityOf(Append(seq, trade), i) = EquityOf(seq, i)
  BY <1>1, EquityAppended
<1> QED
  BY <1>2 DEF IsPeak

(* The deepest fall from a peak, as a ratio.                               *)
IsDeepest(seq, fall) ==
    /\ \E n \in 0..Len(seq), p \in Int :
          IsPeak(seq, n, p) /\ fall[1] * p = (p - EquityOf(seq, n)) * fall[2]
    /\ \A n \in 0..Len(seq), p \in Int :
          IsPeak(seq, n, p) => (p - EquityOf(seq, n)) * fall[2] <= fall[1] * p

Books(seq, e, p, fall) ==
    /\ seq \in Seq(Trades)
    /\ e = EquityOf(seq, Len(seq)) /\ IsPeak(seq, Len(seq), p)
    /\ fall = <<fall[1], fall[2]>> /\ fall[1] \in Int /\ fall[2] \in Nat \ {0}
    /\ IsDeepest(seq, fall)

(* The books with one trade more.                                          *)
LEMMA BooksKept ==
    ASSUME NEW seq, NEW trade \in Trades, NEW e, NEW p, NEW fall, Books(seq, e, p, fall),
           NEW total, total = e + trade.net, NEW peak, peak = IF total > p THEN total ELSE p
    PROVE  Books(Append(seq, trade), total, peak, Larger(fall, DrawdownRatio(total, peak)))
<1> DEFINE n == Len(seq)
           longer == Append(seq, trade)
           a == fall[1]
           b == fall[2]
           s == peak - total
           u == peak
           next == Larger(fall, DrawdownRatio(total, peak))
<1>1. /\ seq \in Seq(Trades) /\ e = EquityOf(seq, n) /\ IsPeak(seq, n, p)
      /\ fall = <<a, b>> /\ a \in Int /\ b \in Nat \ {0} /\ IsDeepest(seq, fall) /\ n \in Nat
  BY DEF Books
<1>2. /\ longer \in Seq(Trades) /\ Len(longer) = n + 1
      /\ \A k \in 0..n : EquityOf(longer, k) = EquityOf(seq, k)
      /\ total = EquityOf(longer, n + 1)
  BY <1>1, EquityAppended
<1> HIDE DEF longer
<1>3. IsPeak(longer, n + 1, peak)
  <2>1. n + 1 \in 1..Len(longer) /\ (n + 1) - 1 = n /\ n \in 0..Len(seq)
    BY <1>1, <1>2
  <2>2. IsPeak(longer, n, p)
    BY <1>1, <2>1, PeakAppended DEF longer
  <2>3. IsPeak(longer, (n + 1) - 1, p)
    BY <2>1, <2>2
  <2> HIDE DEF n
  <2>4. LET eq == EquityOf(longer, n + 1) IN IsPeak(longer, n + 1, IF eq > p THEN eq ELSE p)
    BY <1>2, <2>1, <2>3, PeakGrows
  <2> QED
    BY <1>2, <2>4
<1>4. peak \in Int /\ peak >= InitialEquity /\ peak >= total /\ total \in Int
  <2>1. n + 1 \in 0..Len(longer)
    BY <1>1, <1>2
  <2> HIDE DEF n
  <2>2. peak \in Int /\ peak >= InitialEquity /\ peak >= EquityOf(longer, n + 1)
    BY <1>2, <1>3, <2>1, PeakIsOne
  <2>3. EquityOf(longer, n + 1) \in Int
    BY <1>2, <2>1, EquitySteps
  <2> QED
    BY <1>2, <2>2, <2>3
<1>5. s \in Int /\ u \in Nat \ {0} /\ DrawdownRatio(total, peak) = <<s, u>>
  BY <1>4, SimulatorAssumption DEF DrawdownRatio
<1>6. ASSUME NEW k \in 0..Len(longer), NEW q \in Int, IsPeak(longer, k, q)
      PROVE  \/ k = n + 1 /\ q = u /\ q - EquityOf(longer, k) = s
             \/ k \in 0..n /\ IsPeak(seq, k, q) /\ EquityOf(longer, k) = EquityOf(seq, k)
  <2>1. k = n + 1 \/ k \in 0..n
    BY <1>1, <1>2
  <2>2. CASE k = n + 1
    <3>1. q = peak
      BY <1>2, <1>3, <1>6, <2>2, PeakIsOne
    <3> QED
      BY <1>2, <2>2, <3>1
  <2>3. CASE k \in 0..n
    <3>1. IsPeak(seq, k, q)
      BY <1>1, <1>6, <2>3, PeakAppended DEF longer
    <3> QED
      BY <1>2, <2>3, <3>1
  <2> QED
    BY <2>1, <2>2, <2>3
<1>7. ASSUME NEW k \in 0..n, NEW q \in Int, IsPeak(seq, k, q)
      PROVE  q \in Nat \ {0} /\ EquityOf(seq, k) \in Int /\ (q - EquityOf(seq, k)) * b <= a * q
  <2>1. q >= InitialEquity /\ EquityOf(seq, k) \in Int
    BY <1>1, <1>7, PeakIsOne, EquitySteps
  <2> QED
    BY <1>1, <1>7, <2>1, SimulatorAssumption DEF IsDeepest
<1>8. CASE a * u >= s * b
  <2>1. next = <<a, b>>
    BY <1>1, <1>5, <1>8 DEF Larger
  <2>2. PICK k \in 0..n, q \in Int : IsPeak(seq, k, q) /\ a * q = (q - EquityOf(seq, k)) * b
    BY <1>1 DEF IsDeepest
  <2>3. k \in 0..Len(longer) /\ EquityOf(longer, k) = EquityOf(seq, k) /\ IsPeak(longer, k, q)
    BY <1>1, <1>2, <2>2, PeakAppended DEF longer
  <2>4. ASSUME NEW j \in 0..Len(longer), NEW r \in Int, IsPeak(longer, j, r)
        PROVE  (r - EquityOf(longer, j)) * b <= a * r
    <3>1. CASE j = n + 1 /\ r = u /\ r - EquityOf(longer, j) = s
      <4> HIDE DEF a, b, s, u
      <4>1. s * b \in Int /\ a * u \in Int
        BY <1>1, <1>5
      <4> QED
        BY <1>8, <3>1, <4>1
    <3>2. CASE j \in 0..n /\ IsPeak(seq, j, r) /\ EquityOf(longer, j) = EquityOf(seq, j)
      <4>1. (r - EquityOf(seq, j)) * b <= a * r
        BY <1>7, <3>2
      <4> QED
        BY <3>2, <4>1
    <3> QED
      BY <1>6, <2>4, <3>1, <3>2
  <2>5. IsDeepest(longer, <<a, b>>)
    <3> HIDE DEF a, b
    <3> QED
      BY <2>2, <2>3, <2>4 DEF IsDeepest
  <2>6. Books(longer, total, peak, <<a, b>>)
    <3> HIDE DEF a, b
    <3> QED
      BY <1>1, <1>2, <1>3, <2>5 DEF Books
  <2> QED
    BY <2>1, <2>6 DEF longer
<1>9. CASE a * u < s * b
  <2>1. next = <<s, u>>
    <3> HIDE DEF a, b, s, u
    <3>1. a * u \in Int /\ s * b \in Int /\ ~(a * u >= s * b)
      BY <1>1, <1>5, <1>9
    <3> QED
      BY <1>1, <1>5, <3>1 DEF Larger, a, b
  <2>2. n + 1 \in 0..Len(longer) /\ u \in Int /\ s = u - EquityOf(longer, n + 1)
    BY <1>1, <1>2, <1>4
  <2>3. ASSUME NEW j \in 0..Len(longer), NEW r \in Int, IsPeak(longer, j, r)
        PROVE  (r - EquityOf(longer, j)) * u <= s * r
    <3>1. CASE j = n + 1 /\ r = u /\ r - EquityOf(longer, j) = s
      <4> HIDE DEF s, u
      <4>1. s * u \in Int
        BY <1>5
      <4> QED
        BY <3>1, <4>1
    <3>2. CASE j \in 0..n /\ IsPeak(seq, j, r) /\ EquityOf(longer, j) = EquityOf(seq, j)
      <4> DEFINE x == r - EquityOf(seq, j)
      <4>1. r \in Nat \ {0} /\ x \in Int /\ x * b <= a * r
        BY <1>7, <3>2
      <4> HIDE DEF x, a, b, s, u
      <4>2. x * u <= s * r
        BY <1>1, <1>5, <1>9, <4>1, RatioBelow
      <4> QED
        BY <3>2, <4>2 DEF x
    <3> QED
      BY <1>6, <2>3, <3>1, <3>2
  <2>4. IsDeepest(longer, <<s, u>>)
    <3>1. IsPeak(longer, n + 1, u) /\ s * u = (u - EquityOf(longer, n + 1)) * u
      BY <1>3, <2>2
    <3> HIDE DEF s, u, n
    <3> QED
      BY <2>2, <2>3, <3>1 DEF IsDeepest
  <2>5. Books(longer, total, peak, <<s, u>>)
    <3>1. IsPeak(longer, Len(longer), peak) /\ total = EquityOf(longer, Len(longer))
      BY <1>2, <1>3
    <3> HIDE DEF s, u, n
    <3> QED
      BY <1>2, <1>5, <2>4, <3>1 DEF Books
  <2> QED
    BY <2>1, <2>5 DEF longer
<1>10. a * u >= s * b \/ a * u < s * b
  <2> HIDE DEF a, b, s, u
  <2>1. a * u \in Int /\ s * b \in Int
    BY <1>1, <1>5
  <2> QED
    BY <2>1
<1> QED
  BY <1>8, <1>9, <1>10

-----------------------------------------------------------------------------
(* Trades and candles                                                      *)

Said == TradeSides \union {"WAIT", "none", "unlevelled", "unasked", "ruined"}

(* The candle touches a level.                                             *)
Touched(c, direction, levels) ==
    /\ levels # NoLevels
    /\ StopTouched(direction, levels, c) \/ TakeProfitTouched(direction, levels, c)

(* Neither the candle nor what was said on it ends a position.             *)
Passes(c, said, direction, levels) ==
    ~Touched(c, direction, levels) /\ ~Opposite(direction, said)

(* A trade leaves at its first reason, over the candles cs and what was    *)
(* said on them; on says that there may be more of them.               *)
LeftAtFirst(cs, told, on, t) ==
    /\ \A k \in (t.from + 1)..(t.to - 1) : Passes(cs[k], told[k], t.direction, t.levels)
    /\ t.reason = "end_of_data" => t.to = Len(cs) /\ ~on
    /\ t.reason = "opposite_signal" =>
         /\ t.from < t.to /\ Opposite(t.direction, told[t.to])
         /\ ~Touched(cs[t.to], t.direction, t.levels)
    /\ t.reason = "take_profit" =>
         /\ t.from < t.to /\ Touched(cs[t.to], t.direction, t.levels)
         /\ ~(t.levels # NoLevels /\ StopTouched(t.direction, t.levels, cs[t.to]))
    /\ t.reason = "stop_loss" =>
         t.from < t.to /\ t.levels # NoLevels /\ StopTouched(t.direction, t.levels, cs[t.to])

Recorded(cs, told, on, seq) ==
    /\ cs \in Seq(Candles) /\ told \in Seq(Said) /\ Len(told) = Len(cs) /\ seq \in Seq(Trades)
    /\ \A i \in 1..Len(seq) :
         /\ seq[i].from \in 1..Len(cs) /\ seq[i].to \in seq[i].from..Len(cs)
         /\ told[seq[i].from] = seq[i].direction
         /\ LeftAtFirst(cs, told, on, seq[i])
    /\ \A i \in 2..Len(seq) : seq[i - 1].to < seq[i].from

(* Every signal to enter up to candle n is part of a trade.                *)
Covered(told, n, seq) ==
    \A k \in 1..n : told[k] \in TradeSides =>
        \E i \in 1..Len(seq) : seq[i].from <= k /\ k <= seq[i].to

(* The position that is open.                                              *)
Open(cs, told, seq, p) ==
    /\ p = [direction |-> p.direction, entry |-> p.entry, at |-> p.at, levels |-> p.levels]
    /\ p.direction \in TradeSides /\ p.entry \in Int /\ p.at \in 1..Len(cs)
    /\ p.levels \in Levels \union {NoLevels}
    /\ told[p.at] = p.direction
    /\ \A k \in (p.at + 1)..Len(cs) : Passes(cs[k], told[k], p.direction, p.levels)
    /\ \A i \in 1..Len(seq) : seq[i].to < p.at
    /\ Covered(told, p.at - 1, seq)

LEMMA OneMore ==
    ASSUME NEW S, NEW seq \in Seq(S), NEW e \in S
    PROVE  /\ Append(seq, e) \in Seq(S) /\ Len(seq) \in Nat
           /\ Len(Append(seq, e)) = Len(seq) + 1
           /\ \A k \in 1..Len(seq) : Append(seq, e)[k] = seq[k]
           /\ Append(seq, e)[Len(seq) + 1] = e
OBVIOUS

LEMMA CandlesGrow ==
    ASSUME NEW cs \in Seq(Candles), NEW told \in Seq(Said), Len(told) = Len(cs),
           NEW c \in Candles, NEW said \in Said
    PROVE  /\ Append(cs, c) \in Seq(Candles) /\ Append(told, said) \in Seq(Said)
           /\ Len(cs) \in Nat
           /\ Len(Append(cs, c)) = Len(cs) + 1 /\ Len(Append(told, said)) = Len(cs) + 1
           /\ \A k \in 1..Len(cs) : Append(cs, c)[k] = cs[k] /\ Append(told, said)[k] = told[k]
           /\ Append(cs, c)[Len(cs) + 1] = c /\ Append(told, said)[Len(cs) + 1] = said
<1>1. /\ Append(cs, c) \in Seq(Candles) /\ Len(cs) \in Nat /\ Len(Append(cs, c)) = Len(cs) + 1
      /\ \A k \in 1..Len(cs) : Append(cs, c)[k] = cs[k]
      /\ Append(cs, c)[Len(cs) + 1] = c
  <2> DEFINE S == Candles
  <2>1. cs \in Seq(S) /\ c \in S
    OBVIOUS
  <2> HIDE DEF S
  <2>2. /\ Append(cs, c) \in Seq(S) /\ Len(cs) \in Nat /\ Len(Append(cs, c)) = Len(cs) + 1
        /\ \A k \in 1..Len(cs) : Append(cs, c)[k] = cs[k]
        /\ Append(cs, c)[Len(cs) + 1] = c
    BY ONLY <2>1, OneMore
  <2> QED
    BY <2>2 DEF S
<1>2. /\ Append(told, said) \in Seq(Said) /\ Len(Append(told, said)) = Len(told) + 1
      /\ \A k \in 1..Len(told) : Append(told, said)[k] = told[k]
      /\ Append(told, said)[Len(told) + 1] = said
  <2> DEFINE S == Said
  <2>1. told \in Seq(S) /\ said \in S
    OBVIOUS
  <2> HIDE DEF S
  <2>2. /\ Append(told, said) \in Seq(S) /\ Len(Append(told, said)) = Len(told) + 1
        /\ \A k \in 1..Len(told) : Append(told, said)[k] = told[k]
        /\ Append(told, said)[Len(told) + 1] = said
    BY ONLY <2>1
  <2> QED
    BY <2>2 DEF S
<1> QED
  BY <1>1, <1>2

(* One candle more: what was left stays left, and no trade has ended with  *)
(* the data.                                                               *)
LEMMA RecordGrows ==
    ASSUME NEW cs, NEW told, NEW seq, Recorded(cs, told, TRUE, seq),
           NEW c \in Candles, NEW said \in Said, NEW on \in BOOLEAN
    PROVE  Recorded(Append(cs, c), Append(told, said), on, seq)
<1> DEFINE n == Len(cs)
           ds == Append(cs, c)
           bs == Append(told, said)
<1>1. /\ cs \in Seq(Candles) /\ told \in Seq(Said) /\ Len(told) = n /\ seq \in Seq(Trades)
      /\ \A i \in 2..Len(seq) : seq[i - 1].to < seq[i].from
  BY DEF Recorded
<1>2. /\ ds \in Seq(Candles) /\ bs \in Seq(Said) /\ n \in Nat /\ Len(ds) = n + 1 /\ Len(bs) = n + 1
      /\ \A k \in 1..n : ds[k] = cs[k] /\ bs[k] = told[k]
  <2>1. cs \in Seq(Candles) /\ told \in Seq(Said) /\ Len(told) = Len(cs)
    BY <1>1
  <2>2. c \in Candles /\ said \in Said
    OBVIOUS
  <2>3. /\ Append(cs, c) \in Seq(Candles) /\ Append(told, said) \in Seq(Said)
        /\ Len(cs) \in Nat
        /\ Len(Append(cs, c)) = Len(cs) + 1 /\ Len(Append(told, said)) = Len(cs) + 1
        /\ \A k \in 1..Len(cs) : Append(cs, c)[k] = cs[k] /\ Append(told, said)[k] = told[k]
    BY ONLY <2>1, <2>2, CandlesGrow
  <2> QED
    BY ONLY <2>3
<1> HIDE DEF ds, bs
<1>3. ASSUME NEW i \in 1..Len(seq)
      PROVE  /\ seq[i].from \in 1..Len(ds) /\ seq[i].to \in seq[i].from..Len(ds)
             /\ bs[seq[i].from] = seq[i].direction
             /\ LeftAtFirst(ds, bs, on, seq[i])
  <2> DEFINE t == seq[i]
  <2>1. /\ t.from \in 1..n /\ t.to \in t.from..n /\ told[t.from] = t.direction
        /\ LeftAtFirst(cs, told, TRUE, t)
    BY DEF Recorded
  <2> HIDE DEF t
  <2>2. t.from \in Int /\ t.to \in 1..n /\ \A k \in (t.from + 1)..(t.to - 1) : k \in 1..n
    BY <1>2, <2>1
  <2>3. ds[t.to] = cs[t.to] /\ bs[t.to] = told[t.to] /\ bs[t.from] = told[t.from]
    BY <1>2, <2>1, <2>2
  <2>4. \A k \in (t.from + 1)..(t.to - 1) : ds[k] = cs[k] /\ bs[k] = told[k]
    BY <1>2, <2>2
  <2>5. t.reason # "end_of_data"
    BY <2>1 DEF LeftAtFirst
  <2>6. LeftAtFirst(ds, bs, on, t)
    BY <2>1, <2>3, <2>4, <2>5 DEF LeftAtFirst
  <2>7. t.from \in 1..Len(ds) /\ t.to \in t.from..Len(ds)
    BY <1>2, <2>1
  <2> QED
    BY <2>1, <2>3, <2>6, <2>7 DEF t
<1> QED
  BY <1>1, <1>2, <1>3 DEF Recorded, ds, bs

(* The data ends.                                                          *)
LEMMA RecordEnds ==
    ASSUME NEW cs, NEW told, NEW seq, Recorded(cs, told, TRUE, seq)
    PROVE  Recorded(cs, told, FALSE, seq)
BY DEF Recorded, LeftAtFirst

(* One trade more.                                                         *)
LEMMA TradeRecorded ==
    ASSUME NEW cs, NEW told, NEW on, NEW seq, Recorded(cs, told, on, seq), NEW t \in Trades,
           t.from \in 1..Len(cs), t.to \in t.from..Len(cs), told[t.from] = t.direction,
           LeftAtFirst(cs, told, on, t), \A i \in 1..Len(seq) : seq[i].to < t.from
    PROVE  Recorded(cs, told, on, Append(seq, t))
<1> DEFINE n == Len(seq)
           longer == Append(seq, t)
<1>1. /\ cs \in Seq(Candles) /\ told \in Seq(Said) /\ Len(told) = Len(cs) /\ seq \in Seq(Trades)
      /\ \A i \in 2..n : seq[i - 1].to < seq[i].from
  BY DEF Recorded
<1>2. /\ longer \in Seq(Trades) /\ n \in Nat /\ Len(longer) = n + 1 /\ longer[n + 1] = t
      /\ \A k \in 1..n : longer[k] = seq[k]
  BY <1>1
<1> HIDE DEF longer
<1>3. ASSUME NEW i \in 1..Len(longer)
      PROVE  /\ longer[i].from \in 1..Len(cs) /\ longer[i].to \in longer[i].from..Len(cs)
             /\ told[longer[i].from] = longer[i].direction
             /\ LeftAtFirst(cs, told, on, longer[i])
  <2>1. i = n + 1 \/ i \in 1..n
    BY <1>2
  <2>2. CASE i = n + 1
    BY <1>2, <2>2
  <2>3. CASE i \in 1..n
    <3>1. longer[i] = seq[i]
      BY <1>2, <2>3
    <3> QED
      BY <2>3, <3>1 DEF Recorded
  <2> QED
    BY <2>1, <2>2, <2>3
<1>4. ASSUME NEW i \in 2..Len(longer) PROVE longer[i - 1].to < longer[i].from
  <2>1. i = n + 1 \/ i \in 2..n
    BY <1>2
  <2>2. CASE i = n + 1
    <3>1. i - 1 = n /\ n \in 1..n
      BY <1>2, <2>2
    <3> QED
      BY <1>2, <2>2, <3>1
  <2>3. CASE i \in 2..n
    <3>1. longer[i] = seq[i] /\ longer[i - 1] = seq[i - 1]
      BY <1>2, <2>3
    <3> QED
      BY <1>1, <2>3, <3>1
  <2> QED
    BY <2>1, <2>2, <2>3
<1> QED
  BY <1>1, <1>2, <1>3, <1>4 DEF Recorded, longer

(* The trade of a position covers what was said while it was open.         *)
LEMMA TradeCovers ==
    ASSUME NEW told, NEW seq \in Seq(Trades), NEW t \in Trades, NEW m \in Nat,
           Covered(told, m, seq), t.from = m + 1, t.to >= m
    PROVE  Covered(told, t.to, Append(seq, t))
<1> DEFINE n == Len(seq)
           longer == Append(seq, t)
<1>1. /\ n \in Nat /\ Len(longer) = n + 1 /\ longer[n + 1] = t
      /\ \A k \in 1..n : longer[k] = seq[k]
  OBVIOUS
<1>2. t.to \in Nat
  BY DEF Trades
<1> HIDE DEF longer
<1>3. ASSUME NEW k \in 1..t.to, told[k] \in TradeSides
      PROVE  \E i \in 1..Len(longer) : longer[i].from <= k /\ k <= longer[i].to
  <2>1. k \in 1..m \/ (k >= m + 1 /\ k <= t.to)
    BY <1>2
  <2>2. CASE k \in 1..m
    <3>1. PICK i \in 1..n : seq[i].from <= k /\ k <= seq[i].to
      BY <1>3, <2>2 DEF Covered
    <3>2. i \in 1..Len(longer) /\ longer[i] = seq[i]
      BY <1>1
    <3> QED
      BY <3>1, <3>2
  <2>3. CASE k >= m + 1 /\ k <= t.to
    <3>1. n + 1 \in 1..Len(longer) /\ longer[n + 1].from <= k /\ k <= longer[n + 1].to
      BY <1>1, <2>3
    <3> QED
      BY <3>1
  <2> QED
    BY <2>1, <2>2, <2>3
<1> QED
  BY <1>3 DEF Covered, longer

(* The trade of a position that ends on the last candle: it is recorded,   *)
(* and all that was said is covered again.                                 *)
LEMMA PositionTraded ==
    ASSUME NEW cs, NEW told, NEW on, NEW seq, Recorded(cs, told, on, seq), NEW t \in Trades,
           t.from \in 1..Len(cs), t.to = Len(cs), told[t.from] = t.direction,
           LeftAtFirst(cs, told, on, t), \A i \in 1..Len(seq) : seq[i].to < t.from,
           Covered(told, t.from - 1, seq)
    PROVE  /\ Recorded(cs, told, on, Append(seq, t))
           /\ Covered(told, Len(cs), Append(seq, t))
<1>1. cs \in Seq(Candles) /\ Len(cs) \in Nat /\ seq \in Seq(Trades)
  BY DEF Recorded
<1>2. t.to \in t.from..Len(cs)
  BY <1>1
<1>3. Recorded(cs, told, on, Append(seq, t))
  BY <1>2, TradeRecorded
<1> DEFINE m == t.from - 1
<1>4. m \in Nat /\ t.from = m + 1 /\ t.to >= m /\ Covered(told, m, seq)
  BY <1>1
<1> HIDE DEF m
<1>5. Covered(told, t.to, Append(seq, t))
  BY <1>1, <1>4, TradeCovers
<1> QED
  BY <1>3, <1>5

(* What is true of the first candles is true of more.                      *)
LEMMA CoveredSame ==
    ASSUME NEW told, NEW more, NEW n \in Nat, NEW seq, Covered(told, n, seq),
           \A k \in 1..n : more[k] = told[k]
    PROVE  Covered(more, n, seq)
BY DEF Covered

LEMMA CoveredOneMore ==
    ASSUME NEW told, NEW n \in Nat, NEW seq, Covered(told, n, seq), told[n + 1] \notin TradeSides
    PROVE  Covered(told, n + 1, seq)
<1>1. \A k \in 1..(n + 1) : k \in 1..n \/ k = n + 1
  OBVIOUS
<1> QED
  BY <1>1 DEF Covered

(* The position that is open over one candle more, which it has not looked *)
(* at yet.                                                                 *)
LEMMA OpenGrows ==
    ASSUME NEW cs, NEW told, NEW on, NEW seq, Recorded(cs, told, on, seq),
           NEW p, Open(cs, told, seq, p), NEW c \in Candles, NEW said \in Said
    PROVE  LET ds == Append(cs, c)
               bs == Append(told, said)
           IN  /\ p.at \in 1..Len(cs) /\ bs[p.at] = p.direction
               /\ \A k \in (p.at + 1)..Len(cs) : Passes(ds[k], bs[k], p.direction, p.levels)
               /\ Covered(bs, p.at - 1, seq)
<1> DEFINE n == Len(cs)
           ds == Append(cs, c)
           bs == Append(told, said)
<1>1. cs \in Seq(Candles) /\ told \in Seq(Said) /\ Len(told) = Len(cs)
  BY DEF Recorded
<1>2. c \in Candles /\ said \in Said
  OBVIOUS
<1>3. /\ Len(cs) \in Nat
      /\ \A k \in 1..Len(cs) : Append(cs, c)[k] = cs[k] /\ Append(told, said)[k] = told[k]
  BY ONLY <1>1, <1>2, CandlesGrow
<1>4. n \in Nat /\ \A k \in 1..n : ds[k] = cs[k] /\ bs[k] = told[k]
  BY ONLY <1>3
<1> HIDE DEF n, ds, bs
<1>5. /\ p.at \in 1..n /\ told[p.at] = p.direction /\ Covered(told, p.at - 1, seq)
      /\ \A k \in (p.at + 1)..n : Passes(cs[k], told[k], p.direction, p.levels)
  BY DEF Open, n
<1>6. \A k \in (p.at + 1)..n : k \in 1..n
  BY <1>4, <1>5
<1>7. \A k \in (p.at + 1)..n : Passes(ds[k], bs[k], p.direction, p.levels)
  BY <1>4, <1>5, <1>6
<1>8. Covered(bs, p.at - 1, seq)
  <2> DEFINE m == p.at - 1
  <2>1. m \in Nat /\ \A k \in 1..m : k \in 1..n
    BY <1>4, <1>5
  <2>2. Covered(told, m, seq)
    BY <1>5
  <2> HIDE DEF m
  <2>3. Covered(bs, m, seq)
    BY <1>4, <2>1, <2>2, CoveredSame
  <2> QED
    BY <2>3 DEF m
<1> QED
  BY <1>4, <1>5, <1>7, <1>8 DEF n, ds, bs

-----------------------------------------------------------------------------
(* The steps of a simulation                                               *)

SimInv ==
    /\ Recorded(candles, answers, simulation = "running", trades)
    /\ Books(trades, equity, peakEquity, maxDrawdown)
    /\ \/ openPosition = Flat /\ Covered(answers, Len(candles), trades)
       \/ simulation = "running" /\ Open(candles, answers, trades, openPosition)

LEMMA PriceIsInt == \A x \in Prices : x \in Int
BY SimulatorAssumption

LEMMA ClosePrice ==
    ASSUME NEW c \in Candles
    PROVE  c.close \in Int
<1>1. c \in [low : Prices, close : Prices, high : Prices]
  BY DEF Candles
<1>2. c.close \in Prices
  BY <1>1
<1> QED
  BY <1>2, PriceIsInt

LEMMA OpenIsNotFlat ==
    ASSUME NEW cs, NEW told, NEW seq, NEW p, Open(cs, told, seq, p)
    PROVE  p # Flat
BY DEF Open, Flat, TradeSides

(* What the candle of a step adds.                                         *)
LEMMA SeesGrows ==
    ASSUME NEW c \in Candles, NEW said \in Said, Sees(c, said), SimInv
    PROVE  /\ Recorded(candles', answers', simulation' = "running", trades)
           /\ Len(candles') = Len(candles) + 1 /\ Len(candles) \in Nat
           /\ candles'[Len(candles) + 1] = c /\ answers'[Len(candles) + 1] = said
           /\ \A k \in 1..Len(candles) : answers'[k] = answers[k]
           /\ simulation = "running" /\ (said # "ruined" => simulation' = "running")
<1>1. /\ Recorded(candles, answers, TRUE, trades) /\ simulation = "running"
      /\ candles' = Append(candles, c) /\ answers' = Append(answers, said)
      /\ said # "ruined" => simulation' = "running"
  BY DEF Sees, SimInv
<1>2. /\ candles \in Seq(Candles) /\ answers \in Seq(Said) /\ Len(answers) = Len(candles)
      /\ c \in Candles /\ said \in Said
  BY <1>1 DEF Recorded
<1>3. /\ Len(candles) \in Nat /\ Len(Append(candles, c)) = Len(candles) + 1
      /\ \A k \in 1..Len(candles) : Append(answers, said)[k] = answers[k]
      /\ Append(candles, c)[Len(candles) + 1] = c /\ Append(answers, said)[Len(candles) + 1] = said
  BY ONLY <1>2, CandlesGrow
<1> DEFINE on == simulation' = "running"
<1>4. on \in BOOLEAN
  OBVIOUS
<1> HIDE DEF on
<1>5. Recorded(Append(candles, c), Append(answers, said), on, trades)
  BY <1>1, <1>4, RecordGrows
<1> QED
  BY <1>1, <1>3, <1>5 DEF on

(* What CloseTrade writes for the position.                                *)
LEMMA CloseKept ==
    ASSUME NEW price \in Int, NEW reason \in Reasons, NEW ends \in Nat,
           CloseTrade(price, reason, ends), SimInv, openPosition # Flat
    PROVE  /\ Books(trades', equity', peakEquity', maxDrawdown') /\ openPosition' = Flat
           /\ \E t \in Trades :
                /\ trades' = Append(trades, t)
                /\ t.direction = openPosition.direction /\ t.levels = openPosition.levels
                /\ t.from = openPosition.at /\ t.to = ends /\ t.reason = reason
<1> DEFINE filled == price - Sign(openPosition.direction) * Slippage
           net == Sign(openPosition.direction) * (filled - openPosition.entry) - Fee
           total == equity + net
           peak == IF total > peakEquity THEN total ELSE peakEquity
           t == [direction |-> openPosition.direction, entry |-> openPosition.entry,
                 levels |-> openPosition.levels, exit |-> filled, net |-> net,
                 reason |-> reason, from |-> openPosition.at, to |-> ends]
<1>1. /\ openPosition.direction \in TradeSides /\ openPosition.entry \in Int /\ openPosition.at \in 1..Len(candles)
      /\ openPosition.levels \in Levels \union {NoLevels} /\ Len(candles) \in Nat
  BY DEF SimInv, Open, Recorded
<1>2. /\ trades' = Append(trades, t) /\ equity' = total /\ peakEquity' = peak
      /\ maxDrawdown' = Larger(maxDrawdown, DrawdownRatio(total, peak)) /\ openPosition' = Flat
  BY DEF CloseTrade
<1>3. Sign(openPosition.direction) \in {1, -1}
  BY DEF Sign
<1>4. filled \in Int /\ net \in Int
  BY <1>1, <1>3, SimulatorAssumption
<1>5. openPosition.at \in Nat
  BY <1>1
<1>6. t \in Trades
  <2> HIDE DEF filled, net
  <2> QED
    BY <1>1, <1>4, <1>5 DEF Trades
<1>7. t.net = net
  OBVIOUS
<1> HIDE DEF filled, net
<1>8. Books(trades, equity, peakEquity, maxDrawdown)
  BY DEF SimInv
<1>9. /\ t.direction = openPosition.direction /\ t.levels = openPosition.levels
      /\ t.from = openPosition.at /\ t.to = ends /\ t.reason = reason
  OBVIOUS
<1>10. total = equity + t.net
  BY <1>7
<1> HIDE DEF t, total
<1>11. Books(Append(trades, t), total, peak, Larger(maxDrawdown, DrawdownRatio(total, peak)))
  BY <1>6, <1>8, <1>10, BooksKept
<1> QED
  BY <1>2, <1>6, <1>9, <1>11

(* It stays what it is without a trade.                                    *)
LEMMA NoTradeKeeps ==
    ASSUME SimInv, NoTrade
    PROVE  trades' = trades /\ Books(trades', equity', peakEquity', maxDrawdown')
BY DEF SimInv, NoTrade

(* A position that ends on the new candle.                                 *)
LEMMA ClosedOnCandle ==
    ASSUME SimInv, openPosition # Flat,
           NEW c \in Candles, NEW said \in Said \ {"ruined"}, Sees(c, said),
           NEW price \in Int, NEW reason \in Reasons \ {"end_of_data"},
           CloseTrade(price, reason, Len(candles) + 1),
           reason = "opposite_signal" =>
              /\ Opposite(openPosition.direction, said)
              /\ ~Touched(c, openPosition.direction, openPosition.levels),
           reason = "take_profit" =>
              /\ Touched(c, openPosition.direction, openPosition.levels)
              /\ ~(openPosition.levels # NoLevels /\ StopTouched(openPosition.direction, openPosition.levels, c)),
           reason = "stop_loss" =>
              openPosition.levels # NoLevels /\ StopTouched(openPosition.direction, openPosition.levels, c)
    PROVE  SimInv'
<1> DEFINE n == Len(candles)
<1>1. /\ Recorded(candles', answers', simulation' = "running", trades)
      /\ Len(candles') = n + 1 /\ n \in Nat
      /\ candles'[n + 1] = c /\ answers'[n + 1] = said
      /\ simulation = "running" /\ simulation' = "running"
  BY SeesGrows
<1>2. /\ Open(candles, answers, trades, openPosition) /\ Recorded(candles, answers, TRUE, trades)
      /\ candles' = Append(candles, c) /\ answers' = Append(answers, said)
  BY <1>1 DEF SimInv, Sees
<1>3. /\ openPosition.at \in 1..n /\ answers'[openPosition.at] = openPosition.direction
      /\ \A k \in (openPosition.at + 1)..n : Passes(candles'[k], answers'[k], openPosition.direction, openPosition.levels)
      /\ Covered(answers', openPosition.at - 1, trades)
  <2> DEFINE ds == Append(candles, c)
             bs == Append(answers, said)
             p == openPosition
  <2>1. Open(candles, answers, trades, p) /\ Recorded(candles, answers, TRUE, trades)
        /\ said \in Said
    BY <1>2
  <2> HIDE DEF p, n
  <2>2. /\ p.at \in 1..Len(candles) /\ bs[p.at] = p.direction
        /\ \A k \in (p.at + 1)..Len(candles) : Passes(ds[k], bs[k], p.direction, p.levels)
        /\ Covered(bs, p.at - 1, trades)
    BY <2>1, OpenGrows
  <2>3. candles' = ds /\ answers' = bs
    BY <1>2
  <2> HIDE DEF ds, bs
  <2> QED
    BY <2>2, <2>3 DEF p, n
<1>4. n + 1 \in Nat /\ reason \in Reasons
  BY <1>1
<1> HIDE DEF n
<1>5. /\ Books(trades', equity', peakEquity', maxDrawdown') /\ openPosition' = Flat
      /\ \E t \in Trades :
                /\ trades' = Append(trades, t)
                /\ t.direction = openPosition.direction /\ t.levels = openPosition.levels
                /\ t.from = openPosition.at /\ t.to = n + 1 /\ t.reason = reason
  BY <1>4, CloseKept DEF n
<1>6. PICK t \in Trades :
                /\ trades' = Append(trades, t)
                /\ t.direction = openPosition.direction /\ t.levels = openPosition.levels
                /\ t.from = openPosition.at /\ t.to = n + 1 /\ t.reason = reason
  BY <1>5
<1>7. LeftAtFirst(candles', answers', TRUE, t)
  <2>1. t.from < t.to /\ (t.to - 1) = n /\ t.from \in 1..n
    BY <1>1, <1>3, <1>6
  <2>2. \A k \in (t.from + 1)..(t.to - 1) : Passes(candles'[k], answers'[k], t.direction, t.levels)
    BY <1>3, <1>6, <2>1
  <2>3. candles'[t.to] = c /\ answers'[t.to] = said
    BY <1>1, <1>6
  <2> QED
    BY <1>6, <2>1, <2>2, <2>3 DEF LeftAtFirst
<1>8. t.from \in 1..Len(candles') /\ t.to = Len(candles') /\ answers'[t.from] = t.direction
  BY <1>1, <1>3, <1>6
<1>9. (\A i \in 1..Len(trades) : trades[i].to < t.from) /\ Covered(answers', t.from - 1, trades)
  BY <1>2, <1>3, <1>6 DEF Open
<1>10. Recorded(candles', answers', TRUE, trades)
  BY <1>1
<1>11. /\ Recorded(candles', answers', TRUE, Append(trades, t))
       /\ Covered(answers', Len(candles'), Append(trades, t))
  BY <1>7, <1>8, <1>9, <1>10, PositionTraded
<1> QED
  BY <1>1, <1>5, <1>6, <1>11 DEF SimInv

LEMMA ExitAtLevelKeeps ==
    ASSUME SimInv, ExitAtLevel
    PROVE  SimInv'
<1> DEFINE reason(c) == ExitForCandle(openPosition, c)
<1>1. PICK c \in Candles :
        /\ openPosition # Flat /\ reason(c) # "none" /\ Sees(c, "unasked")
        /\ CloseTrade(openPosition.levels[reason(c)], reason(c), Len(candles) + 1)
  BY DEF ExitAtLevel
<1>2. "unasked" \in Said \ {"ruined"}
  BY DEF Said
<1>3. /\ openPosition.levels # NoLevels /\ reason(c) \in {"stop_loss", "take_profit"}
      /\ reason(c) = "stop_loss" => StopTouched(openPosition.direction, openPosition.levels, c)
      /\ reason(c) = "take_profit" =>
            /\ ~StopTouched(openPosition.direction, openPosition.levels, c)
            /\ TakeProfitTouched(openPosition.direction, openPosition.levels, c)
  BY <1>1 DEF ExitForCandle
<1>4. openPosition.levels \in Levels
  BY <1>1, <1>3 DEF SimInv, Open
<1>5. openPosition.levels[reason(c)] \in Int
  <2>1. openPosition.levels.stop_loss \in Int /\ openPosition.levels.take_profit \in Int
    <3>1. openPosition.levels.stop_loss \in Prices /\ openPosition.levels.take_profit \in Prices
      BY <1>4 DEF Levels
    <3> QED
      BY <3>1, PriceIsInt
  <2> HIDE DEF reason
  <2> QED
    BY <1>3, <2>1
<1> HIDE DEF reason
<1>6. reason(c) \in Reasons \ {"end_of_data"} /\ reason(c) # "opposite_signal"
  BY <1>3 DEF Reasons
<1>7. reason(c) = "take_profit" =>
              /\ Touched(c, openPosition.direction, openPosition.levels)
              /\ ~(openPosition.levels # NoLevels /\ StopTouched(openPosition.direction, openPosition.levels, c))
  BY <1>3 DEF Touched
<1>8. reason(c) = "stop_loss" =>
         openPosition.levels # NoLevels /\ StopTouched(openPosition.direction, openPosition.levels, c)
  BY <1>3
<1> DEFINE why == reason(c)
           price == openPosition.levels[why]
           said == "unasked"
<1>9. /\ price \in Int /\ why \in Reasons \ {"end_of_data"} /\ why # "opposite_signal"
      /\ said \in Said \ {"ruined"} /\ Sees(c, said) /\ openPosition # Flat
      /\ CloseTrade(price, why, Len(candles) + 1)
  BY <1>1, <1>2, <1>5, <1>6
<1>10. why = "take_profit" =>
              /\ Touched(c, openPosition.direction, openPosition.levels)
              /\ ~(openPosition.levels # NoLevels /\ StopTouched(openPosition.direction, openPosition.levels, c))
  BY <1>7
<1>11. why = "stop_loss" =>
         openPosition.levels # NoLevels /\ StopTouched(openPosition.direction, openPosition.levels, c)
  BY <1>8
<1> HIDE DEF price, why, said
<1> QED
  BY <1>9, <1>10, <1>11, ClosedOnCandle

(* A position that stays open over the new candle.                         *)
LEMMA HeldOverCandle ==
    ASSUME SimInv, openPosition # Flat,
           NEW c \in Candles, NEW said \in Said \ {"ruined"}, Sees(c, said),
           Passes(c, said, openPosition.direction, openPosition.levels),
           NoTrade, UNCHANGED openPosition
    PROVE  SimInv'
<1> DEFINE n == Len(candles)
<1>1. /\ Recorded(candles', answers', simulation' = "running", trades)
      /\ Len(candles') = n + 1 /\ n \in Nat
      /\ candles'[n + 1] = c /\ answers'[n + 1] = said
      /\ simulation = "running" /\ simulation' = "running"
  BY SeesGrows
<1>2. /\ Open(candles, answers, trades, openPosition) /\ Recorded(candles, answers, TRUE, trades)
      /\ candles' = Append(candles, c) /\ answers' = Append(answers, said)
  BY <1>1 DEF SimInv, Sees
<1>3. /\ openPosition.at \in 1..n /\ answers'[openPosition.at] = openPosition.direction
      /\ \A k \in (openPosition.at + 1)..n : Passes(candles'[k], answers'[k], openPosition.direction, openPosition.levels)
      /\ Covered(answers', openPosition.at - 1, trades)
  <2> DEFINE ds == Append(candles, c)
             bs == Append(answers, said)
             p == openPosition
  <2>1. Open(candles, answers, trades, p) /\ Recorded(candles, answers, TRUE, trades)
        /\ said \in Said
    BY <1>2
  <2> HIDE DEF p, n
  <2>2. /\ p.at \in 1..Len(candles) /\ bs[p.at] = p.direction
        /\ \A k \in (p.at + 1)..Len(candles) : Passes(ds[k], bs[k], p.direction, p.levels)
        /\ Covered(bs, p.at - 1, trades)
    BY <2>1, OpenGrows
  <2>3. candles' = ds /\ answers' = bs
    BY <1>2
  <2> HIDE DEF ds, bs
  <2> QED
    BY <2>2, <2>3 DEF p, n
<1> HIDE DEF n
<1>4. /\ trades' = trades /\ openPosition' = openPosition /\ Books(trades', equity', peakEquity', maxDrawdown')
  BY NoTradeKeeps
<1>5. \A k \in (openPosition.at + 1)..(n + 1) : k = n + 1 \/ k \in (openPosition.at + 1)..n
  BY <1>1, <1>3
<1>6. \A k \in (openPosition.at + 1)..(n + 1) :
         Passes(candles'[k], answers'[k], openPosition.direction, openPosition.levels)
  BY <1>1, <1>3, <1>5
<1>7. openPosition.at \in 1..(n + 1)
  BY <1>1, <1>3
<1>8. Open(candles', answers', trades, openPosition)
  BY <1>1, <1>2, <1>3, <1>6, <1>7 DEF Open
<1> QED
  BY <1>1, <1>4, <1>8 DEF SimInv

LEMMA HoldOrReverseKeeps ==
    ASSUME SimInv, HoldOrReverse
    PROVE  SimInv'
<1>1. PICK c \in Candles, said \in TradeSides \union {"WAIT", "none"} :
        /\ openPosition # Flat /\ ExitForCandle(openPosition, c) = "none" /\ Sees(c, said)
        /\ IF Opposite(openPosition.direction, said)
           THEN CloseTrade(c.close, "opposite_signal", Len(candles) + 1)
           ELSE NoTrade /\ UNCHANGED openPosition
  BY DEF HoldOrReverse
<1>2. said \in Said \ {"ruined"}
  BY DEF Said, TradeSides
<1>3. ~Touched(c, openPosition.direction, openPosition.levels)
  BY <1>1 DEF ExitForCandle, Touched
<1>4. CASE Opposite(openPosition.direction, said)
  <2>1. c.close \in Int
    BY ClosePrice
  <2>2. "opposite_signal" \in Reasons \ {"end_of_data"}
    BY DEF Reasons
  <2> DEFINE why == "opposite_signal"
             price == c.close
  <2>3. /\ price \in Int /\ why \in Reasons \ {"end_of_data"} /\ why # "take_profit" /\ why # "stop_loss"
        /\ CloseTrade(price, why, Len(candles) + 1)
    BY <1>1, <1>4, <2>1, <2>2
  <2> HIDE DEF why, price
  <2> QED
    BY <1>1, <1>2, <1>3, <1>4, <2>3, ClosedOnCandle
<1>5. CASE ~Opposite(openPosition.direction, said)
  BY <1>1, <1>2, <1>3, <1>5, HeldOverCandle DEF Passes
<1> QED
  BY <1>4, <1>5

(* A candle on which nothing is entered.                                   *)
LEMMA FlatOverCandle ==
    ASSUME SimInv, openPosition = Flat,
           NEW c \in Candles, NEW said \in Said \ TradeSides, Sees(c, said),
           NoTrade, UNCHANGED openPosition
    PROVE  SimInv'
<1> DEFINE n == Len(candles)
<1>1. /\ Recorded(candles', answers', simulation' = "running", trades)
      /\ Len(candles') = n + 1 /\ n \in Nat /\ answers'[n + 1] = said
      /\ \A k \in 1..n : answers'[k] = answers[k]
  BY SeesGrows
<1>2. Covered(answers, n, trades)
  BY OpenIsNotFlat DEF SimInv
<1> HIDE DEF n
<1>3. Covered(answers', n, trades)
  BY <1>1, <1>2, CoveredSame
<1>4. Covered(answers', n + 1, trades)
  BY <1>1, <1>3, CoveredOneMore
<1>5. /\ trades' = trades /\ openPosition' = Flat /\ Books(trades', equity', peakEquity', maxDrawdown')
  BY NoTradeKeeps
<1> QED
  BY <1>1, <1>4, <1>5 DEF SimInv

LEMMA StayFlatKeeps ==
    ASSUME SimInv, StayFlat
    PROVE  SimInv'
<1>1. PICK c \in Candles, said \in {"WAIT", "none", "unlevelled"} :
        openPosition = Flat /\ Sees(c, said) /\ NoTrade /\ UNCHANGED openPosition
  BY DEF StayFlat
<1>2. said \in Said \ TradeSides
  BY DEF Said, TradeSides
<1> QED
  BY <1>1, <1>2, FlatOverCandle

LEMMA EnterRuinedKeeps ==
    ASSUME SimInv, EnterRuined
    PROVE  SimInv'
<1> DEFINE said == "ruined"
<1>1. PICK c \in Candles : openPosition = Flat /\ Sees(c, said) /\ NoTrade /\ UNCHANGED openPosition
  BY DEF EnterRuined
<1>2. said \in Said \ TradeSides
  BY DEF Said, TradeSides
<1> HIDE DEF said
<1> QED
  BY <1>1, <1>2, FlatOverCandle

LEMMA EnterKeeps ==
    ASSUME SimInv, Enter
    PROVE  SimInv'
<1>1. PICK c \in Candles, d \in TradeSides, levels \in Levels \union {NoLevels} :
        /\ openPosition = Flat /\ Sees(c, d)
        /\ openPosition' = [direction |-> d, entry |-> c.close + Sign(d) * Slippage,
                        at |-> Len(candles) + 1, levels |-> levels]
        /\ NoTrade
  BY DEF Enter
<1>2. d \in Said /\ d # "ruined"
  BY DEF Said, TradeSides
<1> DEFINE n == Len(candles)
<1>3. /\ Recorded(candles', answers', simulation' = "running", trades)
      /\ Len(candles') = n + 1 /\ n \in Nat /\ answers'[n + 1] = d
      /\ \A k \in 1..n : answers'[k] = answers[k] /\ simulation' = "running"
      /\ simulation = "running" /\ simulation' = "running"
  BY <1>1, <1>2, SeesGrows
<1>4. Covered(answers, n, trades) /\ Recorded(candles, answers, TRUE, trades)
  <2>1. Recorded(candles, answers, TRUE, trades)
    BY <1>3 DEF SimInv
  <2>2. ~Open(candles, answers, trades, openPosition)
    BY <1>1, OpenIsNotFlat
  <2>3. Covered(answers, n, trades)
    BY <2>2 DEF SimInv
  <2> QED
    BY <2>1, <2>3
<1>5. \A i \in 1..Len(trades) : trades[i].to < n + 1
  <2>1. \A i \in 1..Len(trades) : /\ trades[i].from \in 1..Len(candles)
                                  /\ trades[i].to \in trades[i].from..Len(candles)
    BY <1>4 DEF Recorded
  <2> QED
    BY <1>3, <2>1
<1>6. c.close + Sign(d) * Slippage \in Int
  <2>1. c.close \in Int /\ Sign(d) \in {1, -1}
    BY ClosePrice DEF Sign
  <2> QED
    BY <2>1, SimulatorAssumption
<1> DEFINE entered == c.close + Sign(d) * Slippage
<1>7. entered \in Int /\ openPosition' = [direction |-> d, entry |-> entered, at |-> n + 1, levels |-> levels]
  BY <1>1, <1>6
<1> HIDE DEF n, entered
<1>8. Covered(answers', n, trades)
  BY <1>3, <1>4, CoveredSame
<1>9. Open(candles', answers', trades, openPosition')
  <2> DEFINE p == openPosition'
  <2>1. p.direction = d /\ p.entry = entered /\ p.at = n + 1 /\ p.levels = levels
    BY <1>7
  <2>2. p = [direction |-> p.direction, entry |-> p.entry, at |-> p.at, levels |-> p.levels]
    BY <1>7
  <2> HIDE DEF p
  <2>3. p.at \in 1..Len(candles') /\ p.at - 1 = n /\ (p.at + 1)..Len(candles') = {}
    BY <1>3, <2>1
  <2>4. Open(candles', answers', trades, p)
    BY <1>3, <1>5, <1>7, <1>8, <2>1, <2>2, <2>3 DEF Open
  <2> QED
    BY <2>4 DEF p
<1>10. trades' = trades /\ Books(trades', equity', peakEquity', maxDrawdown')
  BY <1>1, NoTradeKeeps
<1> QED
  BY <1>3, <1>9, <1>10 DEF SimInv

LEMMA FinishKeeps ==
    ASSUME SimInv, Finish
    PROVE  SimInv'
<1>1. /\ simulation = "running" /\ candles # <<>> /\ simulation' \in {"done", "error"}
      /\ candles' = candles /\ answers' = answers
      /\ IF openPosition # Flat
         THEN CloseTrade(Last(candles).close, "end_of_data", Len(candles))
         ELSE NoTrade /\ UNCHANGED openPosition
  BY DEF Finish
<1>2. Recorded(candles, answers, FALSE, trades) /\ Recorded(candles, answers, TRUE, trades)
  BY <1>1, RecordEnds DEF SimInv
<1>3. CASE openPosition = Flat
  <2>1. Covered(answers, Len(candles), trades)
    BY <1>3, OpenIsNotFlat DEF SimInv
  <2>2. trades' = trades /\ openPosition' = Flat /\ Books(trades', equity', peakEquity', maxDrawdown')
    BY <1>1, <1>3, NoTradeKeeps
  <2>3. (simulation' = "running") = FALSE
    BY <1>1
  <2>4. Recorded(candles', answers', simulation' = "running", trades')
    BY <1>1, <1>2, <2>2, <2>3
  <2> QED
    BY <1>1, <2>1, <2>2, <2>4 DEF SimInv
<1>4. CASE openPosition # Flat
  <2> DEFINE why == "end_of_data"
             price == Last(candles).close
             n == Len(candles)
  <2>1. Open(candles, answers, trades, openPosition)
    BY <1>4 DEF SimInv
  <2>2. candles \in Seq(Candles) /\ n \in Nat /\ n > 0 /\ Last(candles) \in Candles
    <3>1. candles \in Seq(Candles)
      BY <1>2 DEF Recorded
    <3>2. n \in Nat /\ n > 0
      BY <1>1, <3>1
    <3>3. candles[n] \in Candles
      BY <3>1, <3>2, ElementOfSeq
    <3> QED
      BY <3>1, <3>2, <3>3 DEF Last
  <2>3. price \in Int
    BY <2>2, ClosePrice
  <2>4. why \in Reasons /\ CloseTrade(price, why, n)
    BY <1>1, <1>4 DEF Reasons
  <2> HIDE DEF price, n, why
  <2>5. /\ Books(trades', equity', peakEquity', maxDrawdown') /\ openPosition' = Flat
        /\ \E t \in Trades :
                /\ trades' = Append(trades, t)
                /\ t.direction = openPosition.direction /\ t.levels = openPosition.levels
                /\ t.from = openPosition.at /\ t.to = n /\ t.reason = why
    BY <1>4, <2>2, <2>3, <2>4, CloseKept
  <2>6. PICK t \in Trades :
                /\ trades' = Append(trades, t)
                /\ t.direction = openPosition.direction /\ t.levels = openPosition.levels
                /\ t.from = openPosition.at /\ t.to = n /\ t.reason = why
    BY <2>5
  <2>7. /\ openPosition.at \in 1..n /\ answers[openPosition.at] = openPosition.direction
        /\ \A k \in (openPosition.at + 1)..n : Passes(candles[k], answers[k], openPosition.direction, openPosition.levels)
        /\ \A i \in 1..Len(trades) : trades[i].to < openPosition.at
        /\ Covered(answers, openPosition.at - 1, trades)
    BY <2>1 DEF Open, n
  <2>8. LeftAtFirst(candles, answers, FALSE, t)
    <3>1. \A k \in (t.from + 1)..(t.to - 1) : k \in (openPosition.at + 1)..n
      BY <2>2, <2>6, <2>7
    <3>2. \A k \in (t.from + 1)..(t.to - 1) : Passes(candles[k], answers[k], t.direction, t.levels)
      BY <2>6, <2>7, <3>1
    <3> QED
      BY <2>6, <3>2 DEF LeftAtFirst, why, n
  <2>9. t.from \in 1..Len(candles) /\ t.to = Len(candles) /\ answers[t.from] = t.direction
    BY <2>6, <2>7 DEF n
  <2>10. (\A i \in 1..Len(trades) : trades[i].to < t.from) /\ Covered(answers, t.from - 1, trades)
    BY <2>6, <2>7
  <2>11. /\ Recorded(candles, answers, FALSE, Append(trades, t))
         /\ Covered(answers, Len(candles), Append(trades, t))
    BY <1>2, <2>8, <2>9, <2>10, PositionTraded
  <2>12. (simulation' = "running") = FALSE
    BY <1>1
  <2>13. Recorded(candles', answers', simulation' = "running", trades')
    BY <1>1, <2>6, <2>11, <2>12
  <2> QED
    BY <1>1, <2>5, <2>6, <2>11, <2>13 DEF SimInv
<1> QED
  BY <1>3, <1>4

-----------------------------------------------------------------------------
LEMMA SimStarts ==
    ASSUME SimInit
    PROVE  SimInv
<1> DEFINE none == <<>>
<1>1. /\ candles = none /\ answers = none /\ trades = none /\ openPosition = Flat
      /\ equity = InitialEquity /\ peakEquity = InitialEquity /\ maxDrawdown = <<0, 1>>
      /\ simulation = "running"
  BY DEF SimInit
<1>2. none \in Seq(Trades) /\ none \in Seq(Candles) /\ none \in Seq(Said) /\ Len(none) = 0
  OBVIOUS
<1> HIDE DEF none
<1>3. Recorded(none, none, TRUE, none) /\ Covered(none, 0, none)
  BY <1>2 DEF Recorded, Covered
<1>4. EquityOf(none, 0) = InitialEquity /\ InitialEquity \in Nat \ {0}
  BY <1>2, EquitySteps, SimulatorAssumption
<1>5. IsPeak(none, 0, InitialEquity)
  BY <1>4 DEF IsPeak
<1>6. ASSUME NEW q \in Int, IsPeak(none, 0, q) PROVE q = InitialEquity
  BY <1>4, <1>6 DEF IsPeak
<1>7. IsDeepest(none, <<0, 1>>)
  <2>1. 0..Len(none) = {0}
    BY <1>2
  <2>2. 0 * InitialEquity = (InitialEquity - EquityOf(none, 0)) * 1
    BY <1>4
  <2>3. ASSUME NEW q \in Int, IsPeak(none, 0, q)
        PROVE  (q - EquityOf(none, 0)) * 1 <= 0 * q
    BY <1>4, <1>6, <2>3
  <2> QED
    BY <1>4, <1>5, <2>1, <2>2, <2>3 DEF IsDeepest
<1>8. Books(none, InitialEquity, InitialEquity, <<0, 1>>)
  BY <1>2, <1>4, <1>5, <1>7 DEF Books
<1> QED
  BY <1>1, <1>2, <1>3, <1>8 DEF SimInv

LEMMA SimStepKeeps ==
    ASSUME SimInv, [SimNext]_simVars
    PROVE  SimInv'
<1>1. CASE UNCHANGED simVars
  BY <1>1 DEF SimInv, simVars
<1> QED
  BY <1>1, ExitAtLevelKeeps, HoldOrReverseKeeps, StayFlatKeeps, EnterKeeps,
     EnterRuinedKeeps, FinishKeeps DEF SimNext

(* The highest equity up to a trade, and the fall from it.                 *)
LEMMA FallIs ==
    ASSUME NEW n \in 0..Len(trades), trades \in Seq(Trades)
    PROVE  /\ IsPeak(trades, n, PeakAt(n)) /\ PeakAt(n) \in Int
           /\ DrawdownRatio(EquityUpTo(n), PeakAt(n))[1] = PeakAt(n) - EquityOf(trades, n)
           /\ DrawdownRatio(EquityUpTo(n), PeakAt(n))[2] = PeakAt(n)
<1>1. \A i : EquityUpTo(i) = EquityOf(trades, i)
  BY DEF EquityUpTo, EquityOf
<1>2. PICK p : IsPeak(trades, n, p)
  BY PeaksExist
<1> DEFINE Highest(e) == e \in {EquityUpTo(i) : i \in 0..n} /\ \A i \in 0..n : EquityUpTo(i) <= e
<1>3. Highest(p)
  BY <1>1, <1>2 DEF IsPeak
<1>4. PeakAt(n) = CHOOSE e : Highest(e)
  BY DEF PeakAt
<1>5. Highest(PeakAt(n))
  BY <1>3, <1>4
<1>6. IsPeak(trades, n, PeakAt(n))
  BY <1>1, <1>5 DEF IsPeak
<1>7. PeakAt(n) \in Int /\ PeakAt(n) >= InitialEquity
  BY <1>6, PeakIsOne
<1>8. ~(PeakAt(n) <= 0)
  BY <1>7, SimulatorAssumption
<1> QED
  BY <1>1, <1>6, <1>7, <1>8 DEF DrawdownRatio

LEMMA BooksReconcile ==
    ASSUME SimInv
    PROVE  EquityReconciles
<1> DEFINE Fall(n) == DrawdownRatio(EquityUpTo(n), PeakAt(n))
<1>1. /\ trades \in Seq(Trades) /\ equity = EquityOf(trades, Len(trades))
      /\ IsDeepest(trades, maxDrawdown) /\ maxDrawdown[1] \in Int /\ maxDrawdown[2] \in Nat
  BY DEF SimInv, Books
<1>2. \A n \in 0..Len(trades) :
         /\ IsPeak(trades, n, PeakAt(n)) /\ PeakAt(n) \in Int
         /\ Fall(n)[1] = PeakAt(n) - EquityOf(trades, n) /\ Fall(n)[2] = PeakAt(n)
  BY <1>1, FallIs
<1> HIDE DEF Fall
<1>3. equity = EquityUpTo(Len(trades))
  BY <1>1 DEF EquityUpTo, EquityOf
<1>4. PICK n \in 0..Len(trades), p \in Int :
         IsPeak(trades, n, p) /\ maxDrawdown[1] * p = (p - EquityOf(trades, n)) * maxDrawdown[2]
  BY <1>1 DEF IsDeepest
<1>5. PeakAt(n) = p
  BY <1>1, <1>2, <1>4, PeakIsOne
<1>6. maxDrawdown[1] * Fall(n)[2] = Fall(n)[1] * maxDrawdown[2]
  BY <1>2, <1>4, <1>5
<1>7. ASSUME NEW k \in 0..Len(trades)
      PROVE  Fall(k)[1] * maxDrawdown[2] <= maxDrawdown[1] * Fall(k)[2]
  <2>1. (PeakAt(k) - EquityOf(trades, k)) * maxDrawdown[2] <= maxDrawdown[1] * PeakAt(k)
    BY <1>1, <1>2 DEF IsDeepest
  <2> QED
    BY <1>2, <2>1
<1> QED
  BY <1>3, <1>6, <1>7 DEF EquityReconciles, Fall

LEMMA TradesReconcile ==
    ASSUME SimInv
    PROVE  (\A i \in DOMAIN trades : LeavesFirst(trades[i])) /\ EntriesAreTrades
<1> DEFINE on == simulation = "running"
<1>1. /\ Recorded(candles, answers, on, trades)
      /\ trades \in Seq(Trades) /\ DOMAIN trades = 1..Len(trades)
      /\ answers \in Seq(Said) /\ DOMAIN answers = 1..Len(candles) /\ Len(candles) \in Nat
  BY DEF SimInv, Recorded
<1>2. ASSUME NEW i \in 1..Len(trades) PROVE LeavesFirst(trades[i])
  <2> DEFINE t == trades[i]
  <2>1. LeftAtFirst(candles, answers, on, t)
    BY <1>1 DEF Recorded
  <2> HIDE DEF t
  <2>2. LeavesFirst(t)
    BY <2>1 DEF LeftAtFirst, LeavesFirst, Passes, Touched
  <2> QED
    BY <2>2 DEF t
<1>3. /\ \A i \in 1..Len(trades) : answers[trades[i].from] = trades[i].direction
      /\ \A i \in 2..Len(trades) : trades[i - 1].to < trades[i].from
  BY <1>1 DEF Recorded
<1>4. simulation # "running" => openPosition = Flat
  BY DEF SimInv
<1>5. ASSUME NEW k \in 1..Len(candles), answers[k] \in TradeSides
      PROVE  \/ \E i \in 1..Len(trades) : trades[i].from <= k /\ k <= trades[i].to
             \/ openPosition # Flat /\ openPosition.at <= k
  <2>1. CASE Covered(answers, Len(candles), trades)
    BY <1>5, <2>1 DEF Covered
  <2>2. CASE Open(candles, answers, trades, openPosition)
    <3>1. openPosition # Flat
      BY <2>2, OpenIsNotFlat
    <3>2. openPosition.at \in 1..Len(candles) /\ Covered(answers, openPosition.at - 1, trades)
      BY <2>2 DEF Open
    <3>3. openPosition.at <= k \/ k \in 1..(openPosition.at - 1)
      BY <1>1, <3>2
    <3> QED
      BY <1>5, <3>1, <3>2, <3>3 DEF Covered
  <2> QED
    BY <2>1, <2>2 DEF SimInv
<1> QED
  BY <1>1, <1>2, <1>3, <1>4, <1>5 DEF EntriesAreTrades

THEOREM SimulationStaysReconciled == SimSpec => []SimulationReconciles
<1>1. SimInit => SimInv
  BY SimStarts
<1>2. SimInv /\ [SimNext]_simVars => SimInv'
  BY SimStepKeeps
<1>3. SimInv => SimulationReconciles
  BY BooksReconcile, TradesReconcile DEF SimulationReconciles
<1> QED
  BY <1>1, <1>2, <1>3, PTL DEF SimSpec
=============================================================================
