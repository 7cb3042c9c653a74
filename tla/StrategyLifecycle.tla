-------------------------- MODULE StrategyLifecycle --------------------------
(***************************************************************************)
(* The strategy lifecycle: backtest cycles that evaluate the strategies of *)
(* the catalog, runs that promote an evaluation, and the SQLite repository *)
(* they share.                                                             *)
(*                                                                         *)
(* Every repository call is a connection and a transaction of its own, so  *)
(* calls of different actors (the scheduler, an API request, a script)     *)
(* interleave.  Definitions are upserted; an evaluation is inserted, and   *)
(* one whose id is there raises.  Evaluations are listed by the second     *)
(* they were registered in, and by id within a second.                     *)
(*                                                                         *)
(* Strategies are numbered in the order of the catalog.  The metrics of an *)
(* evaluation are one score, the metadata only the source_evaluation_id.   *)
(* Ids are numbers in the order of the strings they stand for.             *)
(***************************************************************************)
EXTENDS Naturals, FiniteSets

CONSTANTS
    Actors,
    Strategies,      \* bound: how many
    CycleIds,        \* bound: how many cycle ids are in use
    PromotedIds,     \* bound: how many ids callers give to promotions
    MaxSecond        \* bound: how far the clock goes

ASSUME LifecycleAssumption ==
    /\ Strategies \in Nat \ {0} /\ CycleIds \in Nat /\ PromotedIds \in Nat /\ MaxSecond \in Nat

Scores == {0, 1}
Threshold == 1
Statuses == {"BACKTESTED", "PROMOTED"}
Policies == (SUBSET Statuses) \ {{}}    \* allowed_statuses

EvaluationId(cycle, strategy) == cycle * Strategies + strategy
PromotedId(n) == EvaluationId(CycleIds, Strategies) + n

NoEvaluation == [id |-> 0]
Nothing == 0

VARIABLES
    definitions,     \* strategies with a definition
    evaluations,     \* the rows of strategy_evaluations
    second,          \* the clock of reg_dt
    at,              \* where an actor is
    cycle,           \* the cycle it runs
    todo,            \* specs of the cycle still to do
    items,           \* the items of the cycle it runs
    held,            \* the evaluation it has built, or is to promote
    wish             \* the lifecycle command: target, id, policy and promoted id

tables == <<definitions, evaluations, second>>
actorVars == <<at, cycle, todo, items, held, wish>>
lifeVars == <<tables, actorVars>>

NoWish == [target |-> 0, evaluation |-> 0, policy |-> {}, promoted |-> 0]

LifeInit ==
    /\ definitions = {}
    /\ evaluations = {}
    /\ second = 0
    /\ at = [a \in Actors |-> "idle"]
    /\ cycle = [a \in Actors |-> Nothing]
    /\ todo = [a \in Actors |-> {}]
    /\ items = [a \in Actors |-> {}]
    /\ held = [a \in Actors |-> NoEvaluation]
    /\ wish = [a \in Actors |-> NoWish]

-----------------------------------------------------------------------------
Goes(a, step) == at' = [at EXCEPT ![a] = step]

(* A run returns or raises; the next one starts from nothing. *)
EndsRun(a) ==
    /\ Goes(a, "idle")
    /\ cycle' = [cycle EXCEPT ![a] = Nothing]
    /\ todo' = [todo EXCEPT ![a] = {}]
    /\ items' = [items EXCEPT ![a] = {}]
    /\ held' = [held EXCEPT ![a] = NoEvaluation]
    /\ wish' = [wish EXCEPT ![a] = NoWish]

GoesOn(a, step) == Goes(a, step) /\ UNCHANGED <<cycle, wish>>

(* Variant: the row of the id is replaced. *)
UpsertEvaluation(row) ==
    evaluations' = {e \in evaluations : e.id # row.id} \union {[row EXCEPT !.reg_dt = second]}

(* save_strategy_evaluation, when it does not raise. *)
SaveEvaluation(row) ==
    /\ \A e \in evaluations : e.id # row.id
    /\ evaluations' = evaluations \union {[row EXCEPT !.reg_dt = second]}

(* save_strategy_evaluation raises an IntegrityError. *)
Conflicts(row) == \E e \in evaluations : e.id = row.id

(* RegisterStrategyUseCase, for a strategy definition. *)
Register ==
    /\ \E s \in 1..Strategies : definitions' = definitions \union {s}
    /\ UNCHANGED <<evaluations, second, actorVars>>

-----------------------------------------------------------------------------
(* RunStrategyBacktestCycleUseCase *)

(* The specs that the enabled and disabled ids of the command leave. *)
StartCycle(a) ==
    \E c \in 1..CycleIds, specs \in SUBSET (1..Strategies) :
        /\ at[a] = "idle"
        /\ cycle' = [cycle EXCEPT ![a] = c]
        /\ todo' = [todo EXCEPT ![a] = specs]
        /\ Goes(a, "next")
        /\ UNCHANGED <<tables, items, held, wish>>

Spec1(a) == CHOOSE s \in todo[a] : \A t \in todo[a] : s <= t

Item(a, ok) == [strategy |-> Spec1(a), succeeded |-> ok]

(* The cycle goes on with the next spec. *)
Done(a, ok) ==
    /\ items' = [items EXCEPT ![a] = @ \union {Item(a, ok)}]
    /\ todo' = [todo EXCEPT ![a] = @ \ {Spec1(a)}]
    /\ held' = [held EXCEPT ![a] = NoEvaluation]
    /\ GoesOn(a, "next")

(* save_strategy_definition of the next spec, or the cycle returns. *)
DefineNext(a) ==
    /\ at[a] = "next"
    /\ \/ todo[a] = {} /\ EndsRun(a) /\ UNCHANGED definitions
       \/ /\ todo[a] # {}
          /\ definitions' = definitions \union {Spec1(a)}
          /\ GoesOn(a, "evaluate")
          /\ UNCHANGED <<todo, items, held>>
    /\ UNCHANGED <<evaluations, second>>

(* _run_one: an evaluation, or an exception that becomes a failed item. *)
RunOne(a) ==
    /\ at[a] = "evaluate"
    /\ \/ /\ \E score \in Scores :
               held' = [held EXCEPT ![a] =
                          [id |-> EvaluationId(cycle[a], Spec1(a)), target |-> Spec1(a),
                           status |-> "BACKTESTED", score |-> score, source |-> Nothing,
                           policy |-> {}, reg_dt |-> 0]]
          /\ GoesOn(a, "save")
          /\ UNCHANGED <<todo, items>>
       \/ Done(a, FALSE)
    /\ UNCHANGED tables

(* The save is outside the try block: a conflict ends the cycle. *)
SaveResult(a) ==
    /\ at[a] = "save"
    /\ \/ SaveEvaluation(held[a]) /\ Done(a, TRUE)
       \/ Conflicts(held[a]) /\ EndsRun(a) /\ UNCHANGED evaluations
    /\ UNCHANGED <<definitions, second>>

-----------------------------------------------------------------------------
(* RunStrategyLifecycleUseCase and PromoteStrategyUseCase *)

(* PromotionPolicy.can_promote *)
CanPromote(policy, e) == e.status \in policy /\ e.score >= Threshold

Rows(target) == {e \in evaluations : e.target = target}
Before(e, f) == e.reg_dt < f.reg_dt \/ (e.reg_dt = f.reg_dt /\ e.id < f.id)

(* With an evaluation_id the run promotes that one, else the latest. *)
StartLifecycle(a) ==
    \E s \in 1..Strategies, n \in 1..PromotedIds, policy \in Policies,
       id \in {Nothing} \union {e.id : e \in evaluations} :
        /\ at[a] = "idle"
        /\ wish' = [wish EXCEPT ![a] = [target |-> s, evaluation |-> id, policy |-> policy,
                                        promoted |-> PromotedId(n)]]
        /\ Goes(a, IF id = Nothing THEN "latest" ELSE "find")
        /\ UNCHANGED <<tables, cycle, todo, items, held>>

(* _latest_promotable_evaluation_id *)
FindLatest(a) ==
    LET promotable == {e \in Rows(wish[a].target) : CanPromote(wish[a].policy, e)} IN
    /\ at[a] = "latest"
    /\ \/ promotable = {} /\ EndsRun(a)
       \/ /\ \E e \in promotable :
               /\ \A f \in promotable \ {e} : Before(f, e)
               /\ wish' = [wish EXCEPT ![a].evaluation = e.id]
          /\ Goes(a, "find")
          /\ UNCHANGED <<cycle, todo, items, held>>
    /\ UNCHANGED tables

(* _find_evaluation, from a list of its own, and the policy once more. *)
FindEvaluation(a) ==
    LET found == {e \in Rows(wish[a].target) :
                     e.id = wish[a].evaluation /\ CanPromote(wish[a].policy, e)} IN
    /\ at[a] = "find"
    /\ \/ found = {} /\ EndsRun(a)
       \/ /\ \E e \in found :
               held' = [held EXCEPT ![a] =
                          [id |-> wish[a].promoted, target |-> e.target,
                           status |-> "PROMOTED", score |-> e.score, source |-> e.id,
                           policy |-> wish[a].policy, reg_dt |-> 0]]
          /\ GoesOn(a, "promote")
          /\ UNCHANGED <<todo, items>>
    /\ UNCHANGED tables

Promote(a) ==
    /\ at[a] = "promote"
    /\ \/ SaveEvaluation(held[a])
       \/ Conflicts(held[a]) /\ UNCHANGED evaluations
    /\ EndsRun(a)
    /\ UNCHANGED <<definitions, second>>

-----------------------------------------------------------------------------
SecondPasses ==
    /\ second < MaxSecond
    /\ second' = second + 1
    /\ UNCHANGED <<definitions, evaluations, actorVars>>

LifeNext ==
    \/ \E a \in Actors :
         \/ StartCycle(a) \/ DefineNext(a) \/ RunOne(a) \/ SaveResult(a)
         \/ StartLifecycle(a) \/ FindLatest(a) \/ FindEvaluation(a) \/ Promote(a)
    \/ Register \/ SecondPasses

LifeSpec == LifeInit /\ [][LifeNext]_lifeVars

-----------------------------------------------------------------------------
PromotionsAreEarned ==
    \A e \in evaluations : e.status = "PROMOTED" =>
        \E s \in evaluations :
            /\ s.id = e.source /\ s.target = e.target /\ s.score = e.score
            /\ CanPromote(e.policy, s)
            /\ s.reg_dt <= e.reg_dt

CyclesAccountForAll ==
    \A a \in Actors : \A i \in items[a] :
        i.succeeded => \E e \in evaluations : /\ e.id = EvaluationId(cycle[a], i.strategy)
                                             /\ e.target = i.strategy

EvaluatedIsDefined == \A e \in evaluations : e.target \in definitions

OneRowPerId == \A e, f \in evaluations : e.id = f.id => e = f

(* A promotion points to the evaluation that earned it: the row of its       *)
(* source is there, with the same target and the same metrics, and it meets  *)
(* the policy of the run that promoted it, whatever other cycles and runs    *)
(* wrote between the run's two reads and its insert, also under the same     *)
(* ids.  A cycle has stored an evaluation for every item that it reports as  *)
(* a success, and nothing is evaluated without a definition.                 *)
LifecycleIsSound ==
    /\ PromotionsAreEarned
    /\ CyclesAccountForAll
    /\ EvaluatedIsDefined
    /\ OneRowPerId
=============================================================================
