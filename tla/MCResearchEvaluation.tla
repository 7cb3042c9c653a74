-------------------------- MODULE MCResearchEvaluation --------------------------
(***************************************************************************)
(* How candidates are found and judged: the search simulators, the         *)
(* backtest of one strategy, the walk-forward evaluation of what a search  *)
(* tested, the experiments that publish a result, and the files a runtime  *)
(* is composed from.  They share no state, so a behaviour is one of them   *)
(* while the others are still, at one of their initial states; which one,  *)
(* stage says.                                                             *)
(***************************************************************************)
EXTENDS SearchSimulators, BacktestSimulator, WalkForward, Experiment, RegimeArtifacts, TLC

CONSTANTS c1, c2

VARIABLE stage

simulatorVars == <<searchVars, simVars>>
resultVars == <<vars, artifactVars>>
evaluationVars == <<stage, simulatorVars, walkVars, resultVars>>

EvaluationInit ==
    /\ stage \in {"search", "simulation", "walk", "experiment", "artifacts"}
    /\ SearchInit /\ SimInit /\ WalkInit /\ Init /\ ArtifactsInit
    /\ stage # "search" => candidate = CHOOSE c \in ExitCandidates : TRUE
    /\ stage # "walk" => options = CHOOSE o \in EvaluationOptions : TRUE

EvaluationNext ==
    /\ \/ stage = "search" /\ SearchNext /\ UNCHANGED <<simVars, walkVars, resultVars>>
       \/ stage = "simulation" /\ SimNext /\ UNCHANGED <<searchVars, walkVars, resultVars>>
       \/ stage = "walk" /\ WalkNext /\ UNCHANGED <<simulatorVars, resultVars>>
       \/ /\ stage = "experiment" /\ Next
          /\ UNCHANGED <<simulatorVars, walkVars, artifactVars>>
       \/ /\ stage = "artifacts" /\ ArtifactsNext
          /\ UNCHANGED <<simulatorVars, walkVars, vars>>
    /\ UNCHANGED stage

EvaluationSpec == EvaluationInit /\ [][EvaluationNext]_evaluationVars

(* A search reports the trades that the candles and the exit model allow,  *)
(* and what a walk-forward evaluation selects and reports of such results  *)
(* is out of sample and the same in both reports.                          *)
SearchesAreSound == SearchesReconcile /\ EvaluationIsSound

-----------------------------------------------------------------------------
(* Two versions of the code, two days per phase, four output files; nine   *)
(* exit candidates over four kinds of candle; three months of a search     *)
(* over two candidates and a row of another run; two writers of model and  *)
(* mapping and what they may have frozen, and runtimes of other settings.  *)

(* Versions of the code, which are compared for equality only, and writers *)
(* of the two files are interchangeable.  Only one stage moves, so they    *)
(* may have the same names.                                                *)
Interchangeable == Permutations(Codes)

SearchBar(low, close, high, atr, range, volume) ==
    [low |-> low, close |-> close, high |-> high, atr |-> atr, range |-> range, volume |-> volume]
FewBars ==
    {SearchBar(100, 100, 100, 1, 5, 100), SearchBar(96, 99, 104, 3, 5, 50),
     SearchBar(100, 103, 104, 2, 2, 100), SearchBar(97, 98, 101, 1, 2, 100)}

Exit(kind, slip) ==
    [kind |-> kind, slip |-> slip, take |-> 3, stop |-> 2, maxStop |-> 2, hold |-> 2, trail |-> 1,
     partial |-> 1, takeMultiple |-> 2, stopMultiple |-> 1, minTake |-> 2, maxTake |-> 4,
     minStop |-> 2, minAtr |-> 0, minRange |-> 0, minVolume |-> 0]
FewCandidates ==
    {Exit("fixed", 0), Exit("fixed", 1),
     [Exit("fixed", 1) EXCEPT !.minAtr = 2, !.minVolume = 60],
     Exit("time", 1), [Exit("atr", 1) EXCEPT !.maxStop = 3],
     Exit("trailing", 0), Exit("trailing", 1), Exit("partial_trailing", 1),
     [Exit("partial_trailing", 0) EXCEPT !.partial = 3, !.minRange = 3]}

Result(return, count, expectancy, drawdown, win) ==
    [return |-> return, trades |-> count, expectancy |-> expectancy, drawdown |-> drawdown,
     win |-> win]
ResultsOfMonths ==
    <<{Result(2, 5, 1, 1, 60), Result(-1, 6, -1, 2, 40), Result(0, 0, 0, 0, 0)},
      {Result(1, 6, 1, 0, 70), Result(-10, 20, 1, 9, 60)}>>
OtherRunsResult == Result(2, 5, 1, 1, 60)

Option(train, topK, minTrades, start, end) ==
    [train |-> train, topK |-> topK, minTrades |-> minTrades, start |-> start, end |-> end]
FewOptions == {Option(1, 1, 6, 0, 0), Option(2, 2, 10, 3, 4), Option(1, 2, 5, 2, 5)}
Centroids(distances, training) ==
    [type |-> "kmeans", symbol |-> "BTCUSDT", schema |-> 1, means |-> <<1, 2>>,
     weights |-> <<1, 1>>, distances |-> distances, training |-> training]
Mixture == [Centroids(<<>>, 1) EXCEPT !.type = "gmm"]
Definitions == [s1 |-> 1, s2 |-> 1]

FrozenAs(model, provenance, decisions) ==
    [model |-> model, mapping |-> ComposedMapping(model, Definitions, provenance, decisions)]
FrozenResults ==
    {CashOutcome,
     FrozenAs(Centroids(<<1, 1>>, 1), 1, <<"s1", "cash">>),
     FrozenAs(Centroids(<<1, 1>>, 1), 1, <<"s2", "cash">>),
     FrozenAs(Centroids(<<1, 2>>, 1), 1, <<"s1", "cash">>),
     FrozenAs(Centroids(<<1, 1>>, 2), 1, <<"s1", "s2">>),
     FrozenAs(Mixture, 2, <<"cash", "s2">>)}

Setting(provenance, definition, modelFile, mappingFile) ==
    [symbol |-> "BTCUSDT", schema |-> 1, provenance |-> provenance, definition |-> definition,
     universe |-> DOMAIN definition, modelPath |-> modelFile,
     mappingPath |-> mappingFile]
FewSettings ==
    {Setting(1, Definitions, "model", "mapping"),
     Setting(2, Definitions, "model", "mapping"),
     Setting(1, [Definitions EXCEPT !.s2 = 2], "model", "mapping"),
     Setting(1, Definitions, "mapping", "model"),
     [Setting(1, Definitions, "model", "mapping") EXCEPT !.symbol = "ETHUSDT"]}
=============================================================================
