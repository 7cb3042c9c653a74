-------------------------- MODULE MCOperations --------------------------
(***************************************************************************)
(* The operations around the trading loop: keeping the copies of a         *)
(* position, running the strategy lifecycle, and the strategies            *)
(* themselves: the routed scalpers, the strategies over one-minute candles *)
(* and market features, the strategies that keep rolling windows, and the  *)
(* session volume profile.  They share no state, so a behaviour is one of  *)
(* them while the others are still, at one of their initial states; which  *)
(* one, part says.                                                         *)
(***************************************************************************)
EXTENDS PositionKeeping, StrategyLifecycle, ScalperRouter, RollingStrategies,
        VolumeProfile, MicrostructureRouter, TLC

CONSTANTS k1, k2

VARIABLE part

tradingVars == <<keepingVars, lifeVars>>
strategyVars == <<routerVars, rollingVars, session, microVars>>
operationVars == <<part, tradingVars, strategyVars>>

OperationInit ==
    /\ part \in {"positions", "lifecycle", "router", "rolling", "volume", "micro"}
    /\ KeepingInit /\ LifeInit /\ RouterInit /\ RollingInit /\ VolumeInit /\ MicroInit
    /\ part # "router" => router = CHOOSE r \in Routers : TRUE
    /\ part # "rolling" => strategy = "breakout"
    /\ part # "micro" => /\ wiring = CHOOSE w \in Wirings : TRUE
                         /\ reading = CHOOSE r \in Readings : TRUE

OperationNext ==
    /\ \/ part = "positions" /\ KeepingNext /\ UNCHANGED <<lifeVars, strategyVars>>
       \/ part = "lifecycle" /\ LifeNext /\ UNCHANGED <<keepingVars, strategyVars>>
       \/ /\ part = "router" /\ RouterNext
          /\ UNCHANGED <<tradingVars, rollingVars, session, microVars>>
       \/ /\ part = "rolling" /\ RollingNext
          /\ UNCHANGED <<tradingVars, routerVars, session, microVars>>
       \/ /\ part = "volume" /\ VolumeNext
          /\ UNCHANGED <<tradingVars, routerVars, rollingVars, microVars>>
       \/ /\ part = "micro" /\ MicroNext
          /\ UNCHANGED <<tradingVars, routerVars, rollingVars, session>>
    /\ UNCHANGED part

OperationSpec == OperationInit /\ [][OperationNext]_operationVars

(* However a strategy is written, it decides as it is meant to: the        *)
(* scalpers as their routers do that were written again for the searches   *)
(* and the scheduler, those over bars of higher timeframes as the minutes  *)
(* themselves say, a router as one without the children that miss a        *)
(* feature, and the one over the volume of the session by a value area     *)
(* that is the one of its definition.                                      *)
StrategiesAgree == RoutersAgree /\ MicroRoutesAgree /\ ProfileIsSound

-----------------------------------------------------------------------------
(* Keepers of copies and actors of the lifecycle are interchangeable, and, *)
(* as only one part moves, may have the same names.  The candles, routers  *)
(* and parameters of the strategies are few and chosen so that every       *)
(* signal of every strategy occurs.                                        *)

Interchangeable == Permutations(Keepers)

Bar(open, high, low, close, volume) ==
    [open |-> open, high |-> high, low |-> low, close |-> close, volume |-> volume]

RoutedBars ==
    {Bar(10, 10, 10, 10, 1), Bar(9, 13, 9, 12, 3), Bar(11, 14, 7, 8, 3),
     Bar(8, 10, 8, 9, 1), Bar(12, 13, 11, 11, 2), Bar(10, 11, 7, 10, 3)}

RouterOf(order, mode) ==
    [order |-> order, maxTrend |-> 10, rangeRegime |-> 3, trendRegime |-> 2,
     trend |-> [trend |-> 3, pullback |-> 2, trigger |-> 1, minTrend |-> 5, minPullback |-> 5,
                minTrigger |-> 5, minRange |-> 1],
     burst |-> [breakout |-> 2, impulse |-> 1, volume |-> 3, minImpulse |-> 5, minVolume |-> 100,
                buffer |-> 0, mode |-> mode],
     range |-> [range |-> 2, edge |-> 30, minBody |-> 20, minRange |-> 2],
     impulse |-> [impulse |-> 1, pullback |-> 1, trigger |-> 1, minImpulse |-> 5,
                  minPullback |-> 5, minResume |-> 5],
     retest |-> [breakout |-> 2, retest |-> 2, buffer |-> 1, tolerance |-> 10, minReclaim |-> 5],
     expansion |-> [range |-> 2, volume |-> 2, minExpansion |-> 110, minVolume |-> 110, minBody |-> 20],
     sweep |-> [lookback |-> 2, volume |-> 2, sweep |-> 1, reclaim |-> 1, minWick |-> 20,
                minVolume |-> 100],
     dryup |-> [range |-> 2, dryup |-> 1, volume |-> 2, maxDryup |-> 100, minVolume |-> 110,
                buffer |-> 1, minBody |-> 20],
     push |-> [trend |-> 2, push |-> 3, volume |-> 2, minTrend |-> 5, minExtremes |-> 1,
               minWick |-> 10, minVolume |-> 100]]

FewRouters ==
    {RouterOf(<<"trend", "burst", "range">>, "fade"),
     RouterOf(<<"range", "burst", "trend">>, "follow"),
     RouterOf(<<"burst", "trend", "range">>, "fade"),
     RouterOf(<<"breakout_retest", "impulse_pullback", "volume_dryup_breakout">>, "fade"),
     RouterOf(<<"three_push_exhaustion", "liquidity_sweep", "volatility_expansion">>, "fade")}

RollingBars == {Bar(100, 102, 98, 100, 2), Bar(100, 107, 99, 106, 1), Bar(104, 104, 93, 94, 4)}
BreakoutParameters ==
    [lookback |-> 2, compression |-> 1, ratio |-> 60, buffer |-> 1, minVolume |-> 80,
     filter |-> 1, minFilter |-> 1]
EdgeParameters == [range |-> 2, lower |-> 50, upper |-> 50, minWidth |-> 2, reclaim |-> 1]

MinuteCandles == {Bar(10, 11, 9, 10, 1), Bar(10, 13, 6, 12, 1), Bar(10, 14, 7, 8, 1)}
From(source, number) == [value |-> number, source |-> source]
Flow(imbalance, cvd, intensity) ==
    [imbalance |-> From("klines", imbalance), cvd |-> From("aggTrades", cvd),
     intensity |-> From("aggTrades", intensity)]
Metrics(interest, taker, top, global, change) ==
    [interest |-> From("metrics", interest), taker |-> From("metrics", taker),
     top |-> From("metrics", top), global |-> From("metrics", global),
     change |-> From("metrics", change)]
FewReadings ==
    {Flow(30, 5, 200) @@ [premium |-> From("premiumIndexKlines", -10)]
        @@ Metrics(5, 120, 80, 80, -9),
     Flow(-30, -5, 200) @@ [mark |-> From("markPriceKlines", 110), index |-> From("indexPriceKlines", 100)]
        @@ Metrics(5, 80, 130, 130, 9),
     [Flow(30, 5, 200) EXCEPT !.imbalance = From("metrics", 30)] @@ Metrics(-5, 120, 80, 120, 0),
     Metrics(-5, 80, 130, 130, 0)}
WiringOf(children) ==
    [children |-> children, regime |-> 2, trending |-> 30, volatile |-> 35,
     short |-> 2, long |-> 3, trendBars |-> 2, momentumBars |-> 2, pullback |-> 2,
     minTrend |-> 10, minMomentum |-> 0, minPullback |-> 5, minReclaim |-> 5,
     range |-> 2, buffer |-> 0, imbalance |-> 20, cvd |-> 1, intensity |-> 100,
     extreme |-> 2, minWick |-> 35, lookback |-> 2, minReturn |-> 10, minChange |-> 2, edge |-> 10,
     crowdedShort |-> 85, crowdedLong |-> 125, shock |-> "both", minPremium |-> 8, minBasis |-> 5,
     sessions |-> {2, 9}, opening |-> 2]
FewWirings ==
    {WiringOf(<<"mtf", "session", "breakout", "exhaustion", "premium">>),
     WiringOf(<<"impulse", "divergence", "crowding", "shock">>)}

ProfileBars ==
    {Bar(12, 19, 10, 15, 6), Bar(22, 29, 20, 28, 12), Bar(21, 24, 5, 23, 6), Bar(20, 33, 18, 32, 18),
     Bar(38, 39, 30, 31, 6), Bar(10, 12, 0, 1, 12), Bar(11, 21, 10, 12, 0)}
=============================================================================
