---------------------------- MODULE ScalperRouter ----------------------------
(***************************************************************************)
(* The regime router scalper, which exists three times: the strategy the   *)
(* runtime and the scheduler backtests use (RegimeRouterScalperStrategy),  *)
(* the class of the combo search (RegimeRouterScalper) and the index-based *)
(* evaluation its simulators run (_evaluate_scalping_direction over        *)
(* _precomputed).  A market grows candle by candle; every version decides  *)
(* on it.                                                                  *)
(*                                                                         *)
(* Prices and volumes are positive integers, thresholds are percentages,   *)
(* and a quotient is compared by cross-multiplication.  The three scalpers *)
(* both classes contain are the same text, and one definition here.        *)
(***************************************************************************)
EXTENDS CandleWindows

CONSTANTS
    Bars,           \* candles the market may produce
    Routers,        \* parameters of routers: router_order and those below
    Warmup,         \* index of the first candle a fast simulator looks at
    MaxRouted       \* bound: candles of a market

VARIABLES
    routed,         \* the market so far
    router          \* the parameters in use

routerVars == <<routed, router>>

RouterInit == routed = <<>> /\ router \in Routers

CandleCloses ==
    /\ Len(routed) < MaxRouted
    /\ \E bar \in Bars : routed' = Append(routed, bar)
    /\ UNCHANGED router

RouterNext == CandleCloses

-----------------------------------------------------------------------------
(* The scalpers of both classes *)

TrendPullback(p, market) ==
    LET latest == Last(market)
        window == Prior(market, p.pullback)
        moving == AtLeast(High(window) - Low(window), Low(window), p.minRange)
    IN  IF Len(market) < Max({p.trend, p.pullback, p.trigger}) + 2 THEN "wait"
        ELSE Decide(
            /\ moving /\ Rises(latest, Back(market, p.trend), p.minTrend)
            /\ AtLeast(High(window) - latest.close, latest.close, p.minPullback)
            /\ Rises(latest, Back(market, p.trigger), p.minTrigger),
            /\ moving /\ Falls(latest, Back(market, p.trend), p.minTrend)
            /\ AtLeast(latest.close - Low(window), latest.close, p.minPullback)
            /\ Falls(latest, Back(market, p.trigger), p.minTrigger))

Faded(direction) == CASE direction = "long" -> "short" [] direction = "short" -> "long"
                         [] OTHER -> "wait"

MomentumBurst(p, market) ==
    LET latest == Last(market)
        window == Prior(market, p.breakout)
        loud == VolumeAtLeast(latest, Prior(market, p.volume), p.minVolume)
        follow == Decide(
            /\ Rises(latest, Back(market, p.impulse), p.minImpulse) /\ loud
            /\ latest.close * 100 > High(window) * (100 + p.buffer),
            /\ Falls(latest, Back(market, p.impulse), p.minImpulse) /\ loud
            /\ latest.close * 100 < Low(window) * (100 - p.buffer))
    IN  IF Len(market) < Max({p.breakout, p.impulse, p.volume}) + 2 THEN "wait"
        ELSE IF p.mode = "fade" THEN Faded(follow) ELSE follow

RangeEdgeReversion(p, market) ==
    LET latest == Last(market)
        window == Prior(market, p.range)
        width == High(window) - Low(window)
        place == latest.close - Low(window)
        turned == /\ AtLeast(width, Low(window), p.minRange) /\ Span(latest) > 0
                  /\ BodyAtLeast(latest, p.minBody)
    IN  IF Len(market) < p.range + 2 THEN "wait"
        ELSE Decide(turned /\ AtMost(place, width, p.edge) /\ Body(latest) > 0,
                    turned /\ AtLeast(place, width, 100 - p.edge) /\ Body(latest) < 0)

-----------------------------------------------------------------------------
(* The scalpers only the runtime's router has *)

ImpulsePullback(p, market) ==
    LET latest == Last(market)
        impulse == Back(market, p.pullback + p.trigger)
        base == Back(market, p.pullback + p.trigger + p.impulse)
        window == SubSeq(market, Len(market) - p.pullback - p.trigger + 1,
                         Len(market) - p.trigger)
    IN  IF Len(market) < p.impulse + p.pullback + p.trigger + 2 THEN "wait"
        ELSE Decide(
            /\ Rises(impulse, base, p.minImpulse)
            /\ AtLeast(impulse.close - Low(window), impulse.close, p.minPullback)
            /\ Rises(latest, Back(market, p.trigger), p.minResume),
            /\ Falls(impulse, base, p.minImpulse)
            /\ AtLeast(High(window) - impulse.close, impulse.close, p.minPullback)
            /\ Falls(latest, Back(market, p.trigger), p.minResume))

BreakoutRetest(p, market) ==
    LET latest == Last(market)
        breakout == Back(market, p.retest)
        base == SubSeq(market, Len(market) - p.breakout - p.retest,
                       Len(market) - p.retest - 1)
        retest == SubSeq(market, Len(market) - p.retest + 1, Len(market) - 1)
    IN  IF Len(market) < p.breakout + p.retest + 1 THEN "wait"
        ELSE Decide(
            /\ breakout.close * 100 > High(base) * (100 + p.buffer)
            /\ Low(retest) * 100 <= High(base) * (100 + p.tolerance)
            /\ latest.close > High(base)
            /\ Rises(latest, Back(market, 1), p.minReclaim),
            /\ breakout.close * 100 < Low(base) * (100 - p.buffer)
            /\ High(retest) * 100 >= Low(base) * (100 - p.tolerance)
            /\ latest.close < Low(base)
            /\ Falls(latest, Back(market, 1), p.minReclaim))

VolatilityExpansion(p, market) ==
    LET latest == Last(market)
        ranges == RangesOf(Prior(market, p.range))
        expanded == /\ ranges > 0 /\ Span(latest) > 0
                    /\ AtLeast(Span(latest) * p.range, ranges, p.minExpansion)
                    /\ VolumeAtLeast(latest, Prior(market, p.volume), p.minVolume)
                    /\ BodyAtLeast(latest, p.minBody)
    IN  IF Len(market) < Max({p.range, p.volume}) + 2 THEN "wait"
        ELSE Decide(expanded /\ Body(latest) > 0, expanded /\ Body(latest) < 0)

LiquiditySweep(p, market) ==
    LET latest == Last(market)
        window == Prior(market, p.lookback)
        loud == Span(latest) > 0 /\ VolumeAtLeast(latest, Prior(market, p.volume), p.minVolume)
    IN  IF Len(market) < Max({p.lookback, p.volume}) + 2 THEN "wait"
        ELSE Decide(
            /\ loud /\ latest.low * 100 < Low(window) * (100 - p.sweep)
            /\ latest.close * 100 > Low(window) * (100 + p.reclaim)
            /\ AtLeast(LowerWick(latest), Span(latest), p.minWick),
            /\ loud /\ latest.high * 100 > High(window) * (100 + p.sweep)
            /\ latest.close * 100 < High(window) * (100 - p.reclaim)
            /\ AtLeast(UpperWick(latest), Span(latest), p.minWick))

VolumeDryUp(p, market) ==
    LET latest == Last(market)
        window == Prior(market, p.range)
        before == SubSeq(market, Len(market) - p.volume - p.dryup, Len(market) - p.dryup - 1)
        dry == Prior(market, p.dryup)
        broke == /\ VolumeOf(before) > 0
                 /\ AtMost(VolumeOf(dry) * p.volume, VolumeOf(before) * p.dryup, p.maxDryup)
                 /\ Span(latest) > 0 /\ BodyAtLeast(latest, p.minBody)
                 /\ VolumeAtLeast(latest, before, p.minVolume)
    IN  IF Len(market) < Max({p.range, p.volume}) + p.dryup + 2 THEN "wait"
        ELSE Decide(
            broke /\ latest.close * 100 > High(window) * (100 + p.buffer) /\ Body(latest) > 0,
            broke /\ latest.close * 100 < Low(window) * (100 - p.buffer) /\ Body(latest) < 0)

(* _new_extreme_count *)
NewHighs(window) ==
    {i \in 2..Len(window) : \A j \in 1..(i - 1) : window[i].high > window[j].high}
NewLows(window) ==
    {i \in 2..Len(window) : \A j \in 1..(i - 1) : window[i].low < window[j].low}

ThreePushExhaustion(p, market) ==
    LET latest == Last(market)
        recent == Prior(market, p.push)
        loud == Span(latest) > 0 /\ VolumeAtLeast(latest, Prior(market, p.volume), p.minVolume)
        short == /\ loud /\ Rises(latest, Back(market, p.trend), p.minTrend)
                 /\ Cardinality(NewHighs(recent)) >= p.minExtremes
                 /\ AtLeast(UpperWick(latest), Span(latest), p.minWick)
        long == /\ loud /\ Falls(latest, Back(market, p.trend), p.minTrend)
                /\ Cardinality(NewLows(recent)) >= p.minExtremes
                /\ AtLeast(LowerWick(latest), Span(latest), p.minWick)
    IN  IF Len(market) < Max({p.trend, p.push, p.volume}) + 2 THEN "wait"
        ELSE IF short THEN "short" ELSE IF long THEN "long" ELSE "wait"

-----------------------------------------------------------------------------
(* The routers *)

Scalper(key, p, market) ==
    CASE key = "trend" -> TrendPullback(p.trend, market)
      [] key = "burst" -> MomentumBurst(p.burst, market)
      [] key = "range" -> RangeEdgeReversion(p.range, market)
      [] key = "impulse_pullback" -> ImpulsePullback(p.impulse, market)
      [] key = "breakout_retest" -> BreakoutRetest(p.retest, market)
      [] key = "volatility_expansion" -> VolatilityExpansion(p.expansion, market)
      [] key = "liquidity_sweep" -> LiquiditySweep(p.sweep, market)
      [] key = "volume_dryup_breakout" -> VolumeDryUp(p.dryup, market)
      [] key = "three_push_exhaustion" -> ThreePushExhaustion(p.push, market)

(* The first of the order that does not wait *)
FirstDirection(directions) ==
    LET decided == {i \in DOMAIN directions : directions[i] # "wait"}
    IN  IF decided = {} THEN "wait" ELSE directions[Min(decided)]

Trending(market, p) ==
    LET base == Back(market, p.trendRegime).close
    IN  ~AtMost(Magnitude(Last(market).close - base), base, p.maxTrend)

RegimePeriod(p) == Largest(p.rangeRegime, p.trendRegime)

(* RegimeRouterScalperStrategy.evaluate *)
RuntimeDirection(p, market) ==
    IF Len(market) < RegimePeriod(p) + 2 THEN "wait"
    ELSE FirstDirection([i \in DOMAIN p.order |->
            IF p.order[i] = "range" /\ Trending(market, p) THEN "wait"
            ELSE Scalper(p.order[i], p, market)])

(* RegimeRouterScalper.evaluate: a regime without any range has no trend *)
ScriptDirection(p, market) ==
    LET window == Prior(market, p.rangeRegime)
    IN  IF Len(market) < RegimePeriod(p) + 2 THEN "wait"
        ELSE FirstDirection([i \in DOMAIN p.order |->
            IF \/ p.order[i] = "range" /\ Trending(market, p)
               \/ p.order[i] = "trend" /\ High(window) = Low(window)
            THEN "wait" ELSE Scalper(p.order[i], p, market)])

-----------------------------------------------------------------------------
(* The index-based version.  Positions are those of the lists, from zero. *)

Row(data, index) == data[index + 1]

(* _rolling_prior: up to period values before the index, or its own *)
PriorHigh(data, index, period) ==
    IF index = 0 THEN Row(data, 0).high
    ELSE High(SubSeq(data, Largest(0, index - period) + 1, index))
PriorLow(data, index, period) ==
    IF index = 0 THEN Row(data, 0).low
    ELSE Low(SubSeq(data, Largest(0, index - period) + 1, index))

(* _rolling_prior_average: the running sum, entering one value and leaving *)
(* one behind at every index.                                              *)
RunningVolume(data, last, period) ==
    FoldLeft(LAMBDA running, index :
                running + (IF index > 0 THEN Row(data, index - 1).volume ELSE 0)
                        - (IF index > period THEN Row(data, index - period - 1).volume ELSE 0),
             0, [k \in 1..(last + 1) |-> k - 1])

FastVolumeAtLeast(data, index, period, percent) ==
    LET count == IF index < period THEN index ELSE period
        running == RunningVolume(data, index, period)
    IN  running > 0 /\ AtLeast(Row(data, index).volume * count, running, percent)

(* _ret: zero before the period is over *)
Change(data, index, period) ==
    IF index < period THEN 0 ELSE Row(data, index).close - Row(data, index - period).close
Base(data, index, period) == IF index < period THEN 1 ELSE Row(data, index - period).close
FastRises(data, index, period, percent) ==
    AtLeast(Change(data, index, period), Base(data, index, period), percent)
FastFalls(data, index, period, percent) ==
    AtMost(Change(data, index, period), Base(data, index, period), -percent)

(* _trend_direction *)
FastTrend(p, data, index) ==
    LET high == PriorHigh(data, index, p.pullback)
        low == PriorLow(data, index, p.pullback)
        close == Row(data, index).close
        moving == AtLeast(high - low, low, p.minRange)
    IN  IF ~moving THEN 0
        ELSE IF /\ FastRises(data, index, p.trend, p.minTrend)
                /\ AtLeast(high - close, close, p.minPullback)
                /\ FastRises(data, index, p.trigger, p.minTrigger) THEN 1
        ELSE IF /\ FastFalls(data, index, p.trend, p.minTrend)
                /\ AtLeast(close - low, close, p.minPullback)
                /\ FastFalls(data, index, p.trigger, p.minTrigger) THEN -1
        ELSE 0

(* _range_direction *)
FastRange(p, data, index) ==
    LET low == PriorLow(data, index, p.range)
        width == PriorHigh(data, index, p.range) - low
        bar == Row(data, index)
    IN  IF ~AtLeast(width, low, p.minRange) \/ Span(bar) <= 0 \/ ~BodyAtLeast(bar, p.minBody)
        THEN 0
        ELSE IF AtMost(bar.close - low, width, p.edge) /\ Body(bar) > 0 THEN 1
        ELSE IF AtLeast(bar.close - low, width, 100 - p.edge) /\ Body(bar) < 0 THEN -1
        ELSE 0

(* _burst_direction *)
FastBurst(p, data, index) ==
    LET loud == FastVolumeAtLeast(data, index, p.volume, p.minVolume)
        close == Row(data, index).close
        up == /\ FastRises(data, index, p.impulse, p.minImpulse) /\ loud
              /\ close * 100 > PriorHigh(data, index, p.breakout) * (100 + p.buffer)
        down == /\ FastFalls(data, index, p.impulse, p.minImpulse) /\ loud
                /\ close * 100 < PriorLow(data, index, p.breakout) * (100 - p.buffer)
        sign == IF p.mode = "fade" THEN -1 ELSE 1
    IN  IF up THEN sign ELSE IF down THEN -sign ELSE 0

(* _evaluate_scalping_direction *)
FastDirection(p, data, index) ==
    LET trending == ~AtMost(Magnitude(Change(data, index, p.trendRegime)),
                            Base(data, index, p.trendRegime), p.maxTrend)
        directions == [i \in DOMAIN p.order |->
            CASE p.order[i] = "range" ->
                    IF trending THEN 0 ELSE FastRange(p.range, data, index)
              [] p.order[i] = "trend" -> FastTrend(p.trend, data, index)
              [] OTHER -> FastBurst(p.burst, data, index)]
        decided == {i \in DOMAIN directions : directions[i] # 0}
    IN  IF decided = {} THEN 0 ELSE directions[Min(decided)]

-----------------------------------------------------------------------------
Shared == {"trend", "burst", "range"}

Signed(direction) == CASE direction = "long" -> 1 [] direction = "short" -> -1
                       [] OTHER -> 0

(* How many candles the scalpers of an order look at. *)
Required(p) ==
    Max({RegimePeriod(p) + 2} \union
        {CASE p.order[i] = "trend" -> Max({p.trend.trend, p.trend.pullback, p.trend.trigger}) + 2
           [] p.order[i] = "burst" -> Max({p.burst.breakout, p.burst.impulse, p.burst.volume}) + 2
           [] p.order[i] = "range" -> p.range.range + 2
           [] p.order[i] = "impulse_pullback" ->
                p.impulse.impulse + p.impulse.pullback + p.impulse.trigger + 2
           [] p.order[i] = "breakout_retest" -> p.retest.breakout + p.retest.retest + 1
           [] p.order[i] = "volatility_expansion" ->
                Max({p.expansion.range, p.expansion.volume}) + 2
           [] p.order[i] = "liquidity_sweep" -> Max({p.sweep.lookback, p.sweep.volume}) + 2
           [] p.order[i] = "volume_dryup_breakout" ->
                Max({p.dryup.range, p.dryup.volume}) + p.dryup.dryup + 2
           [] p.order[i] = "three_push_exhaustion" ->
                Max({p.push.trend, p.push.push, p.push.volume}) + 2 :
         i \in DOMAIN p.order})

(* On every market the three routers take one decision, from the candle on *)
(* at which the fast simulators start, for orders of the scalpers they     *)
(* share; and a router that is given only the candles its scalpers ask for *)
(* (lookback_candle_limit) decides as it does on the whole market.         *)
RoutersAgree ==
    /\ Len(routed) > Warmup /\ ToSet(router.order) \subseteq Shared =>
         /\ ScriptDirection(router, routed) = RuntimeDirection(router, routed)
         /\ FastDirection(router, routed, Len(routed) - 1)
                = Signed(RuntimeDirection(router, routed))
    /\ \A n \in Required(router)..Len(routed) :
         RuntimeDirection(router, SubSeq(routed, Len(routed) - n + 1, Len(routed)))
            = RuntimeDirection(router, routed)
=============================================================================
