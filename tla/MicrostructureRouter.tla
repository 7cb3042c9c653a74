------------------------ MODULE MicrostructureRouter ------------------------
(***************************************************************************)
(* The strategies over one-minute candles and market features              *)
(* (microstructure_alpha_strategy.py) and the router that chooses among    *)
(* them.  Some build bars of a higher timeframe from the candles they are  *)
(* shown, one the opening range of a trading session; candles may be       *)
(* missing, a feature may be missing or from a source that is not accepted. *)
(*                                                                         *)
(* Time is in minutes from a UTC midnight; a candle opens at its minute    *)
(* and closes one later.  Ratios are percentages.  Confidence, which       *)
(* funding may raise, is left out.                                         *)
(***************************************************************************)
EXTENDS CandleWindows

CONSTANTS
    MinuteBars,     \* candles the market may produce
    Readings,       \* market features at a candle: name -> value and source
    Wirings,        \* parameters of the strategies, children of the router
    Day,            \* minutes of a day
    MaxMinute       \* bound: minutes of a market

VARIABLES
    minutes,        \* the candles so far
    clock,          \* the minute after the last one
    reading,        \* the features at the last candle
    wiring          \* the parameters in use

microVars == <<minutes, clock, reading, wiring>>

MicroInit ==
    /\ minutes = <<>> /\ clock = 0
    /\ reading \in Readings
    /\ wiring \in Wirings

(* The exchange has a candle of this minute, or none. *)
MinutePasses ==
    /\ clock < MaxMinute
    /\ clock' = clock + 1
    /\ \/ UNCHANGED <<minutes, reading>>
       \/ \E bar \in MinuteBars :
            /\ minutes' = Append(minutes, [at |-> clock, open |-> bar.open, high |-> bar.high,
                                           low |-> bar.low, close |-> bar.close])
            /\ reading' \in Readings
    /\ UNCHANGED wiring

MicroNext == MinutePasses

-----------------------------------------------------------------------------
(* Bars of a higher timeframe *)

(* _bucket_start *)
Bucket(at, n) == at - ((at % Day) % n)

OpensOf(candles) == [k \in DOMAIN candles |-> candles[k].at]

(* Variant: a bucket counts as soon as it has any candle. *)
BarsFrom(candles, n, asOf) ==
    LET starts == {Bucket(candles[k].at, n) : k \in DOMAIN candles}
        Held(start) == SelectSeq(candles, LAMBDA c : Bucket(c.at, n) = start)
        closed == {start \in starts : start + n <= asOf}
    IN  [k \in 1..Cardinality(closed) |->
            LET start == SetToSortSeq(closed, <)[k]
            IN  [closed |-> start + n, close |-> Last(Held(start)).close]]

(* _closed_bars without a limit: the buckets that are over and have each   *)
(* of their minutes once, in order                                         *)
WholeBars(candles, n, asOf) ==
    LET starts == {Bucket(candles[k].at, n) : k \in DOMAIN candles}
        Held(start) == SelectSeq(candles, LAMBDA c : Bucket(c.at, n) = start)
        closed == {start \in starts :
                    /\ start + n <= asOf
                    /\ OpensOf(Held(start)) = [k \in 1..n |-> start + k - 1]}
    IN  [k \in 1..Cardinality(closed) |->
            LET start == SetToSortSeq(closed, <)[k]
            IN  [closed |-> start + n, close |-> Last(Held(start)).close]]

(* _closed_bars with max_bars: older candles are not looked at *)
ClosedBars(candles, n, asOf, most) ==
    LET earliest == Bucket(asOf, n) - n * (most + 1)
        bars == WholeBars(SelectSeq(candles, LAMBDA c : c.at >= earliest), n, asOf)
    IN  SubSeq(bars, Largest(0, Len(bars) - most) + 1, Len(bars))

(* _recent_bars_are_contiguous *)
Contiguous(bars, n, count, boundary) ==
    /\ Len(bars) >= count
    /\ \A k \in 1..count :
         bars[Len(bars) - count + k].closed = Bucket(boundary, n) - n * (count - k)

-----------------------------------------------------------------------------
(* What the strategies say: a direction, and whether they miss a feature *)

Says(long, short) == [direction |-> Decide(long, short), missing |-> FALSE]
Waits == Says(FALSE, FALSE)
Misses == [direction |-> "wait", missing |-> TRUE]

(* _feature_metadata *)
Accepted(name, sources) == name \in DOMAIN reading /\ reading[name].source \in sources

FlowSources == {"klines", "aggTrades"}
TradeSources == {"aggTrades"}
MetricSources == {"metrics"}

HasFlow == Accepted("imbalance", FlowSources) /\ Accepted("cvd", TradeSources)
HasIntensity == HasFlow /\ Accepted("intensity", TradeSources)
HasMetrics(names) == \A name \in names : Accepted(name, MetricSources)

Feature(name) == reading[name].value
Buying(p) == Feature("imbalance") >= p.imbalance /\ Feature("cvd") >= p.cvd
Selling(p) == Feature("imbalance") <= -p.imbalance /\ Feature("cvd") <= -p.cvd

Bullish(bar) == bar.close > bar.open
Bearish(bar) == bar.close < bar.open

(* _rejection_ratios: zero for a candle without range *)
Rejects(wick, bar, percent) ==
    IF Span(bar) <= 0 THEN percent <= 0 ELSE AtLeast(wick, Span(bar), percent)

(* _countertrend_pullback_depths: closes that fell below an earlier one,   *)
(* and how deep from its high                                              *)
LongPullback(window, percent) ==
    \E i \in 1..(Len(window) - 1) :
        LET tail == SubSeq(window, i + 1, Len(window))
        IN  /\ \E k \in DOMAIN tail : tail[k].close < window[i].close
            /\ AtLeast(window[i].high - Low(tail), window[i].high, percent)

ShortPullback(window, percent) ==
    \E i \in 1..(Len(window) - 1) :
        LET tail == SubSeq(window, i + 1, Len(window))
        IN  /\ \E k \in DOMAIN tail : tail[k].close > window[i].close
            /\ AtLeast(High(tail) - window[i].low, window[i].low, percent)

(* The direction of trend, momentum, pullback and reclaim, given the bars  *)
(* the two returns are measured between                                    *)
Continuation(p, market, long1, long2, short1, short2) ==
    LET latest == Last(market)
        prior == Prior(market, p.pullback)
    IN  Says(/\ Rises(long2, long1, p.minTrend) /\ Rises(short2, short1, p.minMomentum)
             /\ LongPullback(prior, p.minPullback)
             /\ Rises(latest, Back(market, 1), p.minReclaim) /\ Bullish(latest),
             /\ Falls(long2, long1, p.minTrend) /\ Falls(short2, short1, p.minMomentum)
             /\ ShortPullback(prior, p.minPullback)
             /\ Falls(latest, Back(market, 1), p.minReclaim) /\ Bearish(latest))

(* MultiTimeframeTrendPullbackStrategy, given its bars *)
PullbackOf(p, market, now, short, long) ==
    IF \/ ~Contiguous(short, p.short, p.momentumBars, now)
       \/ ~Contiguous(long, p.long, p.trendBars, now)
       \/ Len(market) < p.pullback + 1
    THEN Waits
    ELSE Continuation(p, market, Back(long, p.trendBars - 1), Last(long),
                      Back(short, p.momentumBars - 1), Last(short))

TrendPullback1m(p, market) ==
    LET now == Last(market).at + 1
    IN  PullbackOf(p, market, now, ClosedBars(market, p.short, now, p.momentumBars),
                   ClosedBars(market, p.long, now, p.trendBars))

(* FlowConfirmedBreakoutStrategy *)
FlowBreakout(p, market) ==
    LET latest == Last(market)
        window == Prior(market, p.range)
        busy == Feature("intensity") >= p.intensity
    IN  IF ~HasIntensity THEN Misses
        ELSE IF Len(market) < p.range + 1 THEN Waits
        ELSE Says(latest.close * 100 > High(window) * (100 + p.buffer) /\ Buying(p) /\ busy,
                  latest.close * 100 < Low(window) * (100 - p.buffer) /\ Selling(p) /\ busy)

(* FlowExhaustionReversalStrategy *)
FlowExhaustion(p, market) ==
    LET latest == Last(market)
        window == Prior(market, p.extreme)
    IN  IF ~HasFlow THEN Misses
        ELSE IF Len(market) < p.extreme + 1 THEN Waits
        ELSE Says(/\ latest.low < Low(window) /\ Bullish(latest)
                  /\ Rejects(LowerWick(latest), latest, p.minWick) /\ Buying(p),
                  /\ latest.high > High(window) /\ Bearish(latest)
                  /\ Rejects(UpperWick(latest), latest, p.minWick) /\ Selling(p))

(* OpenInterestImpulseStrategy *)
InterestImpulse(p, market) ==
    LET latest == Last(market)
        base == Back(market, p.lookback)
        grew == Feature("interest") >= p.minChange
    IN  IF ~HasMetrics({"interest", "taker"}) THEN Misses
        ELSE IF Len(market) < p.lookback + 1 THEN Waits
        ELSE Says(Rises(latest, base, p.minReturn) /\ grew /\ Feature("taker") >= 100 + p.edge,
                  Falls(latest, base, p.minReturn) /\ grew /\ Feature("taker") <= 100 - p.edge)

(* OpenInterestDivergenceStrategy *)
InterestDivergence(p, market) ==
    LET latest == Last(market)
        base == Back(market, p.lookback)
        shrank == Feature("interest") <= -p.minChange
    IN  IF ~HasMetrics({"interest", "taker"}) THEN Misses
        ELSE IF Len(market) < p.lookback + 1 THEN Waits
        ELSE Says(Falls(latest, base, p.minReturn) /\ shrank /\ Feature("taker") >= 100 + p.edge,
                  Rises(latest, base, p.minReturn) /\ shrank /\ Feature("taker") <= 100 - p.edge)

(* PositioningCrowdingReversalStrategy *)
CrowdingReversal(p, market) ==
    LET latest == Last(market)
        crowd == {Feature("top"), Feature("global")}
    IN  IF ~HasMetrics({"top", "global", "taker"}) THEN Misses
        ELSE Says(/\ \A ratio \in crowd : ratio <= p.crowdedShort
                  /\ Feature("taker") >= 100 + p.edge
                  /\ Bullish(latest) /\ Rejects(LowerWick(latest), latest, p.minWick),
                  /\ \A ratio \in crowd : ratio >= p.crowdedLong
                  /\ Feature("taker") <= 100 - p.edge
                  /\ Bearish(latest) /\ Rejects(UpperWick(latest), latest, p.minWick))

(* GlobalRatioShockReversalStrategy: up is looked at first, and is short *)
RatioShock(p, market) ==
    LET change == Feature("change")
    IN  IF ~HasMetrics({"change"}) THEN Misses
        ELSE IF p.shock \in {"up", "both"} /\ change >= p.minChange THEN Says(FALSE, TRUE)
        ELSE Says(p.shock \in {"down", "both"} /\ change <= -p.minChange, FALSE)

(* PremiumFundingReversionStrategy: the premium, or else the basis, if it  *)
(* is extreme                                                              *)
PremiumReversion(p, market) ==
    LET latest == Last(market)
        premium == Accepted("premium", {"premiumIndexKlines"})
        basis == /\ Accepted("mark", {"markPriceKlines"})
                 /\ Accepted("index", {"indexPriceKlines"}) /\ Feature("index") # 0
        gap == Feature("mark") - Feature("index")
        high == IF premium /\ Magnitude(Feature("premium")) >= p.minPremium
                THEN Feature("premium") > 0
                ELSE basis /\ AtLeast(gap, Feature("index"), p.minBasis)
        low == IF premium /\ Magnitude(Feature("premium")) >= p.minPremium
               THEN Feature("premium") < 0
               ELSE basis /\ AtMost(gap, Feature("index"), -p.minBasis)
    IN  IF ~HasFlow \/ (~premium /\ ~basis) THEN Misses
        ELSE Says(/\ low /\ Bullish(latest) /\ Buying(p)
                  /\ Rejects(LowerWick(latest), latest, p.minWick),
                  /\ high /\ Bearish(latest) /\ Selling(p)
                  /\ Rejects(UpperWick(latest), latest, p.minWick))

(* SessionOpeningRangeStrategy._session: the last session that began *)
SessionStart(p, at) ==
    LET midnight == at - (at % Day)
    IN  Max({start \in {day + open : day \in {midnight - Day, midnight}, open \in p.sessions} :
                start <= at})

(* The break of an opening range, given the last bar before the candle *)
OpeningBreak(p, market, opening, base) ==
    LET latest == Last(market)
        busy == Feature("intensity") >= p.intensity
    IN  Says(/\ latest.close * 100 > High(opening) * (100 + p.buffer)
             /\ Rises(latest, base, p.minReturn) /\ Buying(p) /\ busy,
             /\ latest.close * 100 < Low(opening) * (100 - p.buffer)
             /\ Falls(latest, base, p.minReturn) /\ Selling(p) /\ busy)

BreakAfter(p, market, opening, bars) ==
    IF bars = <<>> \/ ~Contiguous(bars, p.short, 1, Last(market).at) THEN Waits
    ELSE OpeningBreak(p, market, opening, Last(bars))

(* SessionOpeningRangeStrategy *)
OpeningRange(p, market) ==
    LET latest == Last(market)
        start == SessionStart(p, latest.at)
        end == start + p.opening
        opening == SelectSeq(market, LAMBDA c : start <= c.at /\ c.at < end)
        bars == SelectSeq(ClosedBars(market, p.short, latest.at + 1, 1),
                          LAMBDA bar : bar.closed <= latest.at)
    IN  IF ~HasIntensity THEN Misses
        ELSE IF \/ latest.at < end
                \/ OpensOf(opening) # [k \in 1..p.opening |-> start + k - 1]
        THEN Waits
        ELSE BreakAfter(p, market, opening, bars)

-----------------------------------------------------------------------------
(* The router *)

RouteOf(child) ==
    CASE child \in {"mtf", "impulse"} -> "trend"
      [] child \in {"breakout", "session"} -> "breakout"
      [] OTHER -> "reversion"

ChildSays(child, p, market) ==
    CASE child = "mtf" -> TrendPullback1m(p, market)
      [] child = "breakout" -> FlowBreakout(p, market)
      [] child = "session" -> OpeningRange(p, market)
      [] child = "exhaustion" -> FlowExhaustion(p, market)
      [] child = "premium" -> PremiumReversion(p, market)
      [] child = "impulse" -> InterestImpulse(p, market)
      [] child = "divergence" -> InterestDivergence(p, market)
      [] child = "crowding" -> CrowdingReversal(p, market)
      [] child = "shock" -> RatioShock(p, market)

(* The average of range over close, as a fraction's two parts *)
SpanSum(window) ==
    FoldLeft(LAMBDA sum, bar : <<sum[1] * bar.close + Span(bar) * sum[2], sum[2] * bar.close>>,
             <<0, 1>>, window)

(* The routes in the order the regime asks them. *)
RouteOrder(p, market) ==
    LET window == SubSeq(market, Len(market) - p.regime + 1, Len(market))
        base == Back(market, p.regime).close
        spans == SpanSum(window)
    IN  IF AtLeast(Magnitude(Last(market).close - base), base, p.trending)
        THEN <<"trend", "breakout", "reversion">>
        ELSE IF AtLeast(spans[1], spans[2] * p.regime, p.volatile)
        THEN <<"breakout", "reversion", "trend">>
        ELSE <<"reversion", "breakout", "trend">>

(* The children that speak, in the order of their routes, and of the       *)
(* router within a route                                                   *)
Eligible(p, market, said) ==
    LET order == RouteOrder(p, market)
        Of(route) == SelectSeq([k \in DOMAIN said |-> k],
                        LAMBDA k : RouteOf(p.children[k]) = route /\ said[k].direction # "wait")
    IN  Of(order[1]) \o Of(order[2]) \o Of(order[3])

(* MicrostructureRegimeRouterStrategy.evaluate: what the children said and *)
(* which of them speak                                                     *)
Routed(p, said, speaking) ==
    [direction |-> IF speaking = <<>> THEN "wait" ELSE said[speaking[1]].direction,
     child |-> IF speaking = <<>> THEN "none" ELSE p.children[speaking[1]],
     disabled |-> {p.children[k] : k \in {i \in DOMAIN said : said[i].missing}}]

Answer(p, market, said) == Routed(p, said, Eligible(p, market, said))

RouterSays(p, market) ==
    IF Len(market) < p.regime + 1
    THEN [direction |-> "wait", child |-> "none", disabled |-> {}]
    ELSE Answer(p, market, [k \in DOMAIN p.children |-> ChildSays(p.children[k], p, market)])

-----------------------------------------------------------------------------
(* What the higher timeframes mean: all minutes of the last count buckets, *)
(* and the candle that closed at a minute                                  *)
Covered(market, n, count, now) ==
    \A at \in (Bucket(now, n) - n * count)..(Bucket(now, n) - 1) :
        \E k \in DOMAIN market : market[k].at = at
ClosedAt(market, at) == CHOOSE c \in ToSet(market) : c.at = at - 1

ExpectedPullback(p, market) ==
    LET now == Last(market).at + 1
        long == Bucket(now, p.long)
        short == Bucket(now, p.short)
    IN  IF /\ Covered(market, p.long, p.trendBars, now)
           /\ Covered(market, p.short, p.momentumBars, now)
           /\ Len(market) >= p.pullback + 1
        THEN Continuation(p, market,
                ClosedAt(market, long - p.long * (p.trendBars - 1)), ClosedAt(market, long),
                ClosedAt(market, short - p.short * (p.momentumBars - 1)), ClosedAt(market, short))
        ELSE Waits

(* A candle that completes a bar is not decided on: the bar before it is   *)
(* no longer looked at then.                                               *)
ExpectedRange(p, market) ==
    LET at == Last(market).at
        start == SessionStart(p, at)
        opening == SelectSeq(market, LAMBDA c : c.at \in start..(start + p.opening - 1))
    IN  IF ~HasIntensity THEN Misses
        ELSE IF at >= start + p.opening /\ Len(opening) = p.opening
                /\ Covered(market, p.short, 1, at)
                /\ ~((at + 1) % p.short = 0 /\ Covered(market, p.short, 1, at + 1))
        THEN OpeningBreak(p, market, opening, ClosedAt(market, Bucket(at, p.short)))
        ELSE Waits

(* What is routed is what the children without a missing feature route *)
OnlyDisables(routed) ==
    /\ routed.child \notin routed.disabled
    /\ RouterSays([wiring EXCEPT !.children = SelectSeq(wiring.children,
                        LAMBDA child : child \notin routed.disabled)], minutes)
         = [routed EXCEPT !.disabled = {}]

Limited(market, n) == SubSeq(market, Len(market) - n + 1, Len(market))

(* Bars of a higher timeframe are those that are over at the candle and    *)
(* whole, however candles are missing and whatever limits how far back a   *)
(* strategy looks: the two strategies that use them decide as if they took *)
(* closes straight from the minutes; a market cut to its last candles      *)
(* (candle_limit) never turns the decision of the session strategy but to  *)
(* wait; and a missing feature disables the dependent leg only, the router *)
(* deciding as one that never had it.                                      *)
MicroRoutesAgree ==
    minutes # <<>> =>
        /\ TrendPullback1m(wiring, minutes) = ExpectedPullback(wiring, minutes)
        /\ OpeningRange(wiring, minutes) = ExpectedRange(wiring, minutes)
        /\ \A n \in 1..Len(minutes) :
             OpeningRange(wiring, Limited(minutes, n)) \in {Waits, OpeningRange(wiring, minutes)}
        /\ OnlyDisables(RouterSays(wiring, minutes))
=============================================================================
