-------------------------- MODULE RollingStrategies --------------------------
(***************************************************************************)
(* The strategies that carry state from one evaluation to the next:        *)
(* VolatilityCompressionBreakoutStrategy and RangeEdgeReversionStrategy,   *)
(* of which the combo searches hold copies.  They keep the range of the    *)
(* last candles in monotonic deques (_RollingRange) and the breakout also  *)
(* an average volume (_RollingAverage), each fed with one candle per       *)
(* evaluation.                                                             *)
(*                                                                         *)
(* Candles close one by one; a strategy is evaluated after some of them,   *)
(* perhaps twice; and the market it is shown may go back in time, when     *)
(* the same object is used for another period.                             *)
(***************************************************************************)
EXTENDS CandleWindows

CONSTANTS
    TapeBars,           \* candles the market may produce
    Breakout,           \* lookback, compression, ratio, buffer, minVolume,
                        \* filter, minFilter
    Edge,               \* range, lower, upper, minWidth, reclaim
    MaxTape,            \* bound: candles
    MaxRewinds          \* bound: how often the market goes back

(* Windows have room for a candle; prices and volumes are numbers.         *)
ASSUME RollingAssumption ==
    /\ Breakout.lookback \in Nat \ {0} /\ Breakout.compression \in Nat \ {0}
    /\ Breakout.filter \in Nat /\ Edge.range \in Nat \ {0}
    /\ \A bar \in TapeBars : bar.high \in Int /\ bar.low \in Int /\ bar.volume \in Int

VARIABLES
    tape,               \* all candles so far
    now,                \* how many of them the strategies are shown
    rewinds,
    strategy,           \* the strategy that is evaluated
    breakout,           \* the breakout: its windows and its last decision
    edge,               \* the reversion: its window and its last decision
    fed                 \* history: the candles each window was fed with,
                        \* since it was last reset

rollingVars == <<tape, now, rewinds, strategy, breakout, edge, fed>>

NewRange == [index |-> 0, last |-> 0, highs |-> <<>>, lows |-> <<>>]
NewAverage == [values |-> <<>>, total |-> 0, last |-> 0]

RollingInit ==
    /\ tape = <<>> /\ now = 0 /\ rewinds = 0
    /\ strategy \in {"breakout", "edge"}
    /\ breakout = [lookback |-> NewRange, compression |-> NewRange, volume |-> NewAverage,
                   decision |-> "none", at |-> 0]
    /\ edge = [window |-> NewRange, decision |-> "none", at |-> 0]
    /\ fed = [lookback |-> <<>>, compression |-> <<>>, volume |-> <<>>, window |-> <<>>]

Shown == SubSeq(tape, 1, now)

-----------------------------------------------------------------------------
(* _RollingRange *)

(* Variant: the front stays one candle too long. *)
DroppedLate(deque, earliest) ==
    LET stay == {k \in DOMAIN deque : deque[k].index >= earliest - 1}
    IN  IF stay = {} THEN <<>> ELSE SubSeq(deque, Min(stay), Len(deque))

(* popleft while the front is too old *)
Dropped(deque, earliest) ==
    LET stay == {k \in DOMAIN deque : deque[k].index >= earliest}
    IN  IF stay = {} THEN <<>> ELSE SubSeq(deque, Min(stay), Len(deque))

(* pop while the back does not exceed the new entry, then append; sign -1  *)
(* for the lows.                                                           *)
Pushed(deque, entry, sign) ==
    LET exceed == {k \in DOMAIN deque : sign * deque[k].price > sign * entry.price}
    IN  Append(SubSeq(deque, 1, Max({0} \union exceed)), entry)

Appended(window, candle, period) ==
    LET earliest == window.index + 1 - period
    IN  [window EXCEPT
            !.index = @ + 1,
            !.highs = Dropped(Pushed(@, [index |-> window.index, price |-> candle.high], 1),
                              earliest),
            !.lows = Dropped(Pushed(@, [index |-> window.index, price |-> candle.low], -1),
                             earliest)]

Resets(window, time) == window.last # 0 /\ time < window.last
Feeds(window, time) == window.last # time

(* range: candles[-2] is fed, once per latest candle *)
Ranged(window, market, period) ==
    LET base == IF Resets(window, Len(market)) THEN NewRange ELSE window
    IN  IF ~Feeds(window, Len(market)) THEN window
        ELSE [Appended(base, Back(market, 1), period) EXCEPT !.last = Len(market)]

(* _current_range *)
Known(window, period) == window.index >= period /\ window.highs # <<>> /\ window.lows # <<>>
HighOf(window) == window.highs[1].price
LowOf(window) == window.lows[1].price

-----------------------------------------------------------------------------
(* _RollingAverage *)

Averaged(average, market) ==
    LET candle == Back(market, 1)
        values == Append(average.values, candle.volume)
        over == Len(values) > Breakout.lookback
    IN  IF average.last = Len(market) - 1 THEN average
        ELSE [last |-> Len(market) - 1,
              values |-> IF over THEN Tail(values) ELSE values,
              total |-> average.total + candle.volume - (IF over THEN values[1] ELSE 0)]

(* The latest volume against the average, zero while there are too few *)
VolumeFails(average, latest) ==
    /\ Len(average.values) >= Breakout.lookback /\ average.total > 0
    /\ latest.volume * Len(average.values) * 100 < Breakout.minVolume * average.total

-----------------------------------------------------------------------------
(* The decisions, given the bounds of the ranges *)

Compressed(low, high, narrowLow, narrowHigh) ==
    /\ low > 0 /\ high > low
    /\ (narrowHigh - narrowLow) * low * 100 <= Breakout.ratio * (high - low) * narrowLow

BreakoutDirection(market, low, high) ==
    LET latest == Last(market)
        base == Back(market, Breakout.filter)
    IN  Decide(Rises(latest, base, Breakout.minFilter)
                 /\ latest.close * 100 > high * (100 + Breakout.buffer),
               Falls(latest, base, Breakout.minFilter)
                 /\ latest.close * 100 < low * (100 - Breakout.buffer))

EdgeDirection(market, low, high) ==
    LET latest == Last(market)
        previous == Back(market, 1)
        wide == low > 0 /\ high > low /\ AtLeast(high - low, low, Edge.minWidth)
    IN  Decide(wide /\ AtMost(latest.close - low, high - low, Edge.lower)
                 /\ latest.close * 100 >= previous.close * (100 + Edge.reclaim),
               wide /\ AtLeast(latest.close - low, high - low, Edge.upper)
                 /\ latest.close * 100 <= previous.close * (100 - Edge.reclaim))

BreakoutReady(market) == Len(market) >= Largest(Breakout.lookback, Breakout.filter) + 2
EdgeReady(market) == Len(market) >= Edge.range + 2

-----------------------------------------------------------------------------
CandleArrives ==
    /\ now' = now + 1
    /\ \/ now < Len(tape) /\ UNCHANGED tape
       \/ /\ now = Len(tape) /\ now < MaxTape
          /\ \E bar \in TapeBars : tape' = Append(tape, bar)
    /\ UNCHANGED <<rewinds, strategy, breakout, edge, fed>>

MarketRewinds ==
    /\ rewinds < MaxRewinds /\ rewinds' = rewinds + 1
    /\ now' \in 1..(now - 1)
    /\ UNCHANGED <<tape, strategy, breakout, edge, fed>>

FedWith(history, window, market) ==
    IF ~Feeds(window, Len(market)) THEN history
    ELSE Append(IF Resets(window, Len(market)) THEN <<>> ELSE history, Len(market) - 1)

(* VolatilityCompressionBreakoutStrategy.evaluate: the volume is only      *)
(* averaged when the ranges are compressed.                                *)
EvaluateBreakout ==
    LET market == Shown
        lookback == Ranged(breakout.lookback, market, Breakout.lookback)
        compression == Ranged(breakout.compression, market, Breakout.compression)
        known == Known(lookback, Breakout.lookback) /\ Known(compression, Breakout.compression)
        compressed == known /\ Compressed(LowOf(lookback), HighOf(lookback),
                                          LowOf(compression), HighOf(compression))
        volume == IF compressed THEN Averaged(breakout.volume, market) ELSE breakout.volume
    IN  /\ strategy = "breakout" /\ now > 0
        /\ IF BreakoutReady(market)
           THEN /\ breakout' =
                    [lookback |-> lookback, compression |-> compression, volume |-> volume,
                     at |-> now,
                     decision |-> IF ~compressed \/ VolumeFails(volume, Last(market)) THEN "wait"
                                  ELSE BreakoutDirection(market, LowOf(lookback), HighOf(lookback))]
                /\ fed' = [fed EXCEPT
                    !.lookback = FedWith(@, breakout.lookback, market),
                    !.compression = FedWith(@, breakout.compression, market),
                    !.volume = IF volume = breakout.volume THEN @ ELSE Append(@, now - 1)]
           ELSE breakout' = [breakout EXCEPT !.decision = "wait", !.at = now] /\ UNCHANGED fed
        /\ UNCHANGED <<tape, now, rewinds, strategy, edge>>

(* RangeEdgeReversionStrategy.evaluate *)
EvaluateEdge ==
    LET market == Shown
        window == Ranged(edge.window, market, Edge.range)
    IN  /\ strategy = "edge" /\ now > 0
        /\ IF EdgeReady(market)
           THEN /\ edge' = [window |-> window, at |-> now,
                            decision |-> IF ~Known(window, Edge.range) THEN "wait"
                                         ELSE EdgeDirection(market, LowOf(window), HighOf(window))]
                /\ fed' = [fed EXCEPT !.window = FedWith(@, edge.window, market)]
           ELSE edge' = [edge EXCEPT !.decision = "wait", !.at = now] /\ UNCHANGED fed
        /\ UNCHANGED <<tape, now, rewinds, strategy, breakout>>

RollingNext == CandleArrives \/ MarketRewinds \/ EvaluateBreakout \/ EvaluateEdge

RollingSpec == RollingInit /\ [][RollingNext]_rollingVars

-----------------------------------------------------------------------------
Ending(history, n) == SubSeq(history, Len(history) - n + 1, Len(history))
BarsAt(history) == [k \in DOMAIN history |-> tape[history[k]]]
Unbroken(history) == \A k \in 2..Len(history) : history[k] = history[k - 1] + 1

(* A window holds the range of the last candles it was fed with, and that  *)
(* of the last candles of the market if none was skipped.                  *)
WindowIsExact(window, history, period) ==
    /\ window.index = Len(history)
    /\ window.index >= period =>
         LET bars == BarsAt(Ending(history, period))
         IN  /\ Known(window, period)
             /\ HighOf(window) = High(bars) /\ LowOf(window) = Low(bars)
    /\ Len(window.highs) <= period /\ Len(window.lows) <= period

(* The rolling windows are what they stand for, whichever candles the      *)
(* strategies were evaluated at and however often, also after the market   *)
(* went back: the bounds are those of the last period candles fed, the     *)
(* total is that of the volumes kept; and a strategy that was evaluated at *)
(* every candle decides as one that looks at the market itself.            *)
WindowsAreExact ==
    /\ WindowIsExact(breakout.lookback, fed.lookback, Breakout.lookback)
    /\ WindowIsExact(breakout.compression, fed.compression, Breakout.compression)
    /\ WindowIsExact(edge.window, fed.window, Edge.range)
    /\ LET kept == Ending(fed.volume, Min({Len(fed.volume), Breakout.lookback}))
       IN  /\ breakout.volume.values = [k \in DOMAIN kept |-> tape[kept[k]].volume]
           /\ breakout.volume.total = VolumeOf(BarsAt(kept))
    /\ edge.at = now /\ EdgeReady(Shown) =>
         edge.decision =
            IF Len(fed.window) < Edge.range THEN "wait"
            ELSE IF Unbroken(Ending(fed.window, Edge.range))
            THEN EdgeDirection(Shown, Low(Prior(Shown, Edge.range)), High(Prior(Shown, Edge.range)))
            ELSE edge.decision
    /\ breakout.at = now /\ BreakoutReady(Shown) /\ breakout.decision \in {"long", "short"} =>
         /\ Len(fed.lookback) >= Breakout.lookback
         /\ Len(fed.compression) >= Breakout.compression
         /\ (/\ Unbroken(Ending(fed.lookback, Breakout.lookback))
             /\ Unbroken(Ending(fed.compression, Breakout.compression))) =>
              LET wide == Prior(Shown, Breakout.lookback)
                  narrow == Prior(Shown, Breakout.compression)
              IN  /\ Compressed(Low(wide), High(wide), Low(narrow), High(narrow))
                  /\ breakout.decision = BreakoutDirection(Shown, Low(wide), High(wide))
=============================================================================
