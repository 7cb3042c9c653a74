-------------------------- MODULE BacktestSimulator --------------------------
(***************************************************************************)
(* simulate_backtest: a strategy is run candle by candle, one position at  *)
(* a time.  An open position leaves at its stop loss or take profit, at an *)
(* opposite signal, or at the end of the data; a flat one may enter at the *)
(* close of the candle, never on the candle it left at.                    *)
(*                                                                         *)
(* Prices are ticks and a position is one unit: sizing, and with it the    *)
(* scale of a profit, is left out; slippage and the fee of a trade are     *)
(* ticks.  What the strategy says on a candle, and the levels it gives,    *)
(* are free.                                                               *)
(***************************************************************************)
EXTENDS Integers, Sequences, SequencesExt

CONSTANTS
    Prices,          \* a set of ticks
    MaxCandles,      \* bound: the length of the market
    InitialEquity, Slippage, Fee

ASSUME SimulatorAssumption ==
    /\ Prices \subseteq Nat \ {0}
    /\ MaxCandles \in Nat \ {0}
    /\ InitialEquity \in Nat \ {0} /\ Slippage \in Nat /\ Fee \in Nat

Candles == {c \in [low : Prices, close : Prices, high : Prices] :
               c.low <= c.close /\ c.close <= c.high}
NoLevels == [stop_loss |-> 0, take_profit |-> 0]
Levels == [stop_loss : Prices, take_profit : Prices]
TradeSides == {"LONG", "SHORT"}
Flat == [direction |-> "WAIT", entry |-> 0, at |-> 0, levels |-> NoLevels]

VARIABLES
    candles,         \* the candles simulated so far
    answers,         \* what the strategy said on each: a signal, "none" for a
                     \* KeyError, "unlevelled" when calculate raised, "ruined"
                     \* when sizing did, "unasked" when a level was reached
    openPosition, trades, equity, peakEquity,
    maxDrawdown,     \* a ratio: numerator and denominator
    simulation       \* "running", "done" or "error"

simVars == <<candles, answers, openPosition, trades, equity, peakEquity, maxDrawdown, simulation>>

SimInit ==
    /\ candles = <<>>
    /\ answers = <<>>
    /\ openPosition = Flat
    /\ trades = <<>>
    /\ equity = InitialEquity
    /\ peakEquity = InitialEquity
    /\ maxDrawdown = <<0, 1>>
    /\ simulation = "running"

-----------------------------------------------------------------------------
Sign(direction) == IF direction = "LONG" THEN 1 ELSE -1
Opposite(d, e) == {d, e} = TradeSides

StopTouched(direction, levels, c) ==
    IF direction = "LONG" THEN c.low <= levels.stop_loss ELSE c.high >= levels.stop_loss

TakeProfitTouched(direction, levels, c) ==
    IF direction = "LONG" THEN c.high >= levels.take_profit ELSE c.low <= levels.take_profit

(* Variant: the take profit is looked at first. *)
TakeProfitFirst(p, c) ==
    IF p.levels = NoLevels THEN "none"
    ELSE IF TakeProfitTouched(p.direction, p.levels, c) THEN "take_profit"
    ELSE IF StopTouched(p.direction, p.levels, c) THEN "stop_loss"
    ELSE "none"

(* _exit_for_candle: a candle that reaches both levels counts as a loss. *)
ExitForCandle(p, c) ==
    IF p.levels = NoLevels THEN "none"
    ELSE IF StopTouched(p.direction, p.levels, c) THEN "stop_loss"
    ELSE IF TakeProfitTouched(p.direction, p.levels, c) THEN "take_profit"
    ELSE "none"

(* _drawdown_ratio *)
DrawdownRatio(value, peak) == IF peak <= 0 THEN <<0, 1>> ELSE <<peak - value, peak>>

Larger(r, s) == IF r[1] * s[2] >= s[1] * r[2] THEN r ELSE s

(* _close_trade and what follows it. *)
CloseTrade(price, reason, at) ==
    LET filled == price - Sign(openPosition.direction) * Slippage
        net == Sign(openPosition.direction) * (filled - openPosition.entry) - Fee
        total == equity + net
        peak == IF total > peakEquity THEN total ELSE peakEquity
    IN
    /\ trades' = Append(trades, [direction |-> openPosition.direction, entry |-> openPosition.entry,
                                 levels |-> openPosition.levels, exit |-> filled, net |-> net,
                                 reason |-> reason, from |-> openPosition.at, to |-> at])
    /\ equity' = total
    /\ peakEquity' = peak
    /\ maxDrawdown' = Larger(maxDrawdown, DrawdownRatio(total, peak))
    /\ openPosition' = Flat

Sees(c, answer) ==
    /\ simulation = "running"
    /\ Len(candles) < MaxCandles
    /\ candles' = Append(candles, c)
    /\ answers' = Append(answers, answer)
    /\ simulation' = IF answer = "ruined" THEN "error" ELSE "running"

NoTrade == UNCHANGED <<trades, equity, peakEquity, maxDrawdown>>

(* The candle reaches a level of the open position. *)
ExitAtLevel ==
    \E c \in Candles :
        LET reason == ExitForCandle(openPosition, c) IN
        /\ openPosition # Flat
        /\ reason # "none"
        /\ Sees(c, "unasked")
        /\ CloseTrade(openPosition.levels[reason], reason, Len(candles) + 1)

(* It does not: the strategy is asked, and an opposite signal closes. *)
HoldOrReverse ==
    \E c \in Candles, answer \in TradeSides \union {"WAIT", "none"} :
        /\ openPosition # Flat
        /\ ExitForCandle(openPosition, c) = "none"
        /\ Sees(c, answer)
        /\ IF Opposite(openPosition.direction, answer)
           THEN CloseTrade(c.close, "opposite_signal", Len(candles) + 1)
           ELSE NoTrade /\ UNCHANGED openPosition

(* No entry: no signal, a wait, or no levels for the entry. *)
StayFlat ==
    \E c \in Candles, answer \in {"WAIT", "none", "unlevelled"} :
        /\ openPosition = Flat
        /\ Sees(c, answer)
        /\ NoTrade /\ UNCHANGED openPosition

Enter ==
    \E c \in Candles, d \in TradeSides, levels \in Levels \union {NoLevels} :
        /\ openPosition = Flat
        /\ equity > 0
        /\ Sees(c, d)
        /\ openPosition' = [direction |-> d, entry |-> c.close + Sign(d) * Slippage,
                        at |-> Len(candles) + 1, levels |-> levels]
        /\ NoTrade

(* Without equity the exposure limit of an entry raises, and no result is    *)
(* returned.                                                                 *)
EnterRuined ==
    \E c \in Candles :
        /\ openPosition = Flat
        /\ equity <= 0
        /\ Sees(c, "ruined")
        /\ NoTrade /\ UNCHANGED openPosition

(* Behind the last candle: a strategy that never gave a result is asked once *)
(* more, and an open position is closed.                                     *)
Finish ==
    /\ simulation = "running"
    /\ candles # <<>>
    /\ \/ /\ \E i \in DOMAIN answers : answers[i] \notin {"none", "unasked"}
          /\ simulation' = "done"
       \/ /\ \A i \in DOMAIN answers : answers[i] \in {"none", "unasked"}
          /\ simulation' \in {"done", "error"}
    /\ IF openPosition # Flat
       THEN CloseTrade(Last(candles).close, "end_of_data", Len(candles))
       ELSE NoTrade /\ UNCHANGED openPosition
    /\ UNCHANGED <<candles, answers>>

SimNext == ExitAtLevel \/ HoldOrReverse \/ StayFlat \/ Enter \/ EnterRuined \/ Finish

SimSpec == SimInit /\ [][SimNext]_simVars

-----------------------------------------------------------------------------
(* The equity behind the first n trades. *)
EquityUpTo(n) ==
    FoldLeft(LAMBDA total, trade : total + trade.net, InitialEquity, SubSeq(trades, 1, n))

PeakAt(n) == CHOOSE e \in {EquityUpTo(i) : i \in 0..n} : \A i \in 0..n : EquityUpTo(i) <= e

EquityReconciles ==
    LET Fall(n) == DrawdownRatio(EquityUpTo(n), PeakAt(n)) IN
    /\ equity = EquityUpTo(Len(trades))
    /\ \E n \in 0..Len(trades) : maxDrawdown[1] * Fall(n)[2] = Fall(n)[1] * maxDrawdown[2]
    /\ \A n \in 0..Len(trades) : Fall(n)[1] * maxDrawdown[2] <= maxDrawdown[1] * Fall(n)[2]

(* A trade leaves at the first candle behind its entry that gives a reason,  *)
(* and the stop loss is the reason when the candle reaches both levels.      *)
LeavesFirst(t) ==
    LET Touches(k) == /\ t.levels # NoLevels
                      /\ \/ StopTouched(t.direction, t.levels, candles[k])
                         \/ TakeProfitTouched(t.direction, t.levels, candles[k])
        Reverses(k) == Opposite(t.direction, answers[k])
        Stops == t.levels # NoLevels /\ StopTouched(t.direction, t.levels, candles[t.to])
    IN
    /\ \A k \in (t.from + 1)..(t.to - 1) : ~Touches(k) /\ ~Reverses(k)
    /\ t.reason = "end_of_data" => t.to = Len(candles) /\ simulation # "running"
    /\ t.reason = "opposite_signal" => t.from < t.to /\ Reverses(t.to) /\ ~Touches(t.to)
    /\ t.reason = "take_profit" => t.from < t.to /\ Touches(t.to) /\ ~Stops
    /\ t.reason = "stop_loss" => t.from < t.to /\ Stops

(* Every entry signal seen while flat is one trade, and no other is. *)
EntriesAreTrades ==
    /\ \A i \in DOMAIN trades : answers[trades[i].from] = trades[i].direction
    /\ \A i \in 2..Len(trades) : trades[i - 1].to < trades[i].from
    /\ \A k \in DOMAIN answers :
         answers[k] \in TradeSides =>
            \/ \E i \in DOMAIN trades : trades[i].from <= k /\ k <= trades[i].to
            \/ openPosition # Flat /\ openPosition.at <= k
    /\ simulation # "running" => openPosition = Flat

(* A simulation is what a reader of its trades would compute: the equity is  *)
(* the sum of the trades, the drawdown is the worst fall from the highest    *)
(* equity before it, every trade leaves at its first reason, the stop loss   *)
(* before the take profit, no trade begins on the candle another one ended   *)
(* at, and every entry is closed exactly once.                               *)
SimulationReconciles ==
    /\ EquityReconciles
    /\ \A i \in DOMAIN trades : LeavesFirst(trades[i])
    /\ EntriesAreTrades
=============================================================================
