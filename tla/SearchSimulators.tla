-------------------------- MODULE SearchSimulators --------------------------
(***************************************************************************)
(* The simulators of the strategy searches: simulate_exit_candidate with   *)
(* its five kinds of exits, _simulate_scalping_fast with a fixed stop and  *)
(* take profit, and _simulate_fast of the novel combos, which also leaves  *)
(* at an opposite signal.  All three see the same candles and signals.     *)
(*                                                                         *)
(* A price of a candle counts millionths, so that two percentages of it    *)
(* are exact.  A position has Parts parts of one unit of quantity; sizing  *)
(* by equity is left out, and so are the averages and the drawdown a       *)
(* report computes of the trades.  Signals are free.                       *)
(***************************************************************************)
EXTENDS Integers, Sequences, FiniteSetsExt, SequencesExt

CONSTANTS
    SearchBars,     \* candles: low, close, high, and the ratios a filter reads
    ExitCandidates, \* candidates of the exit search
    PositionParts,  \* parts of a position
    FeePercent,
    MaxBars         \* bound: candles after the warmup

VARIABLES
    candidate,      \* the exit candidate, its stop and take profit also used
                    \* by the other two simulators
    market,         \* the candles seen
    exitRun, fastRun, novelRun,
    opposed,        \* the novel simulator left at an opposite signal
    finished

searchVars == <<candidate, market, exitRun, fastRun, novelRun, opposed, finished>>

NoPosition == [direction |-> 0]
NewRun == [position |-> NoPosition, equity |-> 0, gross |-> 0, fees |-> 0, trades |-> <<>>]

SearchInit ==
    /\ candidate \in ExitCandidates
    /\ market = <<>>
    /\ exitRun = NewRun /\ fastRun = NewRun /\ novelRun = NewRun
    /\ opposed = FALSE /\ finished = FALSE

-----------------------------------------------------------------------------
(* Prices *)

Price(ticks) == ticks * 1000000
Percent(price, percent) == (price \div 100) * (100 + percent)

(* _apply_entry_slippage, _apply_exit_slippage *)
Entered(price, direction, slip) == Percent(price, direction * slip)
Left(price, direction, slip) == Percent(price, -direction * slip)

(* The end of a candle against a position, and the one in its favour *)
Against(bar, direction) == Price(IF direction > 0 THEN bar.low ELSE bar.high)
InFavour(bar, direction) == Price(IF direction > 0 THEN bar.high ELSE bar.low)

StopReached(bar, direction, level) == direction * Against(bar, direction) <= direction * level
TakeReached(bar, direction, level) == direction * InFavour(bar, direction) >= direction * level

Beyond(position, percent) == Percent(position.entry, position.direction * percent)
FeeOf(position, parts) == parts * ((position.entry \div 100) * FeePercent)

Gain(position, parts, price) == parts * position.direction * (price - position.entry)

(* What a run records of a closed trade *)
Record(run, gross, fee, price, reason, at) ==
    [run EXCEPT !.position = NoPosition, !.equity = @ + gross - fee,
                !.gross = @ + gross, !.fees = @ + fee,
                !.trades = Append(@, [direction |-> run.position.direction,
                                      entry |-> run.position.entry, from |-> run.position.at,
                                      to |-> at, exit |-> price, reason |-> reason,
                                      gross |-> gross, fee |-> fee])]

-----------------------------------------------------------------------------
(* The exit models *)

(* OpenPosition *)
ExitPosition(bar, direction, slip, at) ==
    LET entry == Entered(Price(bar.close), direction, slip)
    IN  [direction |-> direction, entry |-> entry, at |-> at, remaining |-> PositionParts,
         realized |-> 0, exitFee |-> 0, activated |-> FALSE, extreme |-> entry,
         partialDone |-> FALSE]

Stay(position) == [position |-> position, price |-> 0, reason |-> "none"]
Leave(position, level, reason) ==
    [position |-> position, reason |-> reason,
     price |-> Left(level, position.direction, candidate.slip)]

(* Variant: the take profit is looked at first. *)
TakeBeforeStop(position, bar, take, stop) ==
    IF TakeReached(bar, position.direction, Beyond(position, take))
    THEN Leave(position, Beyond(position, take), "take_profit")
    ELSE IF StopReached(bar, position.direction, Beyond(position, -stop))
    THEN Leave(position, Beyond(position, -stop), "stop_loss")
    ELSE Stay(position)

(* stop_take_exit: the stop comes first *)
StopTakeExit(position, bar, take, stop) ==
    IF StopReached(bar, position.direction, Beyond(position, -stop))
    THEN Leave(position, Beyond(position, -stop), "stop_loss")
    ELSE IF TakeReached(bar, position.direction, Beyond(position, take))
    THEN Leave(position, Beyond(position, take), "take_profit")
    ELSE Stay(position)

FixedExit(position, bar) == StopTakeExit(position, bar, candidate.take, candidate.stop)

(* time_exit, and the fixed exit if it is not yet time *)
TimeExit(position, bar, at) ==
    IF at - position.at >= candidate.hold
    THEN Leave(position, Price(bar.close), "time_exit") ELSE FixedExit(position, bar)

(* _clamp of a multiple of the average true range of the candle *)
Clamped(value, least, most) ==
    IF value < least THEN least ELSE IF value > most THEN most ELSE value
AtrTake(bar) == Clamped(bar.atr * candidate.takeMultiple, candidate.minTake, candidate.maxTake)
AtrStop(bar) == Clamped(bar.atr * candidate.stopMultiple, candidate.minStop, candidate.maxStop)

AtrExit(position, bar) == StopTakeExit(position, bar, AtrTake(bar), AtrStop(bar))

(* The better of the extreme so far and the candle's *)
Advanced(position, bar) ==
    LET reached == InFavour(bar, position.direction)
    IN  IF position.direction * reached > position.direction * position.extreme
        THEN [position EXCEPT !.extreme = reached] ELSE position

TrailFrom(position, bar, reason) ==
    LET advanced == Advanced(position, bar)
        level == Percent(advanced.extreme, -position.direction * candidate.trail)
    IN  IF StopReached(bar, position.direction, level)
        THEN Leave(advanced, level, reason) ELSE Stay(advanced)

(* trailing_exit: no exit on the candle that activates the trail *)
TrailingExit(position, bar) ==
    IF StopReached(bar, position.direction, Beyond(position, -candidate.stop))
    THEN Leave(position, Beyond(position, -candidate.stop), "stop_loss")
    ELSE IF /\ ~position.activated
            /\ TakeReached(bar, position.direction, Beyond(position, candidate.take))
    THEN Stay([position EXCEPT !.activated = TRUE,
                               !.extreme = InFavour(bar, position.direction)])
    ELSE IF position.activated THEN TrailFrom(position, bar, "trailing_take_profit")
    ELSE Stay(position)

(* realize_partial *)
RealizePartial(position, price, parts) ==
    LET closed == IF position.remaining < parts THEN position.remaining ELSE parts
    IN  [position EXCEPT !.realized = @ + Gain(position, closed, price),
                         !.exitFee = @ + FeeOf(position, closed),
                         !.remaining = @ - closed]

(* partial_trailing_exit *)
PartialTrailingExit(position, bar) ==
    LET first == Beyond(position, candidate.take)
    IN  IF StopReached(bar, position.direction, Beyond(position, -candidate.stop))
        THEN Leave(position, Beyond(position, -candidate.stop), "stop_loss")
        ELSE IF ~position.partialDone /\ TakeReached(bar, position.direction, first)
        THEN Stay([RealizePartial(position, Left(first, position.direction, candidate.slip),
                                  candidate.partial)
                     EXCEPT !.partialDone = TRUE, !.activated = TRUE,
                            !.extreme = InFavour(bar, position.direction)])
        ELSE IF position.partialDone THEN TrailFrom(position, bar, "partial_trailing_exit")
        ELSE Stay(position)

(* exit_for_candle *)
ExitOfModel(position, bar, at) ==
    CASE candidate.kind = "fixed" -> FixedExit(position, bar)
      [] candidate.kind = "time" -> TimeExit(position, bar, at)
      [] candidate.kind = "atr" -> AtrExit(position, bar)
      [] candidate.kind = "trailing" -> TrailingExit(position, bar)
      [] candidate.kind = "partial_trailing" -> PartialTrailingExit(position, bar)

(* Variant: the fee of a part that was closed before is forgotten. *)
ClosePositionWithoutPartialFee(run, position, price, reason, at) ==
    Record(run, position.realized + Gain(position, position.remaining, price),
           FeeOf(position, PositionParts) + FeeOf(position, position.remaining), price, reason, at)

(* close_position *)
ClosePosition(run, position, price, reason, at) ==
    Record(run, position.realized + Gain(position, position.remaining, price),
           FeeOf(position, PositionParts) + position.exitFee + FeeOf(position, position.remaining),
           price, reason, at)

(* entry_filter_passes: a threshold of zero is none *)
EntryFilterPasses(bar) ==
    /\ candidate.minAtr = 0 \/ bar.atr >= candidate.minAtr
    /\ candidate.minRange = 0 \/ bar.range >= candidate.minRange
    /\ candidate.minVolume = 0 \/ bar.volume >= candidate.minVolume

(* simulate_exit_candidate, one candle: a position is only left, never     *)
(* entered again on the candle it was left at.                             *)
ExitStep(run, bar, signal, at) ==
    IF run.position # NoPosition
    THEN LET exit == ExitOfModel(run.position, bar, at)
         IN  IF exit.reason = "none" THEN [run EXCEPT !.position = exit.position]
             ELSE ClosePosition(run, exit.position, exit.price, exit.reason, at)
    ELSE IF signal = 0 \/ ~EntryFilterPasses(bar) THEN run
    ELSE [run EXCEPT !.position = ExitPosition(bar, signal, candidate.slip, at)]

-----------------------------------------------------------------------------
(* _simulate_scalping_fast *)

FastClose(run, price, reason, at) ==
    Record(run, Gain(run.position, PositionParts, price), FeeOf(run.position, PositionParts) * 2,
           price, reason, at)

FastStep(run, bar, signal, at) ==
    LET position == run.position
        stop == Beyond(position, -candidate.stop)
        take == Beyond(position, candidate.take)
        Fill(level) == Left(level, position.direction, candidate.slip)
    IN  IF position = NoPosition
        THEN IF signal = 0 THEN run
             ELSE [run EXCEPT !.position = [direction |-> signal, at |-> at,
                        entry |-> Entered(Price(bar.close), signal, candidate.slip)]]
        ELSE IF StopReached(bar, position.direction, stop)
             THEN FastClose(run, Fill(stop), "stop_loss", at)
        ELSE IF TakeReached(bar, position.direction, take)
             THEN FastClose(run, Fill(take), "take_profit", at)
        ELSE run

-----------------------------------------------------------------------------
(* _simulate_fast of the novel combos: no slippage, and an opposite signal *)
(* closes at the close of the candle.                                      *)

NovelStep(run, bar, signal, at) ==
    LET position == run.position
        stop == Beyond(position, -candidate.stop)
        take == Beyond(position, candidate.take)
    IN  IF position = NoPosition
        THEN IF signal = 0 THEN run
             ELSE [run EXCEPT !.position = [direction |-> signal, at |-> at,
                                            entry |-> Price(bar.close)]]
        ELSE IF StopReached(bar, position.direction, stop)
             THEN FastClose(run, stop, "stop_loss", at)
        ELSE IF TakeReached(bar, position.direction, take)
             THEN FastClose(run, take, "take_profit", at)
        ELSE IF signal = -position.direction
             THEN FastClose(run, Price(bar.close), "opposite_signal", at)
        ELSE run

-----------------------------------------------------------------------------
NextCandle ==
    /\ ~finished /\ Len(market) < MaxBars
    /\ \E bar \in SearchBars, signal \in {-1, 0, 1} :
         LET at == Len(market) + 1
         IN  /\ market' = Append(market, bar)
             /\ exitRun' = ExitStep(exitRun, bar, signal, at)
             /\ fastRun' = FastStep(fastRun, bar, signal, at)
             /\ novelRun' = NovelStep(novelRun, bar, signal, at)
             /\ opposed' = (opposed \/ (/\ Len(novelRun'.trades) > Len(novelRun.trades)
                                        /\ Last(novelRun'.trades).reason = "opposite_signal"))
    /\ UNCHANGED <<candidate, finished>>

(* end_of_data: an open position is closed at the last close *)
EndOfData ==
    LET close == Price(Last(market).close)
        Fill(run) == Left(close, run.position.direction, candidate.slip)
    IN  /\ ~finished /\ market # <<>>
        /\ exitRun' = IF exitRun.position = NoPosition THEN exitRun
                      ELSE ClosePosition(exitRun, exitRun.position, Fill(exitRun),
                                         "end_of_data", Len(market))
        /\ fastRun' = IF fastRun.position = NoPosition THEN fastRun
                      ELSE FastClose(fastRun, Fill(fastRun), "end_of_data", Len(market))
        /\ novelRun' = IF novelRun.position = NoPosition THEN novelRun
                       ELSE FastClose(novelRun, close, "end_of_data", Len(market))
        /\ finished' = TRUE
        /\ UNCHANGED <<candidate, market, opposed>>

SearchNext == NextCandle \/ EndOfData

-----------------------------------------------------------------------------
Sum(run, field) == FoldLeft(LAMBDA total, t : total + t[field], 0, run.trades)

(* The first candle that gives a trade a reason to end, by the whole       *)
(* history of its candles.                                                 *)
LeavesInTime(t) ==
    LET Stop(k) == IF candidate.kind = "atr" THEN AtrStop(market[k]) ELSE candidate.stop
        Take(k) == IF candidate.kind = "atr" THEN AtrTake(market[k]) ELSE candidate.take
        Trails == candidate.kind \in {"trailing", "partial_trailing"}
        Stopped(k) == StopReached(market[k], t.direction, Beyond(t, -Stop(k)))
        Taken(k) == TakeReached(market[k], t.direction, Beyond(t, Take(k)))
        Expired(k) == candidate.kind = "time" /\ k - t.from >= candidate.hold
        reached == {k \in (t.from + 1)..t.to : Taken(k)}
        Best(k) == t.direction *
            Max({t.direction * InFavour(market[j], t.direction) : j \in Min(reached)..k})
        Trailed(k) == /\ Trails /\ reached # {} /\ k > Min(reached)
                      /\ StopReached(market[k], t.direction,
                                     Percent(Best(k), -t.direction * candidate.trail))
        Leaves(k) == Stopped(k) \/ Expired(k) \/ Trailed(k) \/ (~Trails /\ Taken(k))
    IN  /\ \A k \in (t.from + 1)..(t.to - 1) : ~Leaves(k)
        /\ CASE t.reason = "stop_loss" -> Stopped(t.to) /\ ~Expired(t.to)
             [] t.reason = "take_profit" -> Taken(t.to) /\ ~Stopped(t.to) /\ ~Expired(t.to)
             [] t.reason = "time_exit" -> t.to - t.from = candidate.hold
             [] t.reason = "end_of_data" ->
                    t.to = Len(market) /\ (t.from = t.to \/ ~Leaves(t.to))
             [] OTHER -> Trailed(t.to) /\ ~Stopped(t.to)

(* The simulators of the searches keep their books whatever exits a trade  *)
(* goes through: the equity is the sum of the trades, every trade pays the *)
(* fee of its entry and of all its parts once, a trade ends at its first   *)
(* reason and a candle that reaches stop and target counts as a loss, a    *)
(* trade left at a level loses no more than its stop; and the simulators   *)
(* agree where they mean the same: the fixed exit without a filter with    *)
(* the fast simulator, and that one with the novel simulator while no      *)
(* opposite signal closed a position.                                      *)
SearchesReconcile ==
    /\ \A run \in {exitRun, fastRun, novelRun} :
         /\ run.equity = Sum(run, "gross") - Sum(run, "fee")
         /\ \A i \in DOMAIN run.trades : run.trades[i].fee = 2 * FeeOf(run.trades[i], PositionParts)
         /\ \A i \in 2..Len(run.trades) : run.trades[i - 1].to < run.trades[i].from
         /\ finished => run.position = NoPosition
    /\ \A i \in DOMAIN exitRun.trades :
         LET t == exitRun.trades[i]
         IN  /\ LeavesInTime(t)
             /\ t.reason \in {"time_exit", "end_of_data"} \/
                t.gross >= Gain(t, PositionParts, Left(Beyond(t, -candidate.maxStop), t.direction,
                                               candidate.slip))
    /\ candidate.kind = "fixed" /\ {candidate.minAtr, candidate.minRange, candidate.minVolume} = {0} =>
         /\ exitRun.trades = fastRun.trades
         /\ exitRun.equity = fastRun.equity
    /\ candidate.slip = 0 /\ ~opposed => fastRun = novelRun
=============================================================================
