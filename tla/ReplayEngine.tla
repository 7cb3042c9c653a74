---------------------------- MODULE ReplayEngine ----------------------------
(***************************************************************************)
(* The three backtest engines of scheduler_driven_scalping_backtest.py on  *)
(* one market: a single candidate, the four-hour selector, and the daily   *)
(* selector, which may also close a position on the opposite signal of the *)
(* strategy that is active now.                                            *)
(*                                                                         *)
(* A step is one candle: selection at a boundary, then the open position,  *)
(* then a new entry.  Prices are ticks around zero, the quantity is one,   *)
(* and fee, slippage, take profit and stop loss are distances in ticks.    *)
(* The signal of a candle is what the guarded signal generator of the      *)
(* candidate asked for would say; an engine asks one candidate per candle  *)
(* at most.                                                                *)
(***************************************************************************)
EXTENDS DailySelector, FiniteSets

CONSTANTS
    Start,            \* index of the first candle that may trade
    Bars,             \* bound: candles from start_at to end_at
    SelectionBars,    \* candles between two boundaries of the selectors
    DayBars,          \* candles of a guard's day
    Candles,          \* what a candle may be: low, high, close
    TakeProfit, StopLoss, Fee, Slippage,
    InitialEquity,
    MaxHolding,       \* for each candidate: max_holding_bars or None
    MinBetween, MaxDaily, MaxLosses, PauseBars, MaxDrawdown, MaxDailyLoss,
    Traded            \* the candidate of the single engine

ASSUME ReplayAssumption ==
    /\ {Start, Bars, SelectionBars, DayBars} \subseteq Nat \ {0}
    /\ {Fee, Slippage, MinBetween, MaxDaily, MaxLosses, PauseBars} \subseteq Nat
    /\ {TakeProfit, StopLoss, InitialEquity, MaxDrawdown, MaxDailyLoss} \subseteq Nat
    /\ \A s \in Strategies : MaxHolding[s] \in Optional(Nat \ {0})
    /\ \A c \in Candles :
        {c.low, c.close, c.high} \subseteq Int /\ c.low =< c.close /\ c.close =< c.high
    /\ Traded \in Strategies
    /\ \A i \in 0..(Bars - 1) : i % SelectionBars = 0 => i \div SelectionBars \in Boundaries

Engines == {"single", "regime", "daily"}
Policies == {"entry_owner_only", "active_strategy_opposite"}
Directions == {"LONG", "SHORT"}
End == Start + Bars

(* BacktestPosition and BacktestTrade. *)
Positions ==
    [owner : Strategies, direction : Directions, opened : Start..End,
     entry : Int, take_profit : Int, stop_loss : Int, max_holding : Optional(Nat)]

TradeRecords ==
    [owner : Strategies, opened : Start..End, closed : Start..End, net : Int,
     reason : {"stop_loss", "take_profit", "max_holding_time",
               "active_strategy_opposite_signal", "end_of_data"}]

ASSUME NoRecordAssumption == None \notin Positions /\ None \notin TradeRecords

VARIABLES
    index,      \* the next candle
    policy,     \* position_exit_policy of the daily engine
    engine,     \* what each engine keeps
    steady      \* history: the selecting engines that only ever had Traded to enter with

vars == <<index, policy, engine, steady>>

-----------------------------------------------------------------------------
(* DefensiveGuard *)

NewGuard ==
    [last_entry |-> None, pause_until |-> -1, losses |-> 0, day_count |-> 0,
     day_start |-> 0, day_equity |-> InitialEquity, peak |-> InitialEquity]

(* What allows_entry updates whether it allows or not. *)
Rolled(g, i, equity) ==
    LET day == IF i - g.day_start >= DayBars
               THEN [g EXCEPT !.day_start = i, !.day_equity = equity,
                              !.day_count = 0, !.losses = 0]
               ELSE g
    IN  [day EXCEPT !.peak = IF @ < equity THEN equity ELSE @]

(* What allows_entry then decides.  Ratios are compared as products. *)
Allows(g, i, equity) ==
    /\ i >= g.pause_until
    /\ g.last_entry # None => i - g.last_entry >= MinBetween
    /\ g.day_count < MaxDaily
    /\ g.losses < MaxLosses
    /\ g.peak > 0 => (g.peak - equity) * 100 < MaxDrawdown * g.peak
    /\ g.day_equity > 0 => (equity - g.day_equity) * 100 > -MaxDailyLoss * g.day_equity

RecordEntry(g, i) == [g EXCEPT !.last_entry = i, !.day_count = @ + 1]

RecordTrade(g, i, net, equity) ==
    LET counted == IF net >= 0 THEN [g EXCEPT !.losses = 0]
                   ELSE [g EXCEPT !.losses = @ + 1,
                                  !.pause_until = IF PauseBars > 0 THEN i + PauseBars ELSE @]
    IN  IF i - g.day_start >= DayBars
        THEN [counted EXCEPT !.day_start = i, !.day_equity = equity, !.day_count = 0]
        ELSE counted

-----------------------------------------------------------------------------
(* Positions *)

Sign(direction) == IF direction = "LONG" THEN 1 ELSE -1

EntryFill(price, direction) == price + Sign(direction) * Slippage
ExitFill(price, direction) == price - Sign(direction) * Slippage

OpenPosition(s, candle, direction, i) ==
    [owner |-> s, direction |-> direction, opened |-> i,
     entry |-> EntryFill(candle.close, direction),
     take_profit |-> candle.close + Sign(direction) * TakeProfit,
     stop_loss |-> candle.close - Sign(direction) * StopLoss,
     max_holding |-> MaxHolding[s]]

CloseTrade(position, price, reason, i) ==
    LET exit == ExitFill(price, position.direction) IN
    [owner |-> position.owner, opened |-> position.opened, closed |-> i, reason |-> reason,
     net |-> Sign(position.direction) * (exit - position.entry) - 2 * Fee]

(* maybe_close_position: the stop before the target, both before the time. *)
MaybeClose(position, candle, i) ==
    LET long == position.direction = "LONG"
        stopped == IF long THEN candle.low =< position.stop_loss
                   ELSE candle.high >= position.stop_loss
        reached == IF long THEN candle.high >= position.take_profit
                   ELSE candle.low =< position.take_profit
        expired == /\ position.max_holding # None
                   /\ i - position.opened >= position.max_holding
    IN  IF stopped THEN CloseTrade(position, position.stop_loss, "stop_loss", i)
        ELSE IF reached THEN CloseTrade(position, position.take_profit, "take_profit", i)
        ELSE IF expired THEN CloseTrade(position, candle.close, "max_holding_time", i)
        ELSE None

(* Variant: the guard of the active strategy is told of the trade. *)
RecordClosedActive(e, trade, i) ==
    LET equity == e.equity + trade.net
        told == IF e.selection # None /\ e.selection.active # None
                THEN e.selection.active ELSE trade.owner
    IN  [e EXCEPT !.position = None, !.equity = equity, !.trades = Append(@, trade),
                  !.guard[told] = RecordTrade(@, i, trade.net, equity)]

(* _record_replay_closed_trade: the owner's guard is told. *)
RecordClosed(e, trade, i) ==
    LET equity == e.equity + trade.net IN
    [e EXCEPT !.position = None, !.equity = equity, !.trades = Append(@, trade),
              !.guard[trade.owner] = RecordTrade(@, i, trade.net, equity)]

(* allows_entry, then the trade execution of the candidate. *)
TryEntry(e, s, candle, signal, i) ==
    LET rolled == [e EXCEPT !.guard[s] = Rolled(@, i, e.equity)] IN
    IF signal \in Directions /\ Allows(rolled.guard[s], i, e.equity)
    THEN [rolled EXCEPT !.position = OpenPosition(s, candle, signal, i),
                        !.guard[s] = RecordEntry(@, i)]
    ELSE rolled

-----------------------------------------------------------------------------
(* The loops *)

NewEngine ==
    [position |-> None, equity |-> InitialEquity, guard |-> [s \in Strategies |-> NewGuard],
     trades |-> <<>>, selection |-> None, exposure |-> 0, error |-> None]

(* run_scheduler_driven_backtest *)
SingleStep(e, candle, signal, i) ==
    IF e.position # None
    THEN LET trade == MaybeClose(e.position, candle, i)
         IN  IF trade = None THEN e ELSE RecordClosed(e, trade, i)
    ELSE IF i >= End THEN e
    ELSE TryEntry(e, Traded, candle, signal, i)

(* Where a selector decides: the candle closes on a boundary before end_at. *)
AtBoundary(i) == i < End /\ (i - Start) % SelectionBars = 0

Boundary(i) == (i - Start) \div SelectionBars

RegimeCommand(i, artifact, assignment) ==
    [boundary |-> Boundary(i), artifact |-> artifact, assignment |-> assignment]

DailyCommand(i, artifact, reading) ==
    [boundary |-> Boundary(i), artifact |-> artifact, reading |-> reading]

(* run_selection on the replay's own repository, or the error it ends with. *)
Selected(e, error, state) ==
    IF error = None THEN [e EXCEPT !.selection = state] ELSE [e EXCEPT !.error = error]

(* A candidate that may enter now. *)
Entering(e) ==
    IF e.selection # None /\ e.selection.entries THEN {e.selection.active} ELSE {}

(* Variant: the loop falls through to the entry after a close. *)
RegimeStepActive(e, candle, signal, i) ==
    IF e.position # None
    THEN LET trade == MaybeClose(e.position, candle, i)
             free == IF trade = None THEN e ELSE RecordClosed(e, trade, i)
         IN  IF trade # None /\ i < End /\ Entering(free) # {}
             THEN TryEntry(free, free.selection.active, candle, signal, i) ELSE free
    ELSE IF i < End /\ Entering(e) # {}
    THEN TryEntry(e, e.selection.active, candle, signal, i)
    ELSE e

(* run_scheduler_driven_regime_backtest, after the selection. *)
RegimeStep(e, candle, signal, i) ==
    IF e.position # None
    THEN LET trade == MaybeClose(e.position, candle, i)
         IN  IF trade = None THEN e ELSE RecordClosed(e, trade, i)
    ELSE IF i < End /\ Entering(e) # {}
    THEN TryEntry(e, e.selection.active, candle, signal, i)
    ELSE e

(* The exit-only evaluation of the active strategy. *)
OppositeExit(e, candle, signal, i) ==
    IF /\ policy = "active_strategy_opposite"
       /\ e.selection # None /\ e.selection.active # None
       /\ signal \in Directions /\ signal # e.position.direction
    THEN CloseTrade(e.position, candle.close, "active_strategy_opposite_signal", i)
    ELSE None

(* Variant: only candles that leave the position open count as exposure. *)
DailyStepUncounted(e, candle, signal, i) ==
    IF e.position # None
    THEN LET owners == MaybeClose(e.position, candle, i)
             trade == IF owners = None THEN OppositeExit(e, candle, signal, i) ELSE owners
         IN  IF trade = None THEN [e EXCEPT !.exposure = @ + 1] ELSE RecordClosed(e, trade, i)
    ELSE IF i < End /\ Entering(e) # {}
    THEN TryEntry(e, e.selection.active, candle, signal, i)
    ELSE e

(* _run_scheduler_driven_daily_regime_backtest, after the selection. *)
DailyStep(e, candle, signal, i) ==
    IF e.position # None
    THEN LET exposed == [e EXCEPT !.exposure = @ + 1]
             owners == MaybeClose(e.position, candle, i)
             trade == IF owners = None THEN OppositeExit(e, candle, signal, i) ELSE owners
         IN  IF trade = None THEN exposed ELSE RecordClosed(exposed, trade, i)
    ELSE IF i < End /\ Entering(e) # {}
    THEN TryEntry(e, e.selection.active, candle, signal, i)
    ELSE e

(* _force_close_replay_position: what is open at the end is closed at its price. *)
ForceClose(e, candle, i) ==
    IF i < End \/ e.position = None THEN e
    ELSE RecordClosed(e, CloseTrade(e.position, candle.close, "end_of_data", i), i)

(* The single engine does the same without telling its guard. *)
SingleForceClose(e, candle, i) == [ForceClose(e, candle, i) EXCEPT !.guard = e.guard]

-----------------------------------------------------------------------------
Init ==
    /\ index = Start
    /\ policy \in Policies
    /\ engine = [x \in Engines |-> NewEngine]
    /\ steady = {"regime", "daily"}

(* One candle for all engines; an engine that failed stays where it is. *)
Step(regime, daily, candle, signal) ==
    LET single == engine["single"] IN
    /\ engine' =
        [single |-> SingleForceClose(SingleStep(single, candle, signal, index), candle, index),
         regime |-> IF regime.error # None THEN regime
                    ELSE ForceClose(RegimeStep(regime, candle, signal, index), candle, index),
         daily |-> IF daily.error # None THEN daily
                   ELSE ForceClose(DailyStep(daily, candle, signal, index), candle, index)]
    /\ index' = index + 1
    /\ steady' = {x \in steady : Entering(IF x = "regime" THEN regime ELSE daily) = {Traded}}
    /\ UNCHANGED policy

Candle(candle, signal) ==
    /\ index =< End
    /\ ~AtBoundary(index)
    /\ Step(engine["regime"], engine["daily"], candle, signal)

BoundaryCandle(candle, signal, artifact, assignment, reading) ==
    LET r == engine["regime"]
        d == engine["daily"]
        four == RegimeCommand(index, artifact, assignment)
        day == DailyCommand(index, artifact, reading)
    IN
    /\ index =< End
    /\ AtBoundary(index)
    /\ CommandValid(r.selection, four) /\ AssignmentFits(four)
    /\ Step(Selected(r, ExecuteError(r.selection, four), Execute(r.selection, four).state),
            Selected(d, DailyError(d.selection, day), DailyExecute(d.selection, day).state),
            candle, signal)

Next ==
    \E candle \in Candles, signal \in Directions \union {"WAIT"} :
        \/ Candle(candle, signal)
        \/ \E artifact \in Artifacts, assignment \in Assignments,
              reading \in Assignments \union Failures :
                BoundaryCandle(candle, signal, artifact, assignment, reading)

Spec == Init /\ [][Next]_vars

-----------------------------------------------------------------------------
(* Properties *)

(* Every engine keeps a position or none, trades of known strategies and the  *)
(* guards of its candidates (BacktestPosition, BacktestTrade).                *)
TypeOK ==
    /\ index \in Start..(End + 1)
    /\ policy \in Policies
    /\ steady \subseteq {"regime", "daily"}
    /\ \A x \in Engines :
        LET e == engine[x] IN
        /\ e.position \in Optional(Positions)
        /\ e.trades \in Seq(TradeRecords)
        /\ e.equity \in Int
        /\ e.selection \in Optional(States)
        /\ \A s \in Strategies :
            /\ e.guard[s].last_entry \in Optional(Start..End)
            /\ e.guard[s].day_count \in 0..MaxDaily
            /\ e.guard[s].losses \in 0..Bars

(* Entries and closed trades of an engine, as far as the candles went. *)
Opened(e) ==
    [k \in DOMAIN e.trades |-> [owner |-> e.trades[k].owner, at |-> e.trades[k].opened]]
    \o (IF e.position = None THEN <<>>
        ELSE <<[owner |-> e.position.owner, at |-> e.position.opened]>>)

(* The candles each trade and the open position were held before candle n;     *)
(* how many there are is the sum of their holding bars.                       *)
Held(e, n) ==
    {p \in (DOMAIN e.trades) \X (Start..End) :
        e.trades[p[1]].opened < p[2] /\ p[2] =< e.trades[p[1]].closed}
    \union
    {p \in {Len(e.trades) + 1} \X (Start..End) :
        e.position # None /\ e.position.opened < p[2] /\ p[2] < n}

(* The candles counted as exposure are the candles the trades and the open    *)
(* position were held: the daily engine raises "position holding bars do not  *)
(* reconcile" only after the whole replay.                                    *)
ExposureReconciles == Cardinality(Held(engine["daily"], index)) = engine["daily"].exposure

(* A guard follows its own strategy through any number of switches: entries   *)
(* of one strategy keep their distance and none falls into the pause after a  *)
(* loss of that strategy, whichever strategy is active when the loss is       *)
(* booked; a guard's day admits MaxDaily entries (DefensiveGuard).            *)
GuardsHold ==
    \A x \in Engines :
        LET e == engine[x]
            opened == Opened(e)
        IN
        /\ \A j, k \in DOMAIN opened :
            (j < k /\ opened[j].owner = opened[k].owner)
                => opened[k].at - opened[j].at >= MinBetween
        /\ \A j \in DOMAIN e.trades, k \in DOMAIN opened :
            (e.trades[j].net < 0 /\ e.trades[j].owner = opened[k].owner
                /\ opened[k].at > e.trades[j].closed)
                => opened[k].at - e.trades[j].closed >= PauseBars
        /\ \A s \in Strategies :
            Cardinality({k \in DOMAIN opened :
                opened[k].owner = s /\ opened[k].at >= e.guard[s].day_start}) =< MaxDaily

(* One position at a time, kept by the strategy that opened it: it is held at *)
(* most as long as that strategy allows, a candle that closes a position      *)
(* opens none, none is opened on the last candle, and only the opposite-exit  *)
(* policy of the daily engine lets the active strategy close it.              *)
TradesAreOwned ==
    \A x \in Engines :
        LET e == engine[x]
            opened == Opened(e)
        IN
        /\ \A k \in DOMAIN e.trades :
            LET trade == e.trades[k] IN
            /\ trade.opened < trade.closed
            /\ MaxHolding[trade.owner] # None
                => trade.closed - trade.opened =< MaxHolding[trade.owner]
            /\ trade.reason = "active_strategy_opposite_signal"
                => x = "daily" /\ policy = "active_strategy_opposite"
            /\ k < Len(opened) => trade.closed < opened[k + 1].at
        /\ \A k \in DOMAIN opened : opened[k].at < End

(* The trades of every engine are ones its guards and its owner allow.        *)
TradesAreAllowed == GuardsHold /\ TradesAreOwned

(* The three loops are written out separately.  As long as a selecting engine *)
(* has had nothing but Traded to enter with, it has made the trades of the    *)
(* single engine, the daily one under entry_owner_only.                       *)
EnginesAgree ==
    \A x \in steady :
        (x = "daily" => policy = "entry_owner_only") =>
            /\ engine[x].trades = engine["single"].trades
            /\ engine[x].position = engine["single"].position
            /\ engine[x].equity = engine["single"].equity

(* Neither selector ever builds a state, or an order of events, that its own  *)
(* records refuse: on boundaries that increase no replay is cut short.        *)
SelectionNeverFails ==
    \A x \in Engines : engine[x].error = None

(* No replay is cut short, and each accounts for every candle it held.        *)
ReplaysReconcile == TypeOK /\ ExposureReconciles /\ SelectionNeverFails
=============================================================================
