------------------------- MODULE ReplayEngine_proofs -------------------------
(***************************************************************************)
(* The replay engines, proved for any candles, any signals, any number of  *)
(* candidates, any settings of the guards and any readings of the models.  *)
(*                                                                         *)
(* An engine is a record, and a candle does one of three things to it: it  *)
(* rests, it closes its position, or it tries an entry (Outcome).  Each of *)
(* these keeps what the engine has recorded (RecordOK): the entries it has *)
(* made keep their distance, and each guard remembers what it needs of its *)
(* own strategy's entries and losses (GuardKnows).                         *)
(***************************************************************************)
EXTENDS ReplayEngine, RegimeSelector_proofs, FiniteSetTheorems

Guards ==
    [last_entry : Optional(Nat), pause_until : Int, losses : Nat, day_count : Nat,
     day_start : Nat, day_equity : Int, peak : Int]

EngineRecords ==
    [position : Optional(Positions), equity : Int, guard : [Strategies -> Guards],
     trades : Seq(TradeRecords), selection : Optional(States), exposure : Nat, error : {None}]

Entries == [owner : Strategies, at : Start..End]

-----------------------------------------------------------------------------
(* What an engine has recorded before candle n *)

(* The open position is younger than its owner allows it to get. *)
PositionKept(p, n) ==
    /\ p.opened < n /\ p.opened < End
    /\ p.max_holding = MaxHolding[p.owner]
    /\ p.max_holding # None => n - 1 - p.opened < p.max_holding

TradeKept(trade, n) ==
    /\ trade.opened < trade.closed /\ trade.closed < n
    /\ MaxHolding[trade.owner] # None
        => trade.closed - trade.opened =< MaxHolding[trade.owner]

(* o: the entries, in order. *)
EntriesKept(o, n) ==
    /\ \A k \in DOMAIN o : o[k].at < n /\ o[k].at < End
    /\ \A j, k \in DOMAIN o :
        (j < k /\ o[j].owner = o[k].owner) => o[k].at - o[j].at >= MinBetween

(* Entries after a loss wait for the pause, and follow the trade before. *)
TradesBefore(o, t) ==
    /\ \A j \in DOMAIN t, k \in DOMAIN o :
        (t[j].net < 0 /\ t[j].owner = o[k].owner /\ o[k].at > t[j].closed)
            => o[k].at - t[j].closed >= PauseBars
    /\ \A k \in DOMAIN t : k < Len(o) => t[k].closed < o[k + 1].at

(* Entries of s in the day of its guard. *)
Today(o, s, day_start) == {k \in DOMAIN o : o[k].owner = s /\ o[k].at >= day_start}

DayCounted(g, o, s) ==
    /\ IsFiniteSet(Today(o, s, g.day_start))
    /\ Cardinality(Today(o, s, g.day_start)) =< g.day_count
    /\ g.day_count =< MaxDaily

(* What the guard of s remembers.  A position that is closed because the data *)
(* end is not told to the guard of the single engine.                         *)
GuardKnows(g, o, t, s, n) ==
    /\ \A k \in DOMAIN o : o[k].owner = s
        => g.last_entry # None /\ o[k].at =< g.last_entry
    /\ g.last_entry # None => g.last_entry \in Start..End
    /\ \A j \in DOMAIN t : (t[j].owner = s /\ t[j].net < 0 /\ t[j].closed < End)
        => PauseBars = 0 \/ g.pause_until >= t[j].closed + PauseBars
    /\ g.losses =< (IF n > Start THEN n - 1 - Start ELSE 0)
    /\ g.day_start < n
    /\ DayCounted(g, o, s)

RecordOK(e, n) ==
    /\ e \in EngineRecords
    /\ e.position # None => PositionKept(e.position, n)
    /\ \A k \in DOMAIN e.trades : TradeKept(e.trades[k], n)
    /\ EntriesKept(Opened(e), n)
    /\ TradesBefore(Opened(e), e.trades)
    /\ \A s \in Strategies : GuardKnows(e.guard[s], Opened(e), e.trades, s, n)

(* The reasons an engine may close a position for. *)
Reasons(x, exits) ==
    {"stop_loss", "take_profit", "max_holding_time", "end_of_data"}
        \union (IF x = "daily" /\ exits = "active_strategy_opposite"
                THEN {"active_strategy_opposite_signal"} ELSE {})

ReasonsOK(e, reasons) == \A k \in DOMAIN e.trades : e.trades[k].reason \in reasons

-----------------------------------------------------------------------------
(* Types *)

LEMMA ReplayTypes ==
    /\ Start \in Nat /\ Start > 0 /\ Bars \in Nat /\ Bars > 0 /\ End \in Nat /\ End > Start
    /\ SelectionBars \in Nat /\ SelectionBars > 0 /\ DayBars \in Nat /\ DayBars > 0
    /\ Fee \in Nat /\ Slippage \in Nat /\ MinBetween \in Nat /\ MaxDaily \in Nat
    /\ MaxLosses \in Nat /\ PauseBars \in Nat /\ TakeProfit \in Nat /\ StopLoss \in Nat
    /\ InitialEquity \in Nat
    /\ Traded \in Strategies
    /\ \A s \in Strategies : MaxHolding[s] \in Optional(Nat)
    /\ \A s \in Strategies : MaxHolding[s] # None => MaxHolding[s] > 0
    /\ \A c \in Candles : c.low \in Int /\ c.close \in Int /\ c.high \in Int
BY ReplayAssumption DEF End, Optional

LEMMA EntriesOfRecord ==
    ASSUME NEW e \in EngineRecords
    PROVE  /\ Opened(e) \in Seq(Entries)
           /\ Len(e.trades) \in Nat /\ DOMAIN e.trades = 1..Len(e.trades)
           /\ e.position = None => Len(Opened(e)) = Len(e.trades)
           /\ e.position # None => Len(Opened(e)) = Len(e.trades) + 1
           /\ \A k \in 1..Len(e.trades) :
                Opened(e)[k] = [owner |-> e.trades[k].owner, at |-> e.trades[k].opened]
           /\ e.position # None =>
                Opened(e)[Len(e.trades) + 1]
                    = [owner |-> e.position.owner, at |-> e.position.opened]
<1> DEFINE t == e.trades
           past == [k \in DOMAIN t |-> [owner |-> t[k].owner, at |-> t[k].opened]]
           now == [owner |-> e.position.owner, at |-> e.position.opened]
           o == IF e.position = None THEN <<>> ELSE <<now>>
<1>1. t \in Seq(TradeRecords) /\ DOMAIN t = 1..Len(t) /\ Len(t) \in Nat
  BY DEF EngineRecords
<1>2. ASSUME NEW k \in 1..Len(t)
      PROVE  t[k].owner \in Strategies /\ t[k].opened \in Start..End
  <2>1. t[k] \in TradeRecords
    BY <1>1
  <2> QED
    BY <2>1 DEF TradeRecords
<1>3. past \in Seq(Entries) /\ Len(past) = Len(t)
        /\ \A k \in 1..Len(t) : past[k] = [owner |-> t[k].owner, at |-> t[k].opened]
  BY <1>1, <1>2 DEF Entries
<1>4. CASE e.position = None
  <2>1. Opened(e) = past \o <<>>
    BY <1>4 DEF Opened
  <2>2. past \o <<>> = past
    BY <1>3, ConcatEmptySeq
  <2> QED
    BY <1>1, <1>3, <1>4, <2>1, <2>2
<1>5. CASE e.position # None
  <2>1. e.position \in Positions
    BY <1>5 DEF EngineRecords, Optional
  <2>2. now \in Entries
    BY <2>1 DEF Positions, Entries
  <2>3. Opened(e) = past \o <<now>>
    BY <1>5 DEF Opened
  <2> HIDE DEF past, now
  <2>4. <<now>> \in Seq(Entries) /\ Len(<<now>>) = 1 /\ <<now>>[1] = now
    BY <2>2
  <2>5. /\ past \o <<now>> \in Seq(Entries)
        /\ Len(past \o <<now>>) = Len(past) + 1
        /\ \A k \in 1..Len(past) : (past \o <<now>>)[k] = past[k]
        /\ (past \o <<now>>)[Len(past) + 1] = now
    BY <1>3, <2>4, ConcatProperties, LenProperties
  <2> QED
    BY <1>1, <1>3, <1>5, <2>3, <2>5 DEF now
<1> QED
  BY <1>4, <1>5

-----------------------------------------------------------------------------
(* The guards *)

LEMMA GuardTypes ==
    ASSUME NEW g \in Guards, NEW i \in Nat, NEW equity \in Int, NEW net \in Int
    PROVE  /\ NewGuard \in Guards
           /\ Rolled(g, i, equity) \in Guards
           /\ RecordEntry(g, i) \in Guards
           /\ RecordTrade(g, i, net, equity) \in Guards
<1> USE ReplayTypes DEF Guards, Optional
<1>1. NewGuard \in Guards
  BY DEF NewGuard
<1>2. Rolled(g, i, equity) \in Guards
  BY DEF Rolled
<1>3. RecordEntry(g, i) \in Guards
  <2>1. g.day_count + 1 \in Nat /\ i \in Optional(Nat)
    OBVIOUS
  <2> QED
    BY <2>1 DEF RecordEntry
<1>4. RecordTrade(g, i, net, equity) \in Guards
  <2> DEFINE counted == IF net >= 0 THEN [g EXCEPT !.losses = 0]
                        ELSE [g EXCEPT !.losses = @ + 1,
                                       !.pause_until = IF PauseBars > 0 THEN i + PauseBars ELSE @]
  <2>1. /\ g.losses + 1 \in Nat /\ g.pause_until \in Int /\ i + PauseBars \in Int
        /\ 0 \in Nat
    OBVIOUS
  <2>2. counted \in Guards
    BY <2>1
  <2>3. RecordTrade(g, i, net, equity) =
            IF i - g.day_start >= DayBars
            THEN [counted EXCEPT !.day_start = i, !.day_equity = equity, !.day_count = 0]
            ELSE counted
    BY DEF RecordTrade
  <2> HIDE DEF counted
  <2>4. [counted EXCEPT !.day_start = i, !.day_equity = equity, !.day_count = 0] \in Guards
    BY <2>1, <2>2
  <2> QED
    BY <2>2, <2>3, <2>4
<1> QED
  BY <1>1, <1>2, <1>3, <1>4

(* The fields the guard of a candidate carries over, or starts again. *)
LEMMA RolledFields ==
    ASSUME NEW g \in Guards, NEW i \in Nat, NEW equity \in Int
    PROVE  LET r == Rolled(g, i, equity) IN
           /\ r.last_entry = g.last_entry /\ r.pause_until = g.pause_until
           /\ \/ r.day_start = g.day_start /\ r.day_count = g.day_count /\ r.losses = g.losses
              \/ r.day_start = i /\ r.day_count = 0 /\ r.losses = 0
BY DEF Rolled, Guards

LEMMA RecordEntryFields ==
    ASSUME NEW g \in Guards, NEW i \in Nat
    PROVE  LET r == RecordEntry(g, i) IN
           /\ r.last_entry = i /\ r.day_count = g.day_count + 1
           /\ r.pause_until = g.pause_until /\ r.losses = g.losses
           /\ r.day_start = g.day_start
BY DEF RecordEntry, Guards

LEMMA RecordTradeFields ==
    ASSUME NEW g \in Guards, NEW i \in Nat, NEW net \in Int, NEW equity \in Int
    PROVE  LET r == RecordTrade(g, i, net, equity) IN
           /\ r.last_entry = g.last_entry
           /\ r.losses \in {0, g.losses + 1}
           /\ r.pause_until = g.pause_until \/ r.pause_until = i + PauseBars
           /\ net < 0 /\ PauseBars > 0 => r.pause_until = i + PauseBars
           /\ \/ r.day_start = g.day_start /\ r.day_count = g.day_count
              \/ r.day_start = i /\ r.day_count = 0
BY ReplayTypes DEF RecordTrade, Guards

(* A day that starts after every entry has none. *)
LEMMA NewDayIsEmpty ==
    ASSUME NEW o \in Seq(Entries), NEW s, NEW i \in Nat,
           \A k \in DOMAIN o : o[k].at < i
    PROVE  Today(o, s, i) = {}
<1> SUFFICES ASSUME NEW k \in DOMAIN o, o[k].at >= i
             PROVE  FALSE
  BY DEF Today
<1>1. o[k].at \in Nat
  <2>1. o[k] \in Entries
    OBVIOUS
  <2> QED
    BY <2>1, ReplayTypes DEF Entries
<1> QED
  BY <1>1

(* What a guard knew before a candle it still knows after it, when nothing    *)
(* was entered and nothing closed; also when its day is rolled over.          *)
LEMMA GuardStays ==
    ASSUME NEW g \in Guards, NEW o \in Seq(Entries), NEW t \in Seq(TradeRecords),
           NEW s, NEW i \in Nat, NEW equity \in Int, i >= Start,
           GuardKnows(g, o, t, s, i), EntriesKept(o, i)
    PROVE  /\ GuardKnows(g, o, t, s, i + 1)
           /\ GuardKnows(Rolled(g, i, equity), o, t, s, i + 1)
<1> DEFINE r == Rolled(g, i, equity)
<1>1. r \in Guards /\ g.losses \in Nat /\ g.day_start \in Nat /\ g.day_count \in Nat
        /\ r.losses \in Nat /\ r.day_start \in Nat /\ r.day_count \in Nat
  BY GuardTypes DEF Guards
<1>2. GuardKnows(g, o, t, s, i + 1)
  BY <1>1, ReplayTypes DEF GuardKnows
<1>3. DayCounted(r, o, s)
  <2>1. CASE r.day_start = g.day_start /\ r.day_count = g.day_count
    BY <2>1 DEF GuardKnows, DayCounted
  <2>2. CASE r.day_start = i /\ r.day_count = 0
    <3>1. Today(o, s, i) = {}
      BY NewDayIsEmpty DEF EntriesKept
    <3> QED
      BY <2>2, <3>1, FS_EmptySet, ReplayTypes DEF DayCounted
  <2> QED
    BY <2>1, <2>2, RolledFields
<1>4. /\ r.last_entry = g.last_entry /\ r.pause_until = g.pause_until
      /\ r.losses = g.losses \/ r.losses = 0
      /\ r.day_start = g.day_start \/ r.day_start = i
  BY RolledFields
<1> HIDE DEF r
<1>5. GuardKnows(r, o, t, s, i + 1)
  BY <1>1, <1>3, <1>4, ReplayTypes DEF GuardKnows
<1> QED
  BY <1>2, <1>5 DEF r

-----------------------------------------------------------------------------
(* The open position *)

LEMMA PositionTypes ==
    ASSUME NEW s \in Strategies, NEW candle \in Candles, NEW direction \in Directions,
           NEW i \in Start..End
    PROVE  LET p == OpenPosition(s, candle, direction, i) IN
           /\ p \in Positions /\ p # None
           /\ p.owner = s /\ p.opened = i /\ p.max_holding = MaxHolding[s]
<1>1. /\ EntryFill(candle.close, direction) \in Int
      /\ candle.close + Sign(direction) * TakeProfit \in Int
      /\ candle.close - Sign(direction) * StopLoss \in Int
  BY ReplayTypes DEF EntryFill, Sign
<1>2. MaxHolding[s] \in Optional(Nat)
  BY ReplayTypes
<1>3. OpenPosition(s, candle, direction, i) \in Positions
  BY <1>1, <1>2 DEF OpenPosition, Positions
<1> QED
  BY <1>3, NoRecordAssumption DEF OpenPosition

AllReasons ==
    {"stop_loss", "take_profit", "max_holding_time", "active_strategy_opposite_signal",
     "end_of_data"}

LEMMA TradeTypes ==
    ASSUME NEW p \in Positions, NEW price \in Int, NEW reason \in AllReasons,
           NEW i \in Start..End
    PROVE  LET trade == CloseTrade(p, price, reason, i) IN
           /\ trade \in TradeRecords /\ trade # None
           /\ trade.owner = p.owner /\ trade.opened = p.opened /\ trade.closed = i
           /\ trade.reason = reason
<1>1. Sign(p.direction) * (ExitFill(price, p.direction) - p.entry) - 2 * Fee \in Int
  <2>1. p.entry \in Int /\ Sign(p.direction) \in {1, -1}
    BY DEF Positions, Sign
  <2>2. ExitFill(price, p.direction) \in Int
    BY <2>1, ReplayTypes DEF ExitFill
  <2> QED
    BY <2>1, <2>2, ReplayTypes
<1>2. p.owner \in Strategies /\ p.opened \in Start..End
  BY DEF Positions
<1> DEFINE net == Sign(p.direction) * (ExitFill(price, p.direction) - p.entry) - 2 * Fee
<1>3. CloseTrade(p, price, reason, i) =
        [owner |-> p.owner, opened |-> p.opened, closed |-> i, reason |-> reason, net |-> net]
  BY DEF CloseTrade
<1> HIDE DEF net
<1>4. CloseTrade(p, price, reason, i) \in TradeRecords
  BY <1>1, <1>2, <1>3 DEF TradeRecords, AllReasons, net
<1> QED
  BY <1>3, <1>4, NoRecordAssumption

(* A position that stays open has not reached its limit; one that closes does *)
(* so at a price, for one of the three reasons of its owner.                  *)
LEMMA MaybeCloseOutcomes ==
    ASSUME NEW p \in Positions, NEW candle \in Candles, NEW i \in Start..End
    PROVE  \/ /\ MaybeClose(p, candle, i) = None
              /\ p.max_holding # None => i - p.opened < p.max_holding
           \/ /\ MaybeClose(p, candle, i) # None
              /\ \E price \in Int, reason \in {"stop_loss", "take_profit", "max_holding_time"} :
                    MaybeClose(p, candle, i) = CloseTrade(p, price, reason, i)
<1>1. p.stop_loss \in Int /\ p.take_profit \in Int /\ candle.close \in Int
        /\ p.opened \in Int /\ p.max_holding \in Optional(Nat) /\ i \in Int
  BY ReplayTypes DEF Positions
<1> DEFINE stopped == CloseTrade(p, p.stop_loss, "stop_loss", i)
           reached == CloseTrade(p, p.take_profit, "take_profit", i)
           expired == CloseTrade(p, candle.close, "max_holding_time", i)
           isExpired == p.max_holding # None /\ i - p.opened >= p.max_holding
<1>2. stopped # None /\ reached # None /\ expired # None
  BY <1>1, TradeTypes DEF AllReasons
<1>3. \/ MaybeClose(p, candle, i) \in {stopped, reached}
      \/ MaybeClose(p, candle, i) = expired
      \/ MaybeClose(p, candle, i) = None /\ ~isExpired
  BY DEF MaybeClose
<1>4. \E price \in Int, reason \in {"stop_loss", "take_profit", "max_holding_time"} :
        stopped = CloseTrade(p, price, reason, i)
  BY <1>1
<1>5. \E price \in Int, reason \in {"stop_loss", "take_profit", "max_holding_time"} :
        reached = CloseTrade(p, price, reason, i)
  BY <1>1
<1>6. \E price \in Int, reason \in {"stop_loss", "take_profit", "max_holding_time"} :
        expired = CloseTrade(p, price, reason, i)
  BY <1>1
<1>7. ~isExpired => (p.max_holding # None => i - p.opened < p.max_holding)
  BY <1>1 DEF Optional
<1> HIDE DEF stopped, reached, expired, isExpired
<1> QED
  BY <1>2, <1>3, <1>4, <1>5, <1>6, <1>7

-----------------------------------------------------------------------------
(* What a candle does to an engine *)

Closed(e, trade, guard) ==
    [e EXCEPT !.position = None, !.equity = e.equity + trade.net,
              !.trades = Append(e.trades, trade), !.guard = guard]

Told(e, trade, i) ==
    [e.guard EXCEPT ![trade.owner] = RecordTrade(@, i, trade.net, e.equity + trade.net)]

LEMMA RecordClosedIsClosed ==
    ASSUME NEW e \in EngineRecords, NEW trade, NEW i
    PROVE  RecordClosed(e, trade, i) = Closed(e, trade, Told(e, trade, i))
BY DEF RecordClosed, Closed, Told, EngineRecords

(* Closing moves the open position to the trades and leaves the entries. *)
LEMMA ClosedEntries ==
    ASSUME NEW e \in EngineRecords, e.position # None,
           NEW trade \in TradeRecords, trade.owner = e.position.owner,
           trade.opened = e.position.opened, NEW guard \in [Strategies -> Guards]
    PROVE  LET c == Closed(e, trade, guard) IN
           /\ c \in EngineRecords
           /\ c.position = None /\ c.guard = guard
           /\ c.selection = e.selection /\ c.exposure = e.exposure /\ c.error = e.error
           /\ c.trades = Append(e.trades, trade)
           /\ Opened(c) = Opened(e)
<1> DEFINE c == Closed(e, trade, guard)
<1>1. /\ e.trades \in Seq(TradeRecords) /\ e.equity \in Int /\ trade.net \in Int
      /\ Len(e.trades) \in Nat
  BY DEF EngineRecords, TradeRecords
<1>2. /\ Append(e.trades, trade) \in Seq(TradeRecords)
      /\ Len(Append(e.trades, trade)) = Len(e.trades) + 1
      /\ \A k \in 1..Len(e.trades) : Append(e.trades, trade)[k] = e.trades[k]
      /\ Append(e.trades, trade)[Len(e.trades) + 1] = trade
  BY <1>1, AppendProperties
<1>3. c.position = None /\ c.guard = guard /\ c.trades = Append(e.trades, trade)
        /\ c.selection = e.selection /\ c.exposure = e.exposure /\ c.error = e.error
        /\ c.equity = e.equity + trade.net
  BY DEF Closed, EngineRecords
<1>4. c \in EngineRecords
  <2>1. e.equity + trade.net \in Int
    BY <1>1
  <2> QED
    BY <1>2, <2>1 DEF Closed, EngineRecords, Optional
<1> HIDE DEF c
<1>5. Opened(c) = Opened(e)
  <2>1. Len(c.trades) = Len(e.trades) + 1
    BY <1>2, <1>3
  <2>2. /\ Opened(c) \in Seq(Entries) /\ Opened(e) \in Seq(Entries)
        /\ Len(Opened(c)) = Len(e.trades) + 1 /\ Len(Opened(e)) = Len(e.trades) + 1
    BY <1>1, <1>3, <1>4, <2>1, EntriesOfRecord
  <2>3. ASSUME NEW k \in 1..(Len(e.trades) + 1)
        PROVE  Opened(c)[k] = Opened(e)[k]
    <3>1. Opened(c)[k] = [owner |-> c.trades[k].owner, at |-> c.trades[k].opened]
      BY <1>4, <2>1, EntriesOfRecord
    <3>2. CASE k = Len(e.trades) + 1
      <4>1. c.trades[k] = trade
        BY <1>2, <1>3, <3>2
      <4>2. Opened(e)[k] = [owner |-> e.position.owner, at |-> e.position.opened]
        BY <3>2, EntriesOfRecord
      <4> QED
        BY <3>1, <4>1, <4>2
    <3>3. CASE k # Len(e.trades) + 1
      <4>1. k \in 1..Len(e.trades)
        BY <1>1, <3>3
      <4>2. c.trades[k] = e.trades[k]
        BY <1>2, <1>3, <4>1
      <4>3. Opened(e)[k] = [owner |-> e.trades[k].owner, at |-> e.trades[k].opened]
        BY <4>1, EntriesOfRecord
      <4> QED
        BY <3>1, <4>2, <4>3
    <3> QED
      BY <3>2, <3>3
  <2> QED
    BY <2>2, <2>3, SeqEqual
<1> QED
  BY <1>3, <1>4, <1>5 DEF c

LEMMA LastEntry ==
    ASSUME NEW e \in EngineRecords, e.position # None
    PROVE  LET last == Len(e.trades) + 1 IN
           /\ Len(e.trades) \in Nat
           /\ last \in DOMAIN Opened(e) /\ Len(Opened(e)) = last
           /\ Opened(e)[last].owner = e.position.owner
           /\ Opened(e)[last].at = e.position.opened
           /\ e.position \in Positions
<1>1. e.trades \in Seq(TradeRecords) /\ Len(e.trades) \in Nat
  BY DEF EngineRecords
<1>2. DOMAIN Opened(e) = 1..Len(Opened(e))
  BY EntriesOfRecord, LenProperties
<1>3. /\ Len(Opened(e)) = Len(e.trades) + 1
      /\ Opened(e)[Len(e.trades) + 1]
            = [owner |-> e.position.owner, at |-> e.position.opened]
  BY EntriesOfRecord
<1>4. e.position \in Positions
  BY DEF EngineRecords, Optional
<1> QED
  BY <1>1, <1>2, <1>3, <1>4

LEMMA NumberOfRecord ==
    ASSUME NEW r \in Entries \union TradeRecords
    PROVE  /\ r \in Entries => r.at \in Nat /\ r.at >= Start /\ r.at =< End
           /\ r \in TradeRecords => /\ r.opened \in Nat /\ r.closed \in Nat /\ r.net \in Int
                                    /\ r.closed >= Start /\ r.closed =< End
BY ReplayTypes DEF Entries, TradeRecords

(* The guard of the owner remembers the trade; the others are as they were. *)
LEMMA ToldGuards ==
    ASSUME NEW g \in Guards, NEW o \in Seq(Entries), NEW t \in Seq(TradeRecords),
           NEW s \in Strategies, NEW i \in Start..End, i > Start, NEW equity \in Int,
           NEW trade \in TradeRecords, trade.closed = i,
           GuardKnows(g, o, t, s, i), EntriesKept(o, i),
           \A k \in DOMAIN t : t[k].closed < i
    PROVE  /\ trade.owner = s
                => GuardKnows(RecordTrade(g, i, trade.net, equity), o, Append(t, trade), s, i + 1)
           /\ trade.owner # s \/ i = End => GuardKnows(g, o, Append(t, trade), s, i + 1)
<1> DEFINE a == Append(t, trade)
           r == RecordTrade(g, i, trade.net, equity)
<1>1. /\ Len(t) \in Nat /\ DOMAIN t = 1..Len(t) /\ DOMAIN a = 1..(Len(t) + 1)
      /\ \A k \in 1..Len(t) : a[k] = t[k]
      /\ a[Len(t) + 1] = trade
  BY AppendProperties, LenProperties
<1>2. \A k \in DOMAIN a : k \in DOMAIN t \/ a[k] = trade
  BY <1>1
<1>3. \A k \in DOMAIN t : a[k] = t[k] /\ t[k].closed \in Nat
  <2>1. \A k \in DOMAIN t : t[k] \in TradeRecords
    BY <1>1
  <2> QED
    BY <1>1, <2>1, NumberOfRecord
<1>4. r \in Guards /\ trade.net \in Int /\ i \in Nat /\ i =< End
  BY GuardTypes, NumberOfRecord, ReplayTypes
<1>5. /\ g.losses \in Nat /\ g.day_start \in Nat /\ g.day_count \in Nat /\ g.pause_until \in Int
      /\ r.losses \in Nat /\ r.day_start \in Nat /\ r.day_count \in Nat /\ r.pause_until \in Int
  BY <1>4 DEF Guards
<1> HIDE DEF a
<1>6. ASSUME trade.owner = s
      PROVE  GuardKnows(r, o, a, s, i + 1)
  <2>1. /\ r.last_entry = g.last_entry
        /\ r.losses \in {0, g.losses + 1}
        /\ r.pause_until = g.pause_until \/ r.pause_until = i + PauseBars
        /\ trade.net < 0 /\ PauseBars > 0 => r.pause_until = i + PauseBars
        /\ \/ r.day_start = g.day_start /\ r.day_count = g.day_count
           \/ r.day_start = i /\ r.day_count = 0
    BY <1>4, RecordTradeFields
  <2> HIDE DEF r
  <2>2. DayCounted(r, o, s)
    <3>1. CASE r.day_start = g.day_start /\ r.day_count = g.day_count
      BY <3>1 DEF GuardKnows, DayCounted
    <3>2. CASE r.day_start = i /\ r.day_count = 0
      <4>1. Today(o, s, i) = {}
        BY <1>4, NewDayIsEmpty DEF EntriesKept
      <4> QED
        BY <3>2, <4>1, FS_EmptySet, ReplayTypes DEF DayCounted
    <3> QED
      BY <2>1, <3>1, <3>2
  <2>3. ASSUME NEW j \in DOMAIN a, a[j].owner = s, a[j].net < 0, a[j].closed < End
        PROVE  PauseBars = 0 \/ r.pause_until >= a[j].closed + PauseBars
    <3>1. CASE j \in DOMAIN t
      <4>1. PauseBars = 0 \/ g.pause_until >= t[j].closed + PauseBars
        BY <1>3, <2>3, <3>1 DEF GuardKnows
      <4>2. t[j].closed < i
        BY <3>1
      <4> QED
        BY <1>3, <1>4, <1>5, <2>1, <3>1, <4>1, <4>2, ReplayTypes
    <3>2. CASE a[j] = trade
      BY <1>4, <2>1, <2>3, <3>2, ReplayTypes
    <3> QED
      BY <1>2, <3>1, <3>2
  <2>4. r.losses =< i - Start
    BY <1>4, <1>5, <2>1, ReplayTypes DEF GuardKnows
  <2>5. r.day_start < i + 1
    BY <1>4, <1>5, <2>1 DEF GuardKnows
  <2> QED
    BY <1>4, <2>1, <2>2, <2>3, <2>4, <2>5, ReplayTypes DEF GuardKnows
<1>7. ASSUME trade.owner # s \/ i = End
      PROVE  GuardKnows(g, o, a, s, i + 1)
  <2>1. ASSUME NEW j \in DOMAIN a, a[j].owner = s, a[j].net < 0, a[j].closed < End
        PROVE  PauseBars = 0 \/ g.pause_until >= a[j].closed + PauseBars
    <3>1. j \in DOMAIN t
      BY <1>2, <1>4, <1>7, <2>1, ReplayTypes
    <3> QED
      BY <1>3, <2>1, <3>1 DEF GuardKnows
  <2> QED
    BY <1>4, <1>5, <2>1, ReplayTypes, SMTT(30) DEF GuardKnows
<1> QED
  BY <1>6, <1>7 DEF a, r

LEMMA RecordTypes ==
    ASSUME NEW e \in EngineRecords
    PROVE  /\ \A s \in Strategies : e.guard[s] \in Guards
           /\ e.equity \in Int
           /\ \A k \in DOMAIN e.trades :
                /\ e.trades[k] \in TradeRecords
                /\ e.trades[k].opened \in Nat /\ e.trades[k].closed \in Nat
                /\ e.trades[k].net \in Int /\ e.trades[k].owner \in Strategies
           /\ \A k \in DOMAIN Opened(e) :
                Opened(e)[k].at \in Nat /\ Opened(e)[k].owner \in Strategies
<1>1. \A k \in DOMAIN e.trades : e.trades[k] \in TradeRecords
  BY DEF EngineRecords
<1>2. \A k \in DOMAIN Opened(e) : Opened(e)[k] \in Entries
  <2>1. Opened(e) \in Seq(Entries)
    BY EntriesOfRecord
  <2> QED
    BY <2>1
<1>3. \A s \in Strategies : e.guard[s] \in Guards
  BY DEF EngineRecords
<1>4. \A k \in DOMAIN e.trades : e.trades[k].owner \in Strategies
  BY <1>1 DEF TradeRecords
<1>5. \A k \in DOMAIN Opened(e) : Opened(e)[k].owner \in Strategies
  BY <1>2 DEF Entries
<1>6. e.equity \in Int
  BY DEF EngineRecords
<1> QED
  BY <1>1, <1>2, <1>3, <1>4, <1>5, <1>6, NumberOfRecord

(* A candle on which nothing is entered and nothing closed. *)
LEMMA RestKeeps ==
    ASSUME NEW e, NEW i \in Start..End, RecordOK(e, i),
           (e.position # None /\ e.position.max_holding # None)
                => i - e.position.opened < e.position.max_holding
    PROVE  RecordOK(e, i + 1)
<1>1. e \in EngineRecords /\ i \in Nat /\ i >= Start
  BY ReplayTypes DEF RecordOK
<1>2. ASSUME e.position # None PROVE PositionKept(e.position, i + 1)
  <2>1. e.position \in Positions
    BY <1>1, <1>2 DEF EngineRecords, Optional
  <2>2. e.position.opened \in Nat
    BY <2>1, ReplayTypes DEF Positions
  <2> QED
    BY <1>1, <1>2, <2>2 DEF RecordOK, PositionKept
<1>3. \A k \in DOMAIN e.trades : TradeKept(e.trades[k], i + 1)
  BY <1>1, RecordTypes DEF RecordOK, TradeKept
<1>4. EntriesKept(Opened(e), i + 1)
  BY <1>1, RecordTypes DEF RecordOK, EntriesKept
<1>5. \A s \in Strategies : GuardKnows(e.guard[s], Opened(e), e.trades, s, i + 1)
  <2> SUFFICES ASSUME NEW s \in Strategies
               PROVE  GuardKnows(e.guard[s], Opened(e), e.trades, s, i + 1)
    OBVIOUS
  <2>1. /\ e.guard[s] \in Guards /\ e.equity \in Int
        /\ Opened(e) \in Seq(Entries) /\ e.trades \in Seq(TradeRecords)
    BY <1>1, EntriesOfRecord, RecordTypes DEF EngineRecords
  <2> QED
    BY <1>1, <2>1, GuardStays DEF RecordOK
<1> QED
  BY <1>1, <1>2, <1>3, <1>4, <1>5 DEF RecordOK

(* A candle that closes the position: the trade is one the owner allows. *)
LEMMA CloseKeeps ==
    ASSUME NEW e, NEW i \in Start..End, RecordOK(e, i), e.position # None,
           NEW price \in Int, NEW reason \in AllReasons,
           NEW guard \in [Strategies -> Guards],
           \/ guard = Told(e, CloseTrade(e.position, price, reason, i), i)
           \/ guard = e.guard /\ i = End
    PROVE  RecordOK(Closed(e, CloseTrade(e.position, price, reason, i), guard), i + 1)
<1> DEFINE p == e.position
           trade == CloseTrade(p, price, reason, i)
           c == Closed(e, trade, guard)
           o == Opened(e)
<1>1. e \in EngineRecords /\ i \in Nat /\ i >= Start /\ i =< End
  BY ReplayTypes DEF RecordOK
<1>2. p \in Positions /\ PositionKept(p, i)
  BY <1>1, LastEntry DEF RecordOK
<1>3. /\ trade \in TradeRecords /\ trade.owner = p.owner /\ trade.opened = p.opened
      /\ trade.closed = i
  BY <1>2, TradeTypes
<1>4. p.opened \in Nat /\ p.opened >= Start /\ p.owner \in Strategies
        /\ p.max_holding \in Optional(Nat)
  BY <1>2, ReplayTypes DEF Positions
<1>5. i > Start
  BY <1>1, <1>2, <1>4, ReplayTypes DEF PositionKept
<1> HIDE DEF trade
<1>6. /\ c \in EngineRecords /\ c.position = None /\ c.guard = guard
      /\ c.trades = Append(e.trades, trade) /\ Opened(c) = o
  BY <1>1, <1>3, ClosedEntries
<1> HIDE DEF c
<1>7. /\ e.trades \in Seq(TradeRecords) /\ Len(e.trades) \in Nat
      /\ DOMAIN e.trades = 1..Len(e.trades)
      /\ DOMAIN c.trades = 1..(Len(e.trades) + 1)
      /\ \A k \in 1..Len(e.trades) : c.trades[k] = e.trades[k]
      /\ c.trades[Len(e.trades) + 1] = trade
  <2>1. e.trades \in Seq(TradeRecords)
    BY <1>1 DEF EngineRecords
  <2> QED
    BY <1>3, <1>6, <2>1, AppendProperties, LenProperties
<1>8. TradeKept(trade, i + 1)
  BY <1>1, <1>2, <1>3, <1>4, ReplayTypes DEF TradeKept, PositionKept, Optional
<1>9. \A k \in DOMAIN c.trades : TradeKept(c.trades[k], i + 1)
  <2> SUFFICES ASSUME NEW k \in DOMAIN c.trades PROVE TradeKept(c.trades[k], i + 1)
    OBVIOUS
  <2>1. CASE k = Len(e.trades) + 1
    BY <1>7, <1>8, <2>1
  <2>2. CASE k # Len(e.trades) + 1
    <3>1. k \in DOMAIN e.trades /\ c.trades[k] = e.trades[k]
      BY <1>7, <2>2
    <3>2. TradeKept(e.trades[k], i)
      BY <3>1 DEF RecordOK
    <3> QED
      BY <1>1, <3>1, <3>2, RecordTypes DEF TradeKept
  <2> QED
    BY <2>1, <2>2
<1>10. EntriesKept(o, i + 1) /\ EntriesKept(o, i)
  BY <1>1, RecordTypes DEF RecordOK, EntriesKept
<1>11. o \in Seq(Entries) /\ Len(o) = Len(e.trades) + 1 /\ DOMAIN o = 1..Len(o)
  <2>1. o \in Seq(Entries) /\ Len(o) = Len(e.trades) + 1
    BY <1>1, EntriesOfRecord
  <2> QED
    BY <2>1, LenProperties
<1>12. TradesBefore(o, c.trades)
  <2>1. ASSUME NEW j \in DOMAIN c.trades, NEW k \in DOMAIN o,
               c.trades[j].net < 0, c.trades[j].owner = o[k].owner,
               o[k].at > c.trades[j].closed
        PROVE  o[k].at - c.trades[j].closed >= PauseBars
    <3>1. j # Len(e.trades) + 1
      BY <1>1, <1>3, <1>7, <1>10, <2>1, RecordTypes DEF EntriesKept
    <3>2. j \in DOMAIN e.trades /\ c.trades[j] = e.trades[j]
      BY <1>7, <3>1
    <3> QED
      BY <2>1, <3>2 DEF RecordOK, TradesBefore
  <2>2. ASSUME NEW k \in DOMAIN c.trades, k < Len(o)
        PROVE  c.trades[k].closed < o[k + 1].at
    <3>1. k \in DOMAIN e.trades /\ c.trades[k] = e.trades[k]
      BY <1>7, <1>11, <2>2
    <3> QED
      BY <2>2, <3>1 DEF RecordOK, TradesBefore
  <2> QED
    BY <2>1, <2>2 DEF TradesBefore
<1>13. ASSUME NEW s \in Strategies
       PROVE  GuardKnows(guard[s], o, c.trades, s, i + 1)
  <2>1. /\ e.guard[s] \in Guards /\ e.equity \in Int /\ e.equity + trade.net \in Int
    BY <1>1, <1>3, RecordTypes, NumberOfRecord
  <2>2. GuardKnows(e.guard[s], o, e.trades, s, i)
    BY DEF RecordOK
  <2>3. \A k \in DOMAIN e.trades : e.trades[k].closed < i
    BY DEF RecordOK, TradeKept
  <2> HIDE DEF o
  <2>4. /\ trade.owner = s
            => GuardKnows(RecordTrade(e.guard[s], i, trade.net, e.equity + trade.net),
                          o, Append(e.trades, trade), s, i + 1)
        /\ trade.owner # s \/ i = End
            => GuardKnows(e.guard[s], o, Append(e.trades, trade), s, i + 1)
    BY <1>3, <1>5, <1>7, <1>10, <1>11, <2>1, <2>2, <2>3, ToldGuards
  <2>5. CASE guard = e.guard /\ i = End
    BY <1>6, <2>4, <2>5
  <2>6. CASE guard = Told(e, trade, i)
    <3>1. e.guard \in [Strategies -> Guards]
      BY <1>1 DEF EngineRecords
    <3> QED
      BY <1>6, <2>4, <2>6, <3>1 DEF Told
  <2> QED
    BY <2>5, <2>6 DEF trade
<1> QED
  BY <1>6, <1>9, <1>10, <1>12, <1>13 DEF RecordOK, c, trade

-----------------------------------------------------------------------------
(* An entry *)

RolledEngine(e, s, i) == [e EXCEPT !.guard[s] = Rolled(@, i, e.equity)]

EnteredEngine(e, s, p, i) ==
    [e EXCEPT !.position = p, !.guard[s] = RecordEntry(Rolled(@, i, e.equity), i)]

LEMMA TryEntryOutcomes ==
    ASSUME NEW e \in EngineRecords, NEW s \in Strategies, NEW candle, NEW signal, NEW i
    PROVE  \/ TryEntry(e, s, candle, signal, i) = RolledEngine(e, s, i)
           \/ /\ signal \in Directions
              /\ Allows(Rolled(e.guard[s], i, e.equity), i, e.equity)
              /\ TryEntry(e, s, candle, signal, i)
                    = EnteredEngine(e, s, OpenPosition(s, candle, signal, i), i)
<1> DEFINE rolled == RolledEngine(e, s, i)
<1>1. e.guard \in [Strategies -> Guards]
  BY DEF EngineRecords
<1>2. rolled.guard[s] = Rolled(e.guard[s], i, e.equity)
  BY <1>1 DEF RolledEngine, EngineRecords
<1>3. [rolled EXCEPT !.position = OpenPosition(s, candle, signal, i),
                     !.guard[s] = RecordEntry(@, i)]
        = EnteredEngine(e, s, OpenPosition(s, candle, signal, i), i)
  BY <1>1 DEF RolledEngine, EnteredEngine, EngineRecords
<1> QED
  BY <1>2, <1>3 DEF TryEntry, RolledEngine

LEMMA RolledKeeps ==
    ASSUME NEW e, NEW i \in Start..End, RecordOK(e, i), e.position = None,
           NEW s \in Strategies
    PROVE  RecordOK(RolledEngine(e, s, i), i + 1)
<1> DEFINE r == RolledEngine(e, s, i)
<1>1. e \in EngineRecords /\ i \in Nat /\ i >= Start
  BY ReplayTypes DEF RecordOK
<1>2. RecordOK(e, i + 1)
  BY RestKeeps
<1>3. e.guard \in [Strategies -> Guards] /\ e.equity \in Int
  BY <1>1 DEF EngineRecords
<1>4. Rolled(e.guard[s], i, e.equity) \in Guards
  BY <1>1, <1>3, GuardTypes
<1>5. /\ r.position = None /\ r.trades = e.trades
      /\ r.guard = [e.guard EXCEPT ![s] = Rolled(e.guard[s], i, e.equity)]
  BY <1>1 DEF RolledEngine, EngineRecords
<1>6. r \in EngineRecords
  BY <1>1, <1>3, <1>4 DEF RolledEngine, EngineRecords
<1> HIDE DEF r
<1>7. Opened(r) = Opened(e)
  BY <1>5 DEF Opened
<1>8. ASSUME NEW q \in Strategies
      PROVE  GuardKnows(r.guard[q], Opened(e), e.trades, q, i + 1)
  <2>1. CASE q = s
    <3>1. r.guard[q] = Rolled(e.guard[s], i, e.equity)
      BY <1>3, <1>5, <2>1
    <3>2. Opened(e) \in Seq(Entries) /\ e.trades \in Seq(TradeRecords) /\ e.guard[s] \in Guards
      BY <1>1, <1>3, EntriesOfRecord DEF EngineRecords
    <3>3. GuardKnows(e.guard[s], Opened(e), e.trades, s, i) /\ EntriesKept(Opened(e), i)
      BY DEF RecordOK
    <3> QED
      BY <1>1, <1>3, <2>1, <3>1, <3>2, <3>3, GuardStays
  <2>2. CASE q # s
    BY <1>2, <1>3, <1>5, <2>2 DEF RecordOK
  <2> QED
    BY <2>1, <2>2
<1> QED
  BY <1>2, <1>5, <1>6, <1>7, <1>8 DEF RecordOK, r

(* The entry is one more, at the end, and the last of its day. *)
LEMMA TodayGrows ==
    ASSUME NEW o \in Seq(Entries), NEW q, NEW s \in Strategies, NEW i \in Start..End,
           NEW day \in Nat, day =< i, IsFiniteSet(Today(o, q, day))
    PROVE  LET a == Append(o, [owner |-> s, at |-> i]) IN
           /\ IsFiniteSet(Today(a, q, day))
           /\ q # s => Today(a, q, day) = Today(o, q, day)
           /\ Cardinality(Today(a, q, day)) =< Cardinality(Today(o, q, day)) + 1
<1> DEFINE new == [owner |-> s, at |-> i]
           a == Append(o, new)
           last == Len(o) + 1
<1>1. new \in Entries /\ new.owner = s /\ new.at = i /\ i \in Nat
  BY ReplayTypes DEF Entries
<1> HIDE DEF new
<1>2. /\ Len(o) \in Nat /\ DOMAIN o = 1..Len(o) /\ DOMAIN a = 1..(Len(o) + 1)
      /\ \A k \in 1..Len(o) : a[k] = o[k]
      /\ a[Len(o) + 1] = new
  BY <1>1, AppendProperties, LenProperties
<1> HIDE DEF a
<1>3. DOMAIN a = DOMAIN o \union {last} /\ last \notin DOMAIN o
  BY <1>2
<1>4. q # s => Today(a, q, day) = Today(o, q, day)
  BY <1>1, <1>2, <1>3 DEF Today
<1>5. q = s => Today(a, q, day) = Today(o, q, day) \union {last}
  BY <1>1, <1>2, <1>3 DEF Today
<1>6. Cardinality(Today(o, q, day)) \in Nat
  BY FS_CardinalityType
<1> DEFINE T == Today(o, q, day)
<1> HIDE DEF T, last
<1>7. /\ IsFiniteSet(T \union {last})
      /\ Cardinality(T \union {last}) = Cardinality(T)
         \/ Cardinality(T \union {last}) = Cardinality(T) + 1
  <2>1. IsFiniteSet(T)
    BY DEF T
  <2> QED
    BY <2>1, FS_AddElement
<1>8. /\ IsFiniteSet(Today(a, q, day))
      /\ Cardinality(Today(a, q, day)) =< Cardinality(T) + 1
  <2>1. CASE q = s
    <3>1. Today(a, q, day) = T \union {last}
      BY <1>5, <2>1 DEF T
    <3>2. Cardinality(T) \in Nat
      BY <1>6 DEF T
    <3> QED
      BY <1>7, <3>1, <3>2
  <2>2. CASE q # s
    BY <1>4, <1>6, <2>2 DEF T
  <2> QED
    BY <2>1, <2>2
<1> QED
  BY <1>4, <1>8 DEF a, new, T

LEMMA EnterKeeps ==
    ASSUME NEW e, NEW i \in Start..End, i < End, RecordOK(e, i), e.position = None,
           NEW s \in Strategies, NEW candle \in Candles, NEW signal \in Directions,
           Allows(Rolled(e.guard[s], i, e.equity), i, e.equity)
    PROVE  RecordOK(EnteredEngine(e, s, OpenPosition(s, candle, signal, i), i), i + 1)
<1> DEFINE p == OpenPosition(s, candle, signal, i)
           r == EnteredEngine(e, s, p, i)
           o == Opened(e)
           rolled == Rolled(e.guard[s], i, e.equity)
           g == RecordEntry(rolled, i)
           new == [owner |-> s, at |-> i]
<1>1. e \in EngineRecords /\ i \in Nat /\ i >= Start /\ RecordOK(e, i + 1)
  BY ReplayTypes, RestKeeps DEF RecordOK
<1>2. /\ p \in Positions /\ p # None /\ p.owner = s /\ p.opened = i
      /\ p.max_holding = MaxHolding[s]
  BY PositionTypes
<1> HIDE DEF p
<1>3. e.guard \in [Strategies -> Guards] /\ e.equity \in Int
  BY <1>1 DEF EngineRecords
<1>4. rolled \in Guards /\ g \in Guards
  BY <1>1, <1>3, GuardTypes
<1>5. /\ r.position = p /\ r.trades = e.trades
      /\ r.guard = [e.guard EXCEPT ![s] = g]
  BY <1>1 DEF EnteredEngine, EngineRecords
<1>6. r \in EngineRecords
  BY <1>1, <1>2, <1>3, <1>4 DEF EnteredEngine, EngineRecords, Optional
<1> HIDE DEF r
<1>7. /\ o \in Seq(Entries) /\ Len(o) = Len(e.trades) /\ Len(o) \in Nat
      /\ DOMAIN o = 1..Len(o) /\ DOMAIN e.trades = 1..Len(o)
  <2>1. o \in Seq(Entries) /\ Len(o) = Len(e.trades) /\ Len(e.trades) \in Nat
          /\ DOMAIN e.trades = 1..Len(e.trades)
    BY <1>1, EntriesOfRecord
  <2> QED
    BY <2>1, LenProperties
<1>8. new \in Entries /\ new.owner = s /\ new.at = i
  BY DEF Entries
<1>9. Opened(r) = Append(o, new)
  <2>1. Opened(r) = [k \in DOMAIN e.trades |-> [owner |-> e.trades[k].owner, at |-> e.trades[k].opened]]
                        \o <<new>>
    BY <1>2, <1>5 DEF Opened
  <2>2. o = [k \in DOMAIN e.trades |-> [owner |-> e.trades[k].owner, at |-> e.trades[k].opened]]
                \o <<>>
    BY DEF Opened
  <2> DEFINE past == [k \in DOMAIN e.trades |-> [owner |-> e.trades[k].owner, at |-> e.trades[k].opened]]
  <2>3. past \in Seq(Entries)
    <3>1. \A k \in 1..Len(o) : past[k] \in Entries
      <4> SUFFICES ASSUME NEW k \in 1..Len(o) PROVE past[k] \in Entries
        OBVIOUS
      <4>1. e.trades[k] \in TradeRecords
        BY <1>1, <1>7, RecordTypes
      <4> QED
        BY <1>7, <4>1 DEF TradeRecords, Entries
    <3>2. past \in [1..Len(o) -> Entries]
      BY <1>7, <3>1
    <3> QED
      BY <1>7, <3>2, SeqDef
  <2> HIDE DEF past
  <2>4. past \o <<>> = past
    BY <2>3, ConcatEmptySeq
  <2>5. past \o <<new>> = Append(past, new)
    BY <1>8, <2>3, AppendIsConcat
  <2> QED
    BY <2>1, <2>2, <2>4, <2>5 DEF past
<1> HIDE DEF new
<1> DEFINE a == Append(o, new)
<1>10. /\ a \in Seq(Entries) /\ Len(a) = Len(o) + 1 /\ DOMAIN a = 1..(Len(o) + 1)
       /\ \A k \in 1..Len(o) : a[k] = o[k]
       /\ a[Len(o) + 1] = new
  BY <1>7, <1>8, AppendProperties, LenProperties
<1> HIDE DEF a, o
<1>11. /\ EntriesKept(o, i) /\ TradesBefore(o, e.trades)
       /\ \A q \in Strategies : GuardKnows(e.guard[q], o, e.trades, q, i)
       /\ \A k \in DOMAIN e.trades : TradeKept(e.trades[k], i)
  BY DEF RecordOK, o
<1>12. /\ rolled.last_entry = e.guard[s].last_entry
       /\ rolled.pause_until = e.guard[s].pause_until
  BY <1>1, <1>3, RolledFields
<1>13. /\ i >= rolled.pause_until /\ rolled.day_count < MaxDaily
       /\ rolled.last_entry # None => i - rolled.last_entry >= MinBetween
  BY DEF Allows
<1>14. /\ \A k \in DOMAIN o : o[k].at \in Nat /\ o[k].owner \in Strategies
       /\ \A k \in DOMAIN e.trades : e.trades[k].closed \in Nat
  BY <1>1, RecordTypes DEF o
<1>15. rolled.last_entry \in Optional(Nat) /\ rolled.pause_until \in Int
        /\ rolled.day_count \in Nat /\ rolled.day_start \in Nat
  BY <1>4 DEF Guards
<1> HIDE DEF rolled
<1>16. EntriesKept(a, i + 1)
  <2>1. ASSUME NEW k \in DOMAIN a PROVE a[k].at < i + 1 /\ a[k].at < End
    <3>1. CASE k \in DOMAIN o
      BY <1>1, <1>7, <1>10, <1>11, <1>14, <3>1 DEF EntriesKept
    <3>2. CASE k = Len(o) + 1
      BY <1>1, <1>8, <1>10, <3>2
    <3> QED
      BY <1>7, <1>10, <3>1, <3>2
  <2>2. ASSUME NEW j \in DOMAIN a, NEW k \in DOMAIN a, j < k, a[j].owner = a[k].owner
        PROVE  a[k].at - a[j].at >= MinBetween
    <3>1. j \in DOMAIN o /\ a[j] = o[j]
      BY <1>7, <1>10, <2>2
    <3>2. CASE k \in DOMAIN o
      BY <1>7, <1>10, <1>11, <2>2, <3>1, <3>2 DEF EntriesKept
    <3>3. CASE k = Len(o) + 1
      <4>1. o[j].owner = s
        BY <1>8, <1>10, <2>2, <3>1, <3>3
      <4>2. rolled.last_entry # None /\ o[j].at =< rolled.last_entry
        BY <1>11, <1>12, <3>1, <4>1 DEF GuardKnows
      <4>3. rolled.last_entry \in Nat
        BY <1>15, <4>2 DEF Optional
      <4> QED
        BY <1>1, <1>8, <1>10, <1>13, <1>14, <3>1, <3>3, <4>2, <4>3, ReplayTypes
    <3> QED
      BY <1>7, <1>10, <3>2, <3>3
  <2> QED
    BY <2>1, <2>2 DEF EntriesKept
<1>17. TradesBefore(a, e.trades)
  <2>1. ASSUME NEW j \in DOMAIN e.trades, NEW k \in DOMAIN a,
               e.trades[j].net < 0, e.trades[j].owner = a[k].owner,
               a[k].at > e.trades[j].closed
        PROVE  a[k].at - e.trades[j].closed >= PauseBars
    <3>1. CASE k \in DOMAIN o
      BY <1>7, <1>10, <1>11, <2>1, <3>1 DEF TradesBefore
    <3>2. CASE k = Len(o) + 1
      <4>1. e.trades[j].owner = s /\ a[k].at = i
        BY <1>8, <1>10, <2>1, <3>2
      <4>2. e.trades[j].closed < i /\ e.trades[j].closed \in Nat
        BY <1>11, <1>14 DEF TradeKept
      <4>3. PauseBars = 0 \/ rolled.pause_until >= e.trades[j].closed + PauseBars
        BY <1>1, <1>11, <1>12, <2>1, <4>1, <4>2, ReplayTypes DEF GuardKnows
      <4> QED
        BY <1>1, <1>13, <1>15, <4>1, <4>2, <4>3, ReplayTypes
    <3> QED
      BY <1>7, <1>10, <3>1, <3>2
  <2>2. ASSUME NEW k \in DOMAIN e.trades, k < Len(a)
        PROVE  e.trades[k].closed < a[k + 1].at
    <3>1. CASE k = Len(o)
      BY <1>8, <1>10, <1>11, <3>1 DEF TradeKept
    <3>2. CASE k # Len(o)
      <4>1. k < Len(o) /\ k + 1 \in 1..Len(o)
        BY <1>7, <3>2
      <4> QED
        BY <1>10, <1>11, <4>1 DEF TradesBefore
    <3> QED
      BY <3>1, <3>2
  <2> QED
    BY <2>1, <2>2 DEF TradesBefore
<1>18. ASSUME NEW q \in Strategies, q # s
       PROVE  GuardKnows(e.guard[q], a, e.trades, q, i + 1)
  <2>1. e.guard[q] \in Guards /\ GuardKnows(e.guard[q], o, e.trades, q, i + 1)
    BY <1>1, <1>3 DEF RecordOK, o
  <2>2. e.guard[q].day_start \in Nat /\ e.guard[q].day_start =< i
    BY <1>1, <2>1 DEF Guards, GuardKnows
  <2>3. Today(a, q, e.guard[q].day_start) = Today(o, q, e.guard[q].day_start)
    BY <1>7, <1>8, <1>18, <2>1, <2>2, TodayGrows DEF a, new, GuardKnows, DayCounted
  <2>4. \A k \in DOMAIN a : a[k].owner = q => k \in DOMAIN o /\ a[k] = o[k]
    BY <1>7, <1>8, <1>10, <1>18
  <2> QED
    BY <2>1, <2>3, <2>4 DEF GuardKnows, DayCounted
<1>19. GuardKnows(g, a, e.trades, s, i + 1)
  <2>1. GuardKnows(rolled, o, e.trades, s, i + 1)
    BY <1>1, <1>3, <1>7, <1>11, GuardStays DEF rolled, EngineRecords
  <2>2. /\ g.last_entry = i /\ g.day_count = rolled.day_count + 1
        /\ g.pause_until = rolled.pause_until /\ g.losses = rolled.losses
        /\ g.day_start = rolled.day_start
    BY <1>1, <1>4, RecordEntryFields
  <2>3. rolled.day_start =< i
    BY <1>1, <1>15, <2>1 DEF GuardKnows
  <2>4. DayCounted(g, a, s)
    <3>1. DayCounted(rolled, o, s)
      BY <2>1 DEF GuardKnows
    <3>2. /\ IsFiniteSet(Today(a, s, rolled.day_start))
          /\ Cardinality(Today(a, s, rolled.day_start))
                =< Cardinality(Today(o, s, rolled.day_start)) + 1
      BY <1>7, <1>15, <2>3, <3>1, TodayGrows DEF a, new, DayCounted
    <3>3. /\ Cardinality(Today(a, s, rolled.day_start)) \in Nat
          /\ Cardinality(Today(o, s, rolled.day_start)) \in Nat
      BY <3>1, <3>2, FS_CardinalityType DEF DayCounted
    <3> QED
      BY <1>13, <1>15, <2>2, <3>1, <3>2, <3>3, ReplayTypes DEF DayCounted
  <2>5. ASSUME NEW k \in DOMAIN a PROVE a[k].at =< i
    <3>1. a[k] \in Entries
      BY <1>10
    <3> QED
      BY <1>1, <1>16, <3>1, NumberOfRecord DEF EntriesKept
  <2> HIDE DEF g
  <2>6. i # None /\ i \in Start..End
    BY <1>1, NoneAssumption
  <2> QED
    BY <2>1, <2>2, <2>3, <2>4, <2>5, <2>6 DEF GuardKnows
<1>20. PositionKept(p, i + 1)
  BY <1>1, <1>2, ReplayTypes DEF PositionKept, Optional
<1>21. \A q \in Strategies : GuardKnows(r.guard[q], a, e.trades, q, i + 1)
  BY <1>3, <1>5, <1>18, <1>19
<1> QED
  BY <1>1, <1>5, <1>6, <1>9, <1>16, <1>17, <1>20, <1>21 DEF RecordOK, r, a, o, p

-----------------------------------------------------------------------------
(* The outcomes of a candle *)

(* Nothing is left open after the last candle. *)
Rests(e, r, i) ==
    /\ r = e
    /\ e.position # None =>
        /\ i < End
        /\ e.position.max_holding # None => i - e.position.opened < e.position.max_holding

Closes(e, r, reasons, i) ==
    /\ e.position # None
    /\ \E price \in Int, reason \in reasons :
        LET trade == CloseTrade(e.position, price, reason, i) IN
        \/ r = Closed(e, trade, Told(e, trade, i))
        \/ i = End /\ r = Closed(e, trade, e.guard)

TriesEntry(e, r, i) ==
    /\ e.position = None /\ i < End
    /\ \E s \in Strategies :
        \/ r = RolledEngine(e, s, i)
        \/ \E candle \in Candles, signal \in Directions :
            /\ Allows(Rolled(e.guard[s], i, e.equity), i, e.equity)
            /\ r = EnteredEngine(e, s, OpenPosition(s, candle, signal, i), i)

Outcome(e, r, reasons, i) ==
    Rests(e, r, i) \/ Closes(e, r, reasons, i) \/ TriesEntry(e, r, i)

SameRest(e, r) ==
    r.selection = e.selection /\ r.exposure = e.exposure /\ r.error = e.error

LEMMA ToldType ==
    ASSUME NEW e \in EngineRecords, NEW trade \in TradeRecords, NEW i \in Nat
    PROVE  Told(e, trade, i) \in [Strategies -> Guards]
<1>1. e.guard \in [Strategies -> Guards] /\ e.equity \in Int
  BY DEF EngineRecords
<1>2. trade.owner \in Strategies /\ trade.net \in Int /\ e.equity + trade.net \in Int
  BY <1>1 DEF TradeRecords
<1>3. RecordTrade(e.guard[trade.owner], i, trade.net, e.equity + trade.net) \in Guards
  BY <1>1, <1>2, GuardTypes
<1> QED
  BY <1>1, <1>3 DEF Told

(* Each outcome keeps what the engine has recorded. *)
LEMMA OutcomeKeeps ==
    ASSUME NEW e, NEW r, NEW reasons \in SUBSET AllReasons, NEW i \in Start..End,
           RecordOK(e, i), ReasonsOK(e, reasons), Outcome(e, r, reasons, i)
    PROVE  RecordOK(r, i + 1) /\ ReasonsOK(r, reasons) /\ SameRest(e, r)
<1>1. e \in EngineRecords /\ i \in Nat
  BY ReplayTypes DEF RecordOK
<1>2. CASE Rests(e, r, i)
  BY <1>2, RestKeeps DEF Rests, SameRest
<1>3. CASE Closes(e, r, reasons, i)
  <2>1. PICK price \in Int, reason \in reasons :
            \/ r = Closed(e, CloseTrade(e.position, price, reason, i),
                          Told(e, CloseTrade(e.position, price, reason, i), i))
            \/ i = End /\ r = Closed(e, CloseTrade(e.position, price, reason, i), e.guard)
    BY <1>3 DEF Closes
  <2> DEFINE trade == CloseTrade(e.position, price, reason, i)
  <2>2. e.position # None /\ e.position \in Positions /\ reason \in AllReasons
    BY <1>1, <1>3, LastEntry DEF Closes
  <2>3. /\ trade \in TradeRecords /\ trade.owner = e.position.owner
        /\ trade.opened = e.position.opened /\ trade.reason = reason
    BY <2>2, TradeTypes
  <2>4. PICK guard \in [Strategies -> Guards] :
            /\ r = Closed(e, trade, guard)
            /\ guard = Told(e, trade, i) \/ (guard = e.guard /\ i = End)
    <3>1. Told(e, trade, i) \in [Strategies -> Guards] /\ e.guard \in [Strategies -> Guards]
      BY <1>1, <2>3, ToldType DEF EngineRecords
    <3> QED
      BY <2>1, <3>1
  <2>5. RecordOK(r, i + 1)
    BY <2>2, <2>4, CloseKeeps
  <2> HIDE DEF trade
  <2>6. r.trades = Append(e.trades, trade) /\ SameRest(e, r)
    BY <1>1, <2>2, <2>3, <2>4, ClosedEntries DEF SameRest
  <2>7. ReasonsOK(r, reasons)
    <3>1. /\ e.trades \in Seq(TradeRecords) /\ Len(e.trades) \in Nat
          /\ DOMAIN e.trades = 1..Len(e.trades)
      BY <1>1, EntriesOfRecord DEF EngineRecords
    <3>2. /\ DOMAIN r.trades = 1..(Len(e.trades) + 1)
          /\ \A k \in 1..Len(e.trades) : r.trades[k] = e.trades[k]
          /\ r.trades[Len(e.trades) + 1] = trade
      BY <2>3, <2>6, <3>1, AppendProperties, LenProperties
    <3>3. ASSUME NEW k \in DOMAIN r.trades PROVE r.trades[k].reason \in reasons
      <4>1. k \in DOMAIN e.trades \/ k = Len(e.trades) + 1
        BY <3>1, <3>2
      <4> QED
        BY <2>3, <3>1, <3>2, <4>1 DEF ReasonsOK
    <3> QED
      BY <3>3 DEF ReasonsOK
  <2> QED
    BY <2>5, <2>6, <2>7
<1>4. CASE TriesEntry(e, r, i)
  <2>1. PICK s \in Strategies :
            \/ r = RolledEngine(e, s, i)
            \/ \E candle \in Candles, signal \in Directions :
                /\ Allows(Rolled(e.guard[s], i, e.equity), i, e.equity)
                /\ r = EnteredEngine(e, s, OpenPosition(s, candle, signal, i), i)
    BY <1>4 DEF TriesEntry
  <2>2. RecordOK(r, i + 1)
    BY <1>4, <2>1, RolledKeeps, EnterKeeps DEF TriesEntry
  <2>3. r.trades = e.trades /\ SameRest(e, r)
    BY <1>1, <2>1 DEF RolledEngine, EnteredEngine, EngineRecords, SameRest
  <2> QED
    BY <2>2, <2>3 DEF ReasonsOK
<1> QED
  BY <1>2, <1>3, <1>4 DEF Outcome

-----------------------------------------------------------------------------
(* The three loops *)

LEMMA TryEntryOutcome ==
    ASSUME NEW e \in EngineRecords, NEW s \in Strategies, NEW candle \in Candles, NEW signal,
           NEW reasons, NEW i \in Start..End, e.position = None, i < End
    PROVE  Outcome(e, TryEntry(e, s, candle, signal, i), reasons, i)
BY TryEntryOutcomes DEF Outcome, TriesEntry

LEMMA ClosesOutcome ==
    ASSUME NEW e \in EngineRecords, NEW price \in Int, NEW reasons, NEW reason \in reasons,
           NEW trade, NEW i, e.position # None,
           trade = CloseTrade(e.position, price, reason, i)
    PROVE  Outcome(e, RecordClosed(e, trade, i), reasons, i)
BY RecordClosedIsClosed DEF Outcome, Closes

(* What the owner's exit leaves open is closed at the end of the data. *)
LEMMA ForceCloseOutcome ==
    ASSUME NEW e \in EngineRecords, NEW candle \in Candles, NEW reasons, NEW i \in Start..End,
           "end_of_data" \in reasons,
           (e.position # None /\ e.position.max_holding # None)
                => i - e.position.opened < e.position.max_holding
    PROVE  /\ Outcome(e, ForceClose(e, candle, i), reasons, i)
           /\ Outcome(e, SingleForceClose(e, candle, i), reasons, i)
<1>1. candle.close \in Int /\ i \in Nat /\ i =< End
  BY ReplayTypes
<1>2. CASE i < End \/ e.position = None
  <2>1. ForceClose(e, candle, i) = e
    BY <1>2 DEF ForceClose
  <2>2. SingleForceClose(e, candle, i) = e
    BY <2>1 DEF SingleForceClose, EngineRecords
  <2> QED
    BY <1>2, <2>1, <2>2 DEF Outcome, Rests
<1>3. CASE ~(i < End) /\ e.position # None
  <2> DEFINE trade == CloseTrade(e.position, candle.close, "end_of_data", i)
  <2>1. i = End
    BY <1>1, <1>3, ReplayTypes
  <2>2. ForceClose(e, candle, i) = RecordClosed(e, trade, i)
    BY <1>3 DEF ForceClose
  <2>3. SingleForceClose(e, candle, i) = Closed(e, trade, e.guard)
    <3> HIDE DEF trade
    <3>1. ForceClose(e, candle, i) = Closed(e, trade, Told(e, trade, i))
      BY <2>2, RecordClosedIsClosed
    <3> DEFINE told == Told(e, trade, i)
    <3> HIDE DEF told
    <3>2. [Closed(e, trade, told) EXCEPT !.guard = e.guard] = Closed(e, trade, e.guard)
      BY DEF Closed, EngineRecords
    <3> QED
      BY <3>1, <3>2 DEF SingleForceClose, told
  <2>4. Outcome(e, ForceClose(e, candle, i), reasons, i)
    BY <1>1, <1>3, <2>2, ClosesOutcome
  <2> QED
    BY <1>1, <1>3, <2>1, <2>3, <2>4 DEF Outcome, Closes
<1> QED
  BY <1>2, <1>3

LEMMA ForceCloseNothing ==
    ASSUME NEW e \in EngineRecords, NEW candle, NEW i, i < End \/ e.position = None
    PROVE  ForceClose(e, candle, i) = e /\ SingleForceClose(e, candle, i) = e
<1>1. ForceClose(e, candle, i) = e
  BY DEF ForceClose
<1> QED
  BY <1>1 DEF SingleForceClose, EngineRecords

OwnReasons == {"stop_loss", "take_profit", "max_holding_time", "end_of_data"}

(* The owner's exit, and the end of the data, in all three loops. *)
LEMMA HoldingOutcome ==
    ASSUME NEW e \in EngineRecords, NEW candle \in Candles, NEW i \in Start..End,
           NEW reasons, OwnReasons \subseteq reasons, e.position # None
    PROVE  LET trade == MaybeClose(e.position, candle, i) IN
           /\ trade = None =>
                /\ Outcome(e, ForceClose(e, candle, i), reasons, i)
                /\ Outcome(e, SingleForceClose(e, candle, i), reasons, i)
           /\ trade # None =>
                LET r == RecordClosed(e, trade, i) IN
                /\ Outcome(e, ForceClose(r, candle, i), reasons, i)
                /\ Outcome(e, SingleForceClose(r, candle, i), reasons, i)
<1> DEFINE trade == MaybeClose(e.position, candle, i)
           r == RecordClosed(e, trade, i)
<1>1. e.position \in Positions /\ i \in Nat
  BY ReplayTypes DEF EngineRecords, Optional
<1>2. CASE trade = None
  <2>1. e.position.max_holding # None => i - e.position.opened < e.position.max_holding
    BY <1>1, <1>2, MaybeCloseOutcomes
  <2> QED
    BY <1>2, <2>1, ForceCloseOutcome DEF OwnReasons
<1>3. CASE trade # None
  <2>1. PICK price \in Int, reason \in {"stop_loss", "take_profit", "max_holding_time"} :
            trade = CloseTrade(e.position, price, reason, i)
    BY <1>1, <1>3, MaybeCloseOutcomes
  <2>2. trade \in TradeRecords /\ trade.owner = e.position.owner
            /\ trade.opened = e.position.opened
    BY <1>1, <2>1, TradeTypes DEF AllReasons
  <2> HIDE DEF trade
  <2>3. Outcome(e, r, reasons, i)
    BY <2>1, ClosesOutcome DEF OwnReasons
  <2>4. r \in EngineRecords /\ r.position = None
    BY <1>1, <2>2, RecordClosedIsClosed, ToldType, ClosedEntries
  <2>5. ForceClose(r, candle, i) = r /\ SingleForceClose(r, candle, i) = r
    BY <2>4, ForceCloseNothing
  <2> QED
    BY <1>3, <2>3, <2>5 DEF trade
<1> QED
  BY <1>2, <1>3

LEMMA EnteringOutcome ==
    ASSUME NEW e \in EngineRecords, NEW candle \in Candles, NEW signal, NEW i \in Start..End,
           NEW reasons, e.position = None, i < End, NEW s \in Strategies
    PROVE  LET r == TryEntry(e, s, candle, signal, i) IN
           /\ Outcome(e, ForceClose(r, candle, i), reasons, i)
           /\ Outcome(e, SingleForceClose(r, candle, i), reasons, i)
<1> DEFINE r == TryEntry(e, s, candle, signal, i)
<1>1. Outcome(e, r, reasons, i)
  BY TryEntryOutcome
<1>2. r \in EngineRecords
  <2>1. e.guard \in [Strategies -> Guards] /\ e.equity \in Int /\ i \in Nat
    BY ReplayTypes DEF EngineRecords
  <2>2. Rolled(e.guard[s], i, e.equity) \in Guards
    BY <2>1, GuardTypes
  <2>3. RecordEntry(Rolled(e.guard[s], i, e.equity), i) \in Guards
    BY <2>1, <2>2, GuardTypes
  <2>4. RolledEngine(e, s, i) \in EngineRecords
    BY <2>1, <2>2 DEF RolledEngine, EngineRecords
  <2>5. ASSUME signal \in Directions
        PROVE  EnteredEngine(e, s, OpenPosition(s, candle, signal, i), i) \in EngineRecords
    <3>1. OpenPosition(s, candle, signal, i) \in Positions
      BY <2>5, PositionTypes
    <3> QED
      BY <2>1, <2>3, <3>1 DEF EnteredEngine, EngineRecords, Optional
  <2> QED
    BY <2>4, <2>5, TryEntryOutcomes
<1> HIDE DEF r
<1>3. ForceClose(r, candle, i) = r /\ SingleForceClose(r, candle, i) = r
  BY <1>2, ForceCloseNothing
<1> QED
  BY <1>1, <1>3 DEF r

LEMMA NothingOutcome ==
    ASSUME NEW e \in EngineRecords, NEW candle, NEW i, NEW reasons, e.position = None
    PROVE  /\ Outcome(e, ForceClose(e, candle, i), reasons, i)
           /\ Outcome(e, SingleForceClose(e, candle, i), reasons, i)
BY ForceCloseNothing DEF Outcome, Rests

LEMMA SingleOutcome ==
    ASSUME NEW e \in EngineRecords, NEW candle \in Candles, NEW signal, NEW i \in Start..End,
           NEW reasons, OwnReasons \subseteq reasons
    PROVE  Outcome(e, SingleForceClose(SingleStep(e, candle, signal, i), candle, i), reasons, i)
<1>1. CASE e.position # None
  BY <1>1, HoldingOutcome DEF SingleStep
<1>2. CASE e.position = None /\ i >= End
  BY <1>2, NothingOutcome DEF SingleStep
<1>3. CASE e.position = None /\ ~(i >= End)
  <2>1. i < End /\ Traded \in Strategies
    BY <1>3, ReplayTypes
  <2> QED
    BY <1>3, <2>1, EnteringOutcome DEF SingleStep
<1> QED
  BY <1>1, <1>2, <1>3

(* A selection that lets entries through names a strategy. *)
SelectionValid(e) == e.selection # None => StateValid(e.selection)

LEMMA EnteringIsStrategy ==
    ASSUME NEW e \in EngineRecords, SelectionValid(e), Entering(e) # {}
    PROVE  e.selection.active \in Strategies
<1>1. e.selection # None /\ e.selection.entries
  BY DEF Entering
<1>2. e.selection \in States /\ StateValid(e.selection)
  BY <1>1 DEF EngineRecords, Optional, SelectionValid
<1> QED
  BY <1>1, <1>2 DEF States, Optional, StateValid

LEMMA RegimeOutcome ==
    ASSUME NEW e \in EngineRecords, NEW candle \in Candles, NEW signal, NEW i \in Start..End,
           NEW reasons, OwnReasons \subseteq reasons, SelectionValid(e)
    PROVE  Outcome(e, ForceClose(RegimeStep(e, candle, signal, i), candle, i), reasons, i)
<1>1. CASE e.position # None
  BY <1>1, HoldingOutcome DEF RegimeStep
<1>2. CASE e.position = None /\ i < End /\ Entering(e) # {}
  BY <1>2, EnteringIsStrategy, EnteringOutcome DEF RegimeStep
<1>3. CASE e.position = None /\ ~(i < End /\ Entering(e) # {})
  BY <1>3, NothingOutcome DEF RegimeStep
<1> QED
  BY <1>1, <1>2, <1>3

(* The daily engine counts the candle before it looks at the position. *)
Exposed(e) == IF e.position = None THEN e ELSE [e EXCEPT !.exposure = @ + 1]

LEMMA ExposedFields ==
    ASSUME NEW e \in EngineRecords
    PROVE  /\ Exposed(e) \in EngineRecords
           /\ Exposed(e).position = e.position /\ Exposed(e).trades = e.trades
           /\ Exposed(e).guard = e.guard /\ Exposed(e).equity = e.equity
           /\ Exposed(e).selection = e.selection /\ Exposed(e).error = e.error
           /\ Exposed(e).exposure = IF e.position = None THEN e.exposure ELSE e.exposure + 1
BY DEF Exposed, EngineRecords

LEMMA DailyOutcome ==
    ASSUME NEW e \in EngineRecords, NEW candle \in Candles, NEW signal, NEW i \in Start..End,
           SelectionValid(e)
    PROVE  Outcome(Exposed(e), ForceClose(DailyStep(e, candle, signal, i), candle, i),
                   Reasons("daily", policy), i)
<1> DEFINE f == Exposed(e)
           reasons == Reasons("daily", policy)
           owners == MaybeClose(e.position, candle, i)
           opposite == OppositeExit(e, candle, signal, i)
<1>1. f \in EngineRecords /\ f.position = e.position
  BY ExposedFields
<1>2. OwnReasons \subseteq reasons
  BY DEF OwnReasons, Reasons
<1>3. CASE e.position = None /\ i < End /\ Entering(e) # {}
  <2>1. f = e
    BY <1>3 DEF Exposed
  <2> QED
    BY <1>3, <2>1, EnteringIsStrategy, EnteringOutcome DEF DailyStep
<1>4. CASE e.position = None /\ ~(i < End /\ Entering(e) # {})
  <2>1. f = e
    BY <1>4 DEF Exposed
  <2> QED
    BY <1>4, <2>1, NothingOutcome DEF DailyStep
<1>5. CASE e.position # None
  <2>1. f = [e EXCEPT !.exposure = @ + 1]
    BY <1>5 DEF Exposed
  <2>2. DailyStep(e, candle, signal, i) =
            LET trade == IF owners = None THEN opposite ELSE owners
            IN  IF trade = None THEN f ELSE RecordClosed(f, trade, i)
    BY <1>5, <2>1 DEF DailyStep
  <2>3. owners = MaybeClose(f.position, candle, i)
    BY <1>1
  <2> HIDE DEF f, owners, opposite, reasons
  <2>4. Outcome(f, ForceClose(DailyStep(e, candle, signal, i), candle, i), reasons, i)
    <3>1. CASE owners # None
      BY <1>1, <1>2, <1>5, <2>2, <2>3, <3>1, HoldingOutcome
    <3>2. CASE owners = None /\ opposite = None
      BY <1>1, <1>2, <1>5, <2>2, <2>3, <3>2, HoldingOutcome
    <3>3. CASE owners = None /\ opposite # None
      <4> DEFINE trade == CloseTrade(f.position, candle.close, "active_strategy_opposite_signal", i)
                 r == RecordClosed(f, trade, i)
      <4>1. opposite = trade /\ policy = "active_strategy_opposite"
        BY <1>1, <3>3 DEF OppositeExit, opposite
      <4>2. "active_strategy_opposite_signal" \in reasons /\ candle.close \in Int
        BY <4>1, ReplayTypes DEF reasons, Reasons
      <4>3. f.position \in Positions /\ i \in Nat
        BY <1>1, <1>5, ReplayTypes DEF EngineRecords, Optional
      <4>4. trade \in TradeRecords /\ trade.owner = f.position.owner
                /\ trade.opened = f.position.opened
        BY <4>2, <4>3, TradeTypes DEF AllReasons
      <4>5. Outcome(f, r, reasons, i)
        BY <1>1, <1>5, <4>2, ClosesOutcome
      <4> HIDE DEF trade
      <4>6. r \in EngineRecords /\ r.position = None
        BY <1>1, <1>5, <4>3, <4>4, RecordClosedIsClosed, ToldType, ClosedEntries
      <4>7. ForceClose(r, candle, i) = r
        BY <4>6, ForceCloseNothing
      <4>8. DailyStep(e, candle, signal, i) = r
        BY <2>2, <3>3, <4>1
      <4> QED
        BY <4>5, <4>7, <4>8
    <3> QED
      BY <3>1, <3>2, <3>3
  <2> QED
    BY <2>4 DEF f, reasons
<1> QED
  BY <1>3, <1>4, <1>5

(* What an engine has recorded does not depend on its exposure or selection. *)
LEMMA SameRecord ==
    ASSUME NEW e, NEW f \in EngineRecords, NEW n, NEW reasons,
           RecordOK(e, n), ReasonsOK(e, reasons),
           f.position = e.position, f.trades = e.trades, f.guard = e.guard
    PROVE  RecordOK(f, n) /\ ReasonsOK(f, reasons)
<1>1. Opened(f) = Opened(e)
  BY DEF Opened
<1> QED
  BY <1>1 DEF RecordOK, ReasonsOK

-----------------------------------------------------------------------------
(* The candles held *)

LEMMA HeldPairs ==
    ASSUME NEW e \in EngineRecords, NEW n \in Nat
    PROVE  /\ Held(e, n) \subseteq (1..(Len(e.trades) + 1)) \X (Start..End)
           /\ \A k \in 1..(Len(e.trades) + 1), j \in Start..End :
                <<k, j>> \in Held(e, n) <=>
                    \/ k \in DOMAIN e.trades /\ e.trades[k].opened < j /\ j =< e.trades[k].closed
                    \/ /\ k = Len(e.trades) + 1
                       /\ e.position # None /\ e.position.opened < j /\ j < n
<1>1. Len(e.trades) \in Nat /\ DOMAIN e.trades = 1..Len(e.trades)
  BY EntriesOfRecord
<1>2. Held(e, n) \subseteq (1..(Len(e.trades) + 1)) \X (Start..End)
  BY <1>1 DEF Held
<1>3. ASSUME NEW k \in 1..(Len(e.trades) + 1), NEW j \in Start..End
      PROVE  <<k, j>> \in Held(e, n) <=>
                    \/ k \in DOMAIN e.trades /\ e.trades[k].opened < j /\ j =< e.trades[k].closed
                    \/ /\ k = Len(e.trades) + 1
                       /\ e.position # None /\ e.position.opened < j /\ j < n
  BY <1>1 DEF Held
<1> QED
  BY <1>2, <1>3

(* The candle before n is held by the open position, or by no one. *)
HeldNow(e, i) == IF e.position = None THEN {} ELSE {<<Len(e.trades) + 1, i>>}

LEMMA HeldGrows ==
    ASSUME NEW e, NEW r, NEW reasons \in SUBSET AllReasons, NEW i \in Start..End,
           RecordOK(e, i), ReasonsOK(e, reasons), Outcome(e, r, reasons, i)
    PROVE  Held(r, i + 1) = Held(e, i) \union HeldNow(e, i)
<1> DEFINE L == Len(e.trades)
<1>1. /\ e \in EngineRecords /\ r \in EngineRecords /\ i \in Nat /\ i + 1 \in Nat
      /\ RecordOK(r, i + 1)
  BY ReplayTypes, OutcomeKeeps DEF RecordOK
<1>2. L \in Nat /\ DOMAIN e.trades = 1..L /\ e.trades \in Seq(TradeRecords)
  BY <1>1, EntriesOfRecord DEF EngineRecords
<1>3. e.position # None => e.position.opened \in Nat /\ e.position.opened < i
          /\ i \in Start..End
  <2> SUFFICES ASSUME e.position # None PROVE e.position.opened \in Nat /\ e.position.opened < i
    OBVIOUS
  <2>1. e.position \in Positions
    BY <1>1 DEF EngineRecords, Optional
  <2>2. e.position.opened \in Nat
    BY <2>1, ReplayTypes DEF Positions
  <2> QED
    BY <2>2 DEF RecordOK, PositionKept
<1>4. \A p : p \in Held(e, i) \union HeldNow(e, i) =>
            p \in (1..(L + 1)) \X (Start..End)
  BY <1>1, <1>2, HeldPairs DEF HeldNow
<1>5. ASSUME NEW k \in 1..(L + 1), NEW j \in Start..End
      PROVE  <<k, j>> \in Held(e, i) \union HeldNow(e, i) <=>
                \/ k \in 1..L /\ e.trades[k].opened < j /\ j =< e.trades[k].closed
                \/ k = L + 1 /\ e.position # None /\ e.position.opened < j /\ j =< i
  <2>1. <<k, j>> \in HeldNow(e, i) <=> e.position # None /\ k = L + 1 /\ j = i
    BY DEF HeldNow
  <2>2. j \in Nat
    BY ReplayTypes
  <2> QED
    BY <1>1, <1>2, <1>3, <2>1, <2>2, HeldPairs
<1> HIDE DEF L
<1>6. CASE Rests(e, r, i)
  <2>1. r = e
    BY <1>6 DEF Rests
  <2>2. Held(r, i + 1) \subseteq (1..(L + 1)) \X (Start..End)
    BY <1>1, <2>1, HeldPairs DEF L
  <2>3. ASSUME NEW k \in 1..(L + 1), NEW j \in Start..End
        PROVE  <<k, j>> \in Held(r, i + 1) <=> <<k, j>> \in Held(e, i) \union HeldNow(e, i)
    <3>1. j \in Nat
      BY ReplayTypes
    <3>2. <<k, j>> \in Held(r, i + 1) <=>
            \/ k \in DOMAIN e.trades /\ e.trades[k].opened < j /\ j =< e.trades[k].closed
            \/ k = L + 1 /\ e.position # None /\ e.position.opened < j /\ j < i + 1
      BY <1>1, <2>1, HeldPairs DEF L
    <3> QED
      BY <1>1, <1>2, <1>5, <3>1, <3>2
  <2> QED
    BY <1>4, <2>2, <2>3
<1>7. CASE Closes(e, r, reasons, i)
  <2>1. PICK price \in Int, reason \in reasons :
            \/ r = Closed(e, CloseTrade(e.position, price, reason, i),
                          Told(e, CloseTrade(e.position, price, reason, i), i))
            \/ i = End /\ r = Closed(e, CloseTrade(e.position, price, reason, i), e.guard)
    BY <1>7 DEF Closes
  <2> DEFINE trade == CloseTrade(e.position, price, reason, i)
  <2>2. e.position # None /\ e.position \in Positions /\ reason \in AllReasons
    BY <1>1, <1>7, LastEntry DEF Closes
  <2>3. /\ trade \in TradeRecords
        /\ trade.opened = e.position.opened /\ trade.closed = i
    BY <2>2, TradeTypes
  <2> HIDE DEF trade
  <2>4. r.position = None /\ r.trades = Append(e.trades, trade)
    BY <1>1, <2>1 DEF Closed, EngineRecords, trade
  <2>5. /\ Len(r.trades) = L + 1 /\ DOMAIN r.trades = 1..(L + 1)
        /\ \A k \in 1..L : r.trades[k] = e.trades[k]
        /\ r.trades[L + 1] = trade
    BY <1>2, <2>3, <2>4, AppendProperties, LenProperties DEF L
  <2>6. /\ Held(r, i + 1) \subseteq (1..(L + 2)) \X (Start..End)
        /\ \A k \in 1..(L + 2), j \in Start..End :
            <<k, j>> \in Held(r, i + 1) <=>
                k \in 1..(L + 1) /\ r.trades[k].opened < j /\ j =< r.trades[k].closed
    <3>1. Len(r.trades) + 1 = L + 2
      BY <1>2, <2>5
    <3> QED
      BY <1>1, <2>4, <2>5, <3>1, HeldPairs
  <2>7. ASSUME NEW k \in 1..(L + 2), NEW j \in Start..End
        PROVE  <<k, j>> \in Held(r, i + 1)
                    <=> k \in 1..(L + 1) /\ <<k, j>> \in Held(e, i) \union HeldNow(e, i)
    <3>1. CASE k \in 1..L
      <4>1. k \in 1..(L + 1) /\ k # L + 1 /\ r.trades[k] = e.trades[k]
        BY <1>2, <2>5, <3>1
      <4>2. <<k, j>> \in Held(r, i + 1)
                <=> e.trades[k].opened < j /\ j =< e.trades[k].closed
        BY <2>6, <2>7, <4>1
      <4> QED
        BY <1>5, <2>7, <3>1, <4>1, <4>2
    <3>2. CASE k = L + 1
      BY <1>2, <1>5, <2>2, <2>3, <2>5, <2>6, <3>2
    <3>3. CASE k = L + 2
      BY <1>2, <2>6, <3>3
    <3> QED
      BY <1>2, <3>1, <3>2, <3>3
  <2>8. 1..(L + 1) \subseteq 1..(L + 2)
    BY <1>2
  <2> QED
    BY <1>4, <2>6, <2>7, <2>8
<1>8. CASE TriesEntry(e, r, i)
  <2>1. /\ r.trades = e.trades /\ e.position = None
        /\ r.position = None \/ r.position.opened = i
    <3>1. PICK s \in Strategies :
            \/ r = RolledEngine(e, s, i)
            \/ \E candle \in Candles, signal \in Directions :
                    r = EnteredEngine(e, s, OpenPosition(s, candle, signal, i), i)
      BY <1>8 DEF TriesEntry
    <3>2. e.position = None
      BY <1>8 DEF TriesEntry
    <3>3. CASE r = RolledEngine(e, s, i)
      BY <1>1, <3>2, <3>3 DEF RolledEngine, EngineRecords
    <3>4. ASSUME NEW candle \in Candles, NEW signal \in Directions,
                 r = EnteredEngine(e, s, OpenPosition(s, candle, signal, i), i)
          PROVE  r.trades = e.trades /\ r.position.opened = i
      <4>1. OpenPosition(s, candle, signal, i).opened = i
        BY DEF OpenPosition
      <4> QED
        BY <1>1, <3>4, <4>1 DEF EnteredEngine, EngineRecords
    <3> QED
      BY <3>1, <3>2, <3>3, <3>4
  <2>2. Held(r, i + 1) \subseteq (1..(L + 1)) \X (Start..End)
    BY <1>1, <2>1, HeldPairs DEF L
  <2>3. ASSUME NEW k \in 1..(L + 1), NEW j \in Start..End
        PROVE  <<k, j>> \in Held(r, i + 1) <=> <<k, j>> \in Held(e, i) \union HeldNow(e, i)
    <3>1. j \in Nat
      BY ReplayTypes
    <3>2. <<k, j>> \in Held(r, i + 1) <=>
            \/ k \in DOMAIN e.trades /\ e.trades[k].opened < j /\ j =< e.trades[k].closed
            \/ k = L + 1 /\ r.position # None /\ r.position.opened < j /\ j < i + 1
      BY <1>1, <2>1, HeldPairs DEF L
    <3> QED
      BY <1>1, <1>2, <1>5, <2>1, <3>1, <3>2
  <2> QED
    BY <1>4, <2>2, <2>3
<1> QED
  BY <1>6, <1>7, <1>8 DEF Outcome

HeldOK(e, n) == IsFiniteSet(Held(e, n)) /\ Cardinality(Held(e, n)) = e.exposure

(* A candle adds to the held ones what it adds to the exposure. *)
LEMMA HeldStaysCounted ==
    ASSUME NEW e, NEW r, NEW reasons \in SUBSET AllReasons, NEW i \in Start..End,
           RecordOK(e, i), ReasonsOK(e, reasons), HeldOK(e, i),
           Outcome(Exposed(e), r, reasons, i)
    PROVE  HeldOK(r, i + 1)
<1> DEFINE f == Exposed(e)
           H == Held(e, i)
           last == <<Len(e.trades) + 1, i>>
<1>1. e \in EngineRecords /\ i \in Nat
  BY ReplayTypes DEF RecordOK
<1>2. /\ f \in EngineRecords /\ f.position = e.position /\ f.trades = e.trades
      /\ f.guard = e.guard
      /\ f.exposure = IF e.position = None THEN e.exposure ELSE e.exposure + 1
  BY <1>1, ExposedFields
<1> HIDE DEF f
<1>3. RecordOK(f, i) /\ ReasonsOK(f, reasons)
  BY <1>2, SameRecord
<1>4. Held(f, i) = H /\ HeldNow(f, i) = HeldNow(e, i)
  BY <1>2 DEF Held, HeldNow
<1>5. Held(r, i + 1) = H \union HeldNow(e, i)
  BY <1>3, <1>4, HeldGrows DEF f
<1>6. r.exposure = f.exposure
  BY <1>3, OutcomeKeeps DEF f, SameRest
<1>7. last \notin H
  <2>1. Len(e.trades) \in Nat /\ DOMAIN e.trades = 1..Len(e.trades)
    BY <1>1, EntriesOfRecord
  <2> QED
    BY <1>1, <2>1, HeldPairs
<1>8. IsFiniteSet(H) /\ Cardinality(H) = e.exposure /\ e.exposure \in Nat
  BY <1>1 DEF HeldOK, EngineRecords
<1> HIDE DEF H, last
<1>9. CASE e.position = None
  BY <1>2, <1>5, <1>6, <1>8, <1>9 DEF HeldOK, HeldNow
<1>10. CASE e.position # None
  <2>1. Held(r, i + 1) = H \union {last}
    BY <1>5, <1>10 DEF HeldNow, last
  <2>2. IsFiniteSet(H \union {last}) /\ Cardinality(H \union {last}) = Cardinality(H) + 1
    BY <1>7, <1>8, FS_AddElement
  <2> QED
    BY <1>2, <1>6, <1>8, <1>10, <2>1, <2>2 DEF HeldOK
<1> QED
  BY <1>9, <1>10

-----------------------------------------------------------------------------
(* The selections *)

LEMMA Multiples ==
    ASSUME NEW s \in Nat, s > 0, NEW p \in Nat, NEW q \in Nat, s * p < s * q
    PROVE  p < q
OBVIOUS

LEMMA DivisionOfMultiple ==
    ASSUME NEW s \in Nat, s > 0, NEW a \in Nat, a % s = 0
    PROVE  a \div s \in Nat /\ a = s * (a \div s)
OBVIOUS

(* A later boundary has a larger number. *)
LEMMA LaterBoundary ==
    ASSUME NEW s \in Nat, s > 0, NEW a \in Nat, NEW b \in Nat,
           a % s = 0, b % s = 0, a < b
    PROVE  a \div s < b \div s
BY DivisionOfMultiple, Multiples

LEMMA BoundaryFacts ==
    ASSUME NEW i \in Start..End, AtBoundary(i)
    PROVE  /\ Boundary(i) \in Boundaries /\ Boundary(i) \in Nat
           /\ \A j \in (i + 1)..End : AtBoundary(j) => Boundary(i) < Boundary(j)
<1>1. i - Start \in 0..(Bars - 1) /\ i - Start \in Nat /\ (i - Start) % SelectionBars = 0
  BY ReplayTypes DEF AtBoundary, End
<1>2. Boundary(i) \in Boundaries
  BY <1>1, ReplayAssumption DEF Boundary
<1>3. ASSUME NEW j \in (i + 1)..End, AtBoundary(j)
      PROVE  Boundary(i) < Boundary(j)
  <2>1. j - Start \in Nat /\ (j - Start) % SelectionBars = 0 /\ i - Start < j - Start
    BY <1>1, <1>3, ReplayTypes DEF AtBoundary
  <2> DEFINE a == i - Start
             b == j - Start
  <2> HIDE DEF a, b
  <2>2. a \div SelectionBars < b \div SelectionBars
    BY <1>1, <2>1, ReplayTypes, LaterBoundary DEF a, b
  <2> QED
    BY <2>2 DEF Boundary, a, b
<1> QED
  BY <1>2, <1>3, BoundaryAssumption

(* The state of a selector, and that it is older than every boundary to come. *)
SelectionOK(e, n) ==
    /\ SelectionValid(e)
    /\ e.selection # None =>
        \A i \in n..End : AtBoundary(i) => e.selection.last_boundary < Boundary(i)

(* What a selection changes, and that it ended with no error. *)
SelectedFrom(e, f, i) ==
    /\ f \in EngineRecords
    /\ f.position = e.position /\ f.trades = e.trades /\ f.guard = e.guard
    /\ f.equity = e.equity /\ f.exposure = e.exposure
    /\ SelectionOK(f, i + 1)

LEMMA SelectedFields ==
    ASSUME NEW e \in EngineRecords, NEW state \in States, NEW i \in Start..End,
           StateValid(state), state.last_boundary = Boundary(i), AtBoundary(i)
    PROVE  SelectedFrom(e, [e EXCEPT !.selection = state], i)
<1> DEFINE f == [e EXCEPT !.selection = state]
<1>1. /\ f \in EngineRecords
      /\ f.position = e.position /\ f.trades = e.trades /\ f.guard = e.guard
      /\ f.equity = e.equity /\ f.exposure = e.exposure /\ f.selection = state
  BY DEF EngineRecords, Optional
<1> HIDE DEF f
<1> QED
  BY <1>1, BoundaryFacts DEF SelectedFrom, SelectionOK, SelectionValid, f

LEMMA RegimeSelects ==
    ASSUME NEW e \in EngineRecords, NEW i \in Start..End, AtBoundary(i), SelectionOK(e, i),
           NEW artifact \in Artifacts, NEW assignment \in Assignments,
           CommandValid(e.selection, RegimeCommand(i, artifact, assignment)),
           AssignmentFits(RegimeCommand(i, artifact, assignment))
    PROVE  LET four == RegimeCommand(i, artifact, assignment) IN
           SelectedFrom(e, Selected(e, ExecuteError(e.selection, four),
                                    Execute(e.selection, four).state), i)
<1> DEFINE four == RegimeCommand(i, artifact, assignment)
           prior == e.selection
           result == Execute(prior, four)
<1>1. four \in Commands /\ four.boundary = Boundary(i)
  BY BoundaryFacts DEF RegimeCommand, Commands
<1>2. prior \in Optional(States) /\ (prior # None => StateValid(prior))
  BY DEF EngineRecords, SelectionOK, SelectionValid
<1>3. CommandValid(prior, four) /\ AssignmentFits(four)
  OBVIOUS
<1>4. i \in i..End
  BY ReplayTypes
<1>5. prior # None => prior.last_boundary < Boundary(i)
  BY <1>4 DEF SelectionOK
<1>6. prior # None => prior.last_boundary # Boundary(i)
  <2> SUFFICES ASSUME prior # None PROVE prior.last_boundary # Boundary(i)
    OBVIOUS
  <2>1. prior.last_boundary \in Nat
    BY <1>2, BoundaryAssumption DEF Optional, States
  <2> QED
    BY <1>5, <2>1, BoundaryFacts
<1> HIDE DEF four, prior
<1>7. /\ result.state \in States /\ StateValid(result.state) /\ ResultValid(result)
      /\ result.state.last_boundary = Boundary(i)
  BY <1>1, <1>2, <1>3, ExecuteType, ExecuteNeverInvalid
<1>8. ExecuteError(prior, four) = None
  BY <1>1, <1>3, <1>6, <1>7 DEF ExecuteError
<1> HIDE DEF result
<1>9. Selected(e, ExecuteError(prior, four), result.state) = [e EXCEPT !.selection = result.state]
  BY <1>8 DEF Selected
<1> QED
  BY <1>7, <1>9, SelectedFields DEF four, prior, result

LEMMA DailySelects ==
    ASSUME NEW e \in EngineRecords, NEW i \in Start..End, AtBoundary(i), SelectionOK(e, i),
           NEW artifact \in Artifacts, NEW reading \in Assignments \union Failures
    PROVE  LET day == DailyCommand(i, artifact, reading) IN
           SelectedFrom(e, Selected(e, DailyError(e.selection, day),
                                    DailyExecute(e.selection, day).state), i)
<1> DEFINE day == DailyCommand(i, artifact, reading)
           prior == e.selection
           result == DailyExecute(prior, day)
<1>1. day \in DailyCommands /\ day.boundary = Boundary(i)
  BY BoundaryFacts DEF DailyCommand, DailyCommands
<1>2. prior \in Optional(States)
  BY DEF EngineRecords
<1>3. i \in i..End
  BY ReplayTypes
<1>4. prior # None => ~(Boundary(i) =< prior.last_boundary)
  <2> SUFFICES ASSUME prior # None PROVE ~(Boundary(i) =< prior.last_boundary)
    OBVIOUS
  <2>1. prior.last_boundary \in Nat
    BY <1>2, BoundaryAssumption DEF Optional, States
  <2>2. prior.last_boundary < Boundary(i)
    BY <1>3 DEF SelectionOK
  <2> QED
    BY <2>1, <2>2, BoundaryFacts
<1> HIDE DEF day, prior
<1>5. /\ result.state \in States /\ StateValid(result.state) /\ ResultValid(result)
  BY <1>1, <1>2, DailyNeverInvalid
<1>6. result.state.last_boundary = Boundary(i)
  BY <1>1, <1>2, DailyStateFields DEF DailyExecute
<1>7. DailyError(prior, day) = None
  BY <1>1, <1>4, <1>5 DEF DailyError
<1> HIDE DEF result
<1>8. Selected(e, DailyError(prior, day), result.state) = [e EXCEPT !.selection = result.state]
  BY <1>7 DEF Selected
<1> QED
  BY <1>5, <1>6, <1>8, SelectedFields DEF day, prior, result

-----------------------------------------------------------------------------
(* The engines side by side *)

(* While candles remain, the guards of the traded candidate agree as well.    *)
Agrees(e, f, n) ==
    /\ e.trades = f.trades /\ e.position = f.position /\ e.equity = f.equity
    /\ n =< End => e.guard[Traded] = f.guard[Traded]

SoleOwner(f) == f.position # None => f.position.owner = Traded

LEMMA ClosedAgrees ==
    ASSUME NEW e \in EngineRecords, NEW f \in EngineRecords, NEW i \in Start..End,
           Agrees(e, f, i), e.position # None, SoleOwner(f),
           NEW price \in Int, NEW reason \in AllReasons
    PROVE  LET trade == CloseTrade(e.position, price, reason, i)
               c == RecordClosed(e, trade, i)
               d == RecordClosed(f, trade, i)
           IN  /\ c \in EngineRecords /\ c.position = None
               /\ d \in EngineRecords /\ d.position = None
               /\ c.trades = d.trades /\ c.equity = d.equity
               /\ c.guard[Traded] = d.guard[Traded]
<1> DEFINE trade == CloseTrade(e.position, price, reason, i)
           c == RecordClosed(e, trade, i)
           d == RecordClosed(f, trade, i)
<1>1. /\ e.position \in Positions /\ f.position = e.position /\ e.position.owner = Traded
      /\ e.equity = f.equity /\ e.trades = f.trades /\ e.guard[Traded] = f.guard[Traded]
      /\ i \in Nat
  BY ReplayTypes, SMTT(30) DEF Agrees, SoleOwner, EngineRecords, Optional
<1>2. /\ trade \in TradeRecords /\ trade.owner = Traded
      /\ trade.owner = e.position.owner /\ trade.opened = e.position.opened
  BY <1>1, TradeTypes
<1> HIDE DEF trade
<1>3. c = Closed(e, trade, Told(e, trade, i)) /\ d = Closed(f, trade, Told(f, trade, i))
  BY RecordClosedIsClosed
<1>4. /\ Told(e, trade, i) \in [Strategies -> Guards] /\ Told(f, trade, i) \in [Strategies -> Guards]
  BY <1>1, <1>2, ToldType
<1>5. /\ c \in EngineRecords /\ c.position = None /\ c.guard = Told(e, trade, i)
      /\ d \in EngineRecords /\ d.position = None /\ d.guard = Told(f, trade, i)
      /\ c.trades = Append(e.trades, trade) /\ d.trades = Append(f.trades, trade)
  BY <1>1, <1>2, <1>3, <1>4, ClosedEntries
<1>6. c.equity = e.equity + trade.net /\ d.equity = f.equity + trade.net
  BY <1>3 DEF Closed, EngineRecords
<1>7. Told(e, trade, i)[Traded] = Told(f, trade, i)[Traded]
  <2>1. /\ e.guard \in [Strategies -> Guards] /\ f.guard \in [Strategies -> Guards]
        /\ Traded \in Strategies
    BY ReplayTypes DEF EngineRecords
  <2> QED
    BY <1>1, <1>2, <2>1 DEF Told
<1> HIDE DEF c, d
<1> QED
  BY <1>1, <1>5, <1>6, <1>7 DEF c, d, trade

LEMMA TryEntryAgrees ==
    ASSUME NEW e \in EngineRecords, NEW f \in EngineRecords, NEW i \in Start..End, i < End,
           NEW candle \in Candles, NEW signal, Agrees(e, f, i), e.position = None
    PROVE  LET a == TryEntry(e, Traded, candle, signal, i)
               b == TryEntry(f, Traded, candle, signal, i)
           IN  Agrees(a, b, i + 1) /\ SoleOwner(b)
<1> DEFINE allows == /\ signal \in Directions
                     /\ Allows(Rolled(e.guard[Traded], i, e.equity), i, e.equity)
           p == OpenPosition(Traded, candle, signal, i)
           g == Rolled(e.guard[Traded], i, e.equity)
<1>1. /\ f.position = None /\ e.equity = f.equity /\ e.trades = f.trades
      /\ e.guard[Traded] = f.guard[Traded]
      /\ e.guard \in [Strategies -> Guards] /\ f.guard \in [Strategies -> Guards]
      /\ Traded \in Strategies
  BY ReplayTypes DEF Agrees, EngineRecords
<1>2. ASSUME NEW x \in {e, f}
      PROVE  LET t == TryEntry(x, Traded, candle, signal, i) IN
             /\ t.trades = x.trades /\ t.equity = x.equity
             /\ t.guard[Traded] = IF allows THEN RecordEntry(g, i) ELSE g
             /\ t.position = IF allows THEN p ELSE None
  <2>1. x \in EngineRecords /\ x.guard \in [Strategies -> Guards]
          /\ Rolled(x.guard[Traded], i, x.equity) = g /\ x.position = None
    BY <1>1
  <2> DEFINE rolled == RolledEngine(x, Traded, i)
  <2>2. /\ rolled.guard = [x.guard EXCEPT ![Traded] = g] /\ rolled.trades = x.trades
        /\ rolled.equity = x.equity /\ rolled.position = None
        /\ rolled \in [position : {rolled.position}, equity : {rolled.equity},
                       guard : {rolled.guard}, trades : {rolled.trades},
                       selection : {rolled.selection}, exposure : {rolled.exposure},
                       error : {rolled.error}]
    BY <2>1 DEF RolledEngine, EngineRecords
  <2>3. rolled.guard[Traded] = g /\ Traded \in DOMAIN rolled.guard
    BY <1>1, <2>1, <2>2
  <2>4. TryEntry(x, Traded, candle, signal, i) =
            IF allows
            THEN [rolled EXCEPT !.position = p, !.guard[Traded] = RecordEntry(@, i)]
            ELSE rolled
    <3>1. e.equity = x.equity
      BY <1>1
    <3> QED
      BY <2>3, <3>1 DEF TryEntry, RolledEngine
  <2> HIDE DEF rolled, allows, p, g
  <2> QED
    BY <2>2, <2>3, <2>4
<1>3. SoleOwner(TryEntry(f, Traded, candle, signal, i))
  <2>1. p.owner = Traded
    BY DEF OpenPosition
  <2> QED
    BY <1>2, <2>1 DEF SoleOwner
<1> HIDE DEF allows, p, g
<1> QED
  BY <1>1, <1>2, <1>3 DEF Agrees

LEMMA RegimeAgrees ==
    ASSUME NEW e \in EngineRecords, NEW f \in EngineRecords, NEW i \in Start..End,
           NEW candle \in Candles, NEW signal,
           Agrees(e, f, i), SoleOwner(f), Entering(e) = {Traded}
    PROVE  LET a == ForceClose(RegimeStep(e, candle, signal, i), candle, i)
               b == SingleForceClose(SingleStep(f, candle, signal, i), candle, i)
           IN  Agrees(a, b, i + 1)
<1>1. e.position = f.position /\ i \in Nat /\ i =< End /\ candle.close \in Int
  BY ReplayTypes DEF Agrees
<1>2. e.selection.active = Traded /\ Entering(e) # {}
  BY DEF Entering
<1>3. CASE e.position = None /\ i < End
  <2> DEFINE a == TryEntry(e, Traded, candle, signal, i)
             b == TryEntry(f, Traded, candle, signal, i)
  <2>1. RegimeStep(e, candle, signal, i) = a /\ SingleStep(f, candle, signal, i) = b
    BY <1>1, <1>2, <1>3, ReplayTypes DEF RegimeStep, SingleStep
  <2>2. ForceClose(a, candle, i) = a
    BY <1>3 DEF ForceClose
  <2>3. SingleForceClose(b, candle, i) = [b EXCEPT !.guard = b.guard]
    BY <1>3 DEF SingleForceClose, ForceClose
  <2>4. Agrees(a, b, i + 1)
    BY <1>3, TryEntryAgrees
  <2> HIDE DEF a, b
  <2>5. /\ [b EXCEPT !.guard = b.guard].trades = b.trades
        /\ [b EXCEPT !.guard = b.guard].position = b.position
        /\ [b EXCEPT !.guard = b.guard].equity = b.equity
        /\ [b EXCEPT !.guard = b.guard].guard = b.guard
    BY DEF b, TryEntry, EngineRecords
  <2> QED
    BY <2>1, <2>2, <2>3, <2>4, <2>5 DEF Agrees
<1>4. CASE e.position = None /\ ~(i < End)
  <2>1. RegimeStep(e, candle, signal, i) = e /\ SingleStep(f, candle, signal, i) = f
    BY <1>1, <1>4, ReplayTypes DEF RegimeStep, SingleStep
  <2>2. ForceClose(e, candle, i) = e /\ SingleForceClose(f, candle, i) = f
    BY <1>1, <1>4, ForceCloseNothing
  <2> QED
    BY <1>1, <1>4, <2>1, <2>2, ReplayTypes DEF Agrees
<1>5. CASE e.position # None
  <2> DEFINE owners == MaybeClose(e.position, candle, i)
  <2>1. e.position \in Positions
    BY <1>5 DEF EngineRecords, Optional
  <2>2. CASE owners # None
    <3>1. PICK price \in Int, reason \in {"stop_loss", "take_profit", "max_holding_time"} :
            owners = CloseTrade(e.position, price, reason, i)
      BY <2>1, <2>2, MaybeCloseOutcomes
    <3> DEFINE c == RecordClosed(e, owners, i)
               d == RecordClosed(f, owners, i)
    <3>2. RegimeStep(e, candle, signal, i) = c /\ SingleStep(f, candle, signal, i) = d
      BY <1>1, <1>5, <2>2 DEF RegimeStep, SingleStep
    <3> HIDE DEF owners
    <3>3. /\ c \in EngineRecords /\ c.position = None
          /\ d \in EngineRecords /\ d.position = None
          /\ c.trades = d.trades /\ c.equity = d.equity
          /\ c.guard[Traded] = d.guard[Traded]
      BY <1>5, <3>1, ClosedAgrees DEF AllReasons
    <3> HIDE DEF c, d
    <3>4. ForceClose(c, candle, i) = c /\ SingleForceClose(d, candle, i) = d
      BY <3>3, ForceCloseNothing
    <3> QED
      BY <3>2, <3>3, <3>4 DEF Agrees
  <2>3. CASE owners = None /\ i < End
    <3>1. RegimeStep(e, candle, signal, i) = e /\ SingleStep(f, candle, signal, i) = f
      BY <1>1, <1>5, <2>3 DEF RegimeStep, SingleStep
    <3>2. ForceClose(e, candle, i) = e /\ SingleForceClose(f, candle, i) = f
      BY <2>3, ForceCloseNothing
    <3> QED
      BY <1>1, <3>1, <3>2 DEF Agrees
  <2>4. CASE owners = None /\ ~(i < End)
    <3> DEFINE trade == CloseTrade(e.position, candle.close, "end_of_data", i)
               c == RecordClosed(e, trade, i)
               d == RecordClosed(f, trade, i)
    <3>1. RegimeStep(e, candle, signal, i) = e /\ SingleStep(f, candle, signal, i) = f
      BY <1>1, <1>5, <2>4 DEF RegimeStep, SingleStep
    <3>2. ForceClose(e, candle, i) = c /\ ForceClose(f, candle, i) = d
      BY <1>1, <1>5, <2>4 DEF ForceClose
    <3> HIDE DEF trade
    <3>3. /\ c \in EngineRecords /\ c.position = None
          /\ d \in EngineRecords /\ d.position = None
          /\ c.trades = d.trades /\ c.equity = d.equity
      BY <1>1, <1>5, ClosedAgrees DEF AllReasons, trade
    <3> HIDE DEF c, d
    <3>4. LET s == SingleForceClose(f, candle, i) IN
          s.trades = d.trades /\ s.position = d.position /\ s.equity = d.equity
      BY <3>2, <3>3 DEF SingleForceClose, EngineRecords
    <3> QED
      BY <1>1, <2>4, <3>1, <3>2, <3>3, <3>4, ReplayTypes DEF Agrees
  <2> QED
    BY <2>2, <2>3, <2>4
<1> QED
  BY <1>3, <1>4, <1>5

(* With the entry owner's exits only, the daily loop is the four-hour one.    *)
LEMMA DailyIsRegime ==
    ASSUME NEW e \in EngineRecords, NEW candle, NEW signal, NEW i,
           policy = "entry_owner_only"
    PROVE  DailyStep(e, candle, signal, i) = RegimeStep(Exposed(e), candle, signal, i)
<1> DEFINE f == Exposed(e)
<1>1. f.position = e.position /\ f.selection = e.selection
  BY ExposedFields
<1>2. OppositeExit(e, candle, signal, i) = None
  BY DEF OppositeExit
<1>3. CASE e.position # None
  <2>1. f = [e EXCEPT !.exposure = @ + 1]
    BY <1>3 DEF Exposed
  <2> HIDE DEF f
  <2>2. DailyStep(e, candle, signal, i) =
            LET owners == MaybeClose(e.position, candle, i)
                trade == IF owners = None THEN OppositeExit(e, candle, signal, i) ELSE owners
            IN  IF trade = None THEN f ELSE RecordClosed(f, trade, i)
    BY <1>3, <2>1 DEF DailyStep
  <2>3. DailyStep(e, candle, signal, i) =
            LET trade == MaybeClose(f.position, candle, i)
            IN  IF trade = None THEN f ELSE RecordClosed(f, trade, i)
    BY <1>1, <1>2, <2>2
  <2>4. RegimeStep(f, candle, signal, i) =
            LET trade == MaybeClose(f.position, candle, i)
            IN  IF trade = None THEN f ELSE RecordClosed(f, trade, i)
    BY <1>1, <1>3 DEF RegimeStep
  <2> QED
    BY <2>3, <2>4 DEF f
<1>4. CASE e.position = None
  <2>1. f = e
    BY <1>4 DEF Exposed
  <2> QED
    BY <1>4, <2>1 DEF DailyStep, RegimeStep
<1> QED
  BY <1>3, <1>4

LEMMA SoleOwnerStays ==
    ASSUME NEW f \in EngineRecords, NEW candle \in Candles, NEW signal, NEW i \in Start..End,
           SoleOwner(f)
    PROVE  SoleOwner(SingleForceClose(SingleStep(f, candle, signal, i), candle, i))
<1> DEFINE r == SingleForceClose(SingleStep(f, candle, signal, i), candle, i)
<1>1. i \in Nat /\ i =< End /\ End \in Nat
  BY ReplayTypes
<1>2. CASE f.position # None
  <2>1. Outcome(f, r, OwnReasons, i) /\ ~TriesEntry(f, r, i)
    BY <1>2, SingleOutcome DEF TriesEntry
  <2>2. r.position = None \/ r = f
    BY <2>1 DEF Outcome, Rests, Closes, Closed, EngineRecords
  <2> QED
    BY <2>2 DEF SoleOwner
<1>3. CASE f.position = None /\ i < End
  <2> DEFINE t == TryEntry(f, Traded, candle, signal, i)
  <2>1. SingleStep(f, candle, signal, i) = t
    BY <1>1, <1>3 DEF SingleStep
  <2>2. Agrees(f, f, i)
    BY DEF Agrees
  <2>3. SoleOwner(t)
    BY <1>3, <2>2, TryEntryAgrees
  <2>4. SingleForceClose(t, candle, i) = [t EXCEPT !.guard = t.guard]
    BY <1>3 DEF SingleForceClose, ForceClose
  <2>5. [t EXCEPT !.guard = t.guard].position = t.position
    BY DEF TryEntry, EngineRecords
  <2> QED
    BY <2>1, <2>3, <2>4, <2>5 DEF SoleOwner
<1>4. CASE f.position = None /\ ~(i < End)
  <2>1. SingleStep(f, candle, signal, i) = f
    BY <1>1, <1>4 DEF SingleStep
  <2>2. SingleForceClose(f, candle, i) = f
    BY <1>4, ForceCloseNothing
  <2> QED
    BY <2>1, <2>2 DEF SoleOwner
<1> QED
  BY <1>2, <1>3, <1>4

-----------------------------------------------------------------------------
(* The invariant *)

Agreement ==
    \A x \in steady :
        (x = "daily" => policy = "entry_owner_only") => Agrees(engine[x], engine["single"], index)

Inv ==
    /\ index \in Start..(End + 1)
    /\ policy \in Policies
    /\ steady \subseteq {"regime", "daily"}
    /\ \A x \in Engines :
        RecordOK(engine[x], index) /\ ReasonsOK(engine[x], Reasons(x, policy))
    /\ SelectionOK(engine["regime"], index) /\ SelectionOK(engine["daily"], index)
    /\ HeldOK(engine["daily"], index)
    /\ SoleOwner(engine["single"])
    /\ Agreement

LEMMA ReasonsType ==
    ASSUME NEW x, NEW exits
    PROVE  Reasons(x, exits) \in SUBSET AllReasons /\ OwnReasons \subseteq Reasons(x, exits)
BY DEF Reasons, AllReasons, OwnReasons

(* The three outcomes of a candle, and what they keep. *)
LEMMA StepOutcomes ==
    ASSUME Inv, index =< End, NEW candle \in Candles, NEW signal,
           NEW r, SelectedFrom(engine["regime"], r, index),
           NEW d, SelectedFrom(engine["daily"], d, index)
    PROVE  /\ index \in Start..End
           /\ r \in EngineRecords /\ d \in EngineRecords
           /\ LET S == SingleForceClose(SingleStep(engine["single"], candle, signal, index),
                                        candle, index)
                  R == ForceClose(RegimeStep(r, candle, signal, index), candle, index)
                  D == ForceClose(DailyStep(d, candle, signal, index), candle, index)
              IN  /\ RecordOK(S, index + 1) /\ ReasonsOK(S, Reasons("single", policy))
                  /\ RecordOK(R, index + 1) /\ ReasonsOK(R, Reasons("regime", policy))
                  /\ RecordOK(D, index + 1) /\ ReasonsOK(D, Reasons("daily", policy))
                  /\ SelectionOK(R, index + 1) /\ SelectionOK(D, index + 1)
                  /\ HeldOK(D, index + 1)
                  /\ SoleOwner(S)
<1> DEFINE s == engine["single"]
           S == SingleForceClose(SingleStep(s, candle, signal, index), candle, index)
           R == ForceClose(RegimeStep(r, candle, signal, index), candle, index)
           D == ForceClose(DailyStep(d, candle, signal, index), candle, index)
<1>1. index \in Start..End
  BY ReplayTypes DEF Inv
<1>2. /\ RecordOK(s, index) /\ ReasonsOK(s, Reasons("single", policy))
      /\ RecordOK(engine["regime"], index) /\ ReasonsOK(engine["regime"], Reasons("regime", policy))
      /\ RecordOK(engine["daily"], index) /\ ReasonsOK(engine["daily"], Reasons("daily", policy))
      /\ SoleOwner(s) /\ HeldOK(engine["daily"], index)
  BY DEF Inv, Engines
<1>3. /\ r \in EngineRecords /\ SelectionOK(r, index + 1)
      /\ d \in EngineRecords /\ SelectionOK(d, index + 1)
  BY DEF SelectedFrom
<1>4. /\ RecordOK(r, index) /\ ReasonsOK(r, Reasons("regime", policy))
      /\ RecordOK(d, index) /\ ReasonsOK(d, Reasons("daily", policy))
  BY <1>2, SameRecord DEF SelectedFrom
<1>5. s \in EngineRecords
  BY <1>2 DEF RecordOK
<1> HIDE DEF s
<1>6. RecordOK(S, index + 1) /\ ReasonsOK(S, Reasons("single", policy)) /\ SoleOwner(S)
  <2>1. Outcome(s, S, Reasons("single", policy), index)
    BY <1>1, <1>5, ReasonsType, SingleOutcome
  <2>2. RecordOK(S, index + 1) /\ ReasonsOK(S, Reasons("single", policy))
    BY <1>1, <1>2, <2>1, ReasonsType, OutcomeKeeps
  <2>3. SoleOwner(S)
    BY <1>1, <1>2, <1>5, SoleOwnerStays
  <2> QED
    BY <2>2, <2>3
<1>7. RecordOK(R, index + 1) /\ ReasonsOK(R, Reasons("regime", policy)) /\ SelectionOK(R, index + 1)
  <2>1. SelectionValid(r)
    BY <1>3 DEF SelectionOK
  <2>2. Outcome(r, R, Reasons("regime", policy), index)
    BY <1>1, <1>3, <2>1, ReasonsType, RegimeOutcome
  <2> HIDE DEF R
  <2>3. RecordOK(R, index + 1) /\ ReasonsOK(R, Reasons("regime", policy)) /\ SameRest(r, R)
    BY <1>1, <1>4, <2>2, ReasonsType, OutcomeKeeps
  <2> QED
    BY <1>3, <2>3 DEF SameRest, SelectionOK, SelectionValid
<1>8. /\ RecordOK(D, index + 1) /\ ReasonsOK(D, Reasons("daily", policy))
      /\ SelectionOK(D, index + 1) /\ HeldOK(D, index + 1)
  <2>1. SelectionValid(d)
    BY <1>3 DEF SelectionOK
  <2>2. Outcome(Exposed(d), D, Reasons("daily", policy), index)
    BY <1>1, <1>3, <2>1, DailyOutcome
  <2> HIDE DEF D
  <2>3. HeldOK(d, index)
    <3>1. Held(d, index) = Held(engine["daily"], index) /\ d.exposure = engine["daily"].exposure
      BY DEF SelectedFrom, Held
    <3> QED
      BY <1>2, <3>1 DEF HeldOK
  <2>4. HeldOK(D, index + 1)
    BY <1>1, <1>4, <2>2, <2>3, ReasonsType, HeldStaysCounted
  <2>5. /\ RecordOK(Exposed(d), index) /\ ReasonsOK(Exposed(d), Reasons("daily", policy))
        /\ Exposed(d).selection = d.selection
    BY <1>3, <1>4, ExposedFields, SameRecord
  <2>6. RecordOK(D, index + 1) /\ ReasonsOK(D, Reasons("daily", policy)) /\ SameRest(Exposed(d), D)
    BY <1>1, <2>2, <2>5, ReasonsType, OutcomeKeeps
  <2> QED
    BY <1>3, <2>4, <2>5, <2>6 DEF SameRest, SelectionOK, SelectionValid
<1> QED
  BY <1>1, <1>3, <1>6, <1>7, <1>8 DEF s

LEMMA StepInv ==
    ASSUME Inv, index =< End, NEW candle \in Candles, NEW signal,
           NEW r, SelectedFrom(engine["regime"], r, index),
           NEW d, SelectedFrom(engine["daily"], d, index),
           Step(r, d, candle, signal)
    PROVE  Inv'
<1> DEFINE s == engine["single"]
           S == SingleForceClose(SingleStep(s, candle, signal, index), candle, index)
           R == ForceClose(RegimeStep(r, candle, signal, index), candle, index)
           D == ForceClose(DailyStep(d, candle, signal, index), candle, index)
<1>1. /\ index \in Start..End
      /\ r \in EngineRecords /\ d \in EngineRecords
      /\ RecordOK(S, index + 1) /\ ReasonsOK(S, Reasons("single", policy))
      /\ RecordOK(R, index + 1) /\ ReasonsOK(R, Reasons("regime", policy))
      /\ RecordOK(D, index + 1) /\ ReasonsOK(D, Reasons("daily", policy))
      /\ SelectionOK(R, index + 1) /\ SelectionOK(D, index + 1)
      /\ HeldOK(D, index + 1)
      /\ SoleOwner(S)
  BY StepOutcomes
<1>2. r.error = None /\ d.error = None
  BY <1>1 DEF EngineRecords
<1>3. /\ engine' = [single |-> S, regime |-> R, daily |-> D]
      /\ index' = index + 1 /\ policy' = policy
      /\ steady' = {x \in steady : Entering(IF x = "regime" THEN r ELSE d) = {Traded}}
  BY <1>2 DEF Step
<1> HIDE DEF S, R, D
<1>4. engine'["single"] = S /\ engine'["regime"] = R /\ engine'["daily"] = D
  BY <1>3
<1>5. index' \in Start..(End + 1) /\ policy' \in Policies /\ steady' \subseteq {"regime", "daily"}
  <2>1. index' \in Start..(End + 1)
    BY <1>1, <1>3, ReplayTypes
  <2>2. policy' \in Policies
    BY <1>3 DEF Inv
  <2>3. steady' \subseteq {"regime", "daily"}
    BY <1>3 DEF Inv
  <2> QED
    BY <2>1, <2>2, <2>3
<1>6. \A x \in Engines :
        RecordOK(engine'[x], index') /\ ReasonsOK(engine'[x], Reasons(x, policy'))
  BY <1>1, <1>3, <1>4 DEF Engines
<1>7. /\ SelectionOK(engine'["regime"], index') /\ SelectionOK(engine'["daily"], index')
      /\ HeldOK(engine'["daily"], index') /\ SoleOwner(engine'["single"])
  BY <1>1, <1>3, <1>4
<1>8. s \in EngineRecords /\ SoleOwner(s)
  BY DEF Inv, Engines, RecordOK
<1>9. ASSUME NEW x \in steady', x = "daily" => policy = "entry_owner_only"
      PROVE  Agrees(engine'[x], engine'["single"], index')
  <2>1. x \in steady /\ x \in {"regime", "daily"}
    BY <1>3, <1>5
  <2>2. Agrees(engine[x], s, index)
    BY <1>9, <2>1 DEF Inv, Agreement
  <2> HIDE DEF s
  <2>3. CASE x = "regime"
    <3>1. Entering(r) = {Traded}
      BY <1>3, <2>3
    <3>2. Agrees(r, s, index)
      BY <2>2, <2>3 DEF SelectedFrom, Agrees
    <3>3. Agrees(R, S, index + 1)
      BY <1>1, <1>8, <3>1, <3>2, RegimeAgrees DEF R, S
    <3> QED
      BY <1>3, <1>4, <2>3, <3>3
  <2>4. CASE x = "daily"
    <3> DEFINE f == Exposed(d)
    <3>1. Entering(d) = {Traded} /\ policy = "entry_owner_only"
      BY <1>3, <1>9, <2>4
    <3>2. /\ f \in EngineRecords /\ f.position = d.position /\ f.trades = d.trades
          /\ f.guard = d.guard /\ f.equity = d.equity /\ f.selection = d.selection
      BY <1>1, ExposedFields
    <3>3. D = ForceClose(RegimeStep(f, candle, signal, index), candle, index)
      BY <1>1, <3>1, DailyIsRegime DEF D
    <3> HIDE DEF f
    <3>4. Agrees(f, s, index)
      BY <2>2, <2>4, <3>2 DEF SelectedFrom, Agrees
    <3>5. Entering(f) = {Traded}
      BY <3>1, <3>2 DEF Entering
    <3>6. Agrees(D, S, index + 1)
      BY <1>1, <1>8, <3>2, <3>3, <3>4, <3>5, RegimeAgrees DEF S
    <3> QED
      BY <1>3, <1>4, <2>4, <3>6
  <2> QED
    BY <2>1, <2>3, <2>4
<1>10. Agreement'
  BY <1>3, <1>9 DEF Agreement
<1> QED
  BY <1>5, <1>6, <1>7, <1>10 DEF Inv

(* Away from a boundary the selection is the one before. *)
LEMMA NoBoundarySelects ==
    ASSUME NEW e \in EngineRecords, NEW i \in Start..End, ~AtBoundary(i), SelectionOK(e, i)
    PROVE  SelectedFrom(e, e, i)
<1>1. \A j \in (i + 1)..End : j \in i..End
  BY ReplayTypes
<1> QED
  BY <1>1 DEF SelectedFrom, SelectionOK

LEMMA CandleInv ==
    ASSUME Inv, NEW candle \in Candles, NEW signal, Candle(candle, signal)
    PROVE  Inv'
<1>1. /\ index =< End /\ ~AtBoundary(index)
      /\ Step(engine["regime"], engine["daily"], candle, signal)
  BY DEF Candle
<1>2. index \in Start..End
  BY <1>1, ReplayTypes DEF Inv
<1>3. /\ engine["regime"] \in EngineRecords /\ engine["daily"] \in EngineRecords
      /\ SelectionOK(engine["regime"], index) /\ SelectionOK(engine["daily"], index)
  BY DEF Inv, Engines, RecordOK
<1>4. /\ SelectedFrom(engine["regime"], engine["regime"], index)
      /\ SelectedFrom(engine["daily"], engine["daily"], index)
  BY <1>1, <1>2, <1>3, NoBoundarySelects
<1> QED
  BY <1>1, <1>4, StepInv

LEMMA BoundaryCandleInv ==
    ASSUME Inv, NEW candle \in Candles, NEW signal, NEW artifact \in Artifacts,
           NEW assignment \in Assignments, NEW reading \in Assignments \union Failures,
           BoundaryCandle(candle, signal, artifact, assignment, reading)
    PROVE  Inv'
<1> DEFINE r == engine["regime"]
           d == engine["daily"]
           four == RegimeCommand(index, artifact, assignment)
           day == DailyCommand(index, artifact, reading)
           r2 == Selected(r, ExecuteError(r.selection, four), Execute(r.selection, four).state)
           d2 == Selected(d, DailyError(d.selection, day), DailyExecute(d.selection, day).state)
<1>1. /\ index =< End /\ AtBoundary(index)
      /\ CommandValid(r.selection, four) /\ AssignmentFits(four)
      /\ Step(r2, d2, candle, signal)
  BY DEF BoundaryCandle
<1>2. index \in Start..End
  BY <1>1, ReplayTypes DEF Inv
<1>3. /\ r \in EngineRecords /\ d \in EngineRecords
      /\ SelectionOK(r, index) /\ SelectionOK(d, index)
  BY DEF Inv, Engines, RecordOK
<1>4. SelectedFrom(r, r2, index)
  BY <1>1, <1>2, <1>3, RegimeSelects
<1>5. SelectedFrom(d, d2, index)
  BY <1>1, <1>2, <1>3, DailySelects
<1> HIDE DEF r2, d2
<1> QED
  BY <1>1, <1>4, <1>5, StepInv

LEMMA InitInv == Init => Inv
<1> SUFFICES ASSUME Init PROVE Inv
  OBVIOUS
<1>1. index = Start /\ policy \in Policies /\ steady = {"regime", "daily"}
        /\ \A x \in Engines : engine[x] = NewEngine
  BY DEF Init
<1> DEFINE e == NewEngine
<1>2. /\ e.position = None /\ e.trades = <<>> /\ e.selection = None /\ e.exposure = 0
      /\ e.guard = [s \in Strategies |-> NewGuard]
  BY DEF NewEngine
<1>3. NewGuard \in Guards
  BY ReplayTypes DEF NewGuard, Guards, Optional
<1>4. e \in EngineRecords
  BY <1>3, ReplayTypes DEF NewEngine, EngineRecords, Optional
<1> HIDE DEF e
<1>5. Opened(e) \in Seq(Entries) /\ Len(Opened(e)) = 0 /\ DOMAIN Opened(e) = {}
        /\ DOMAIN e.trades = {}
  <2>1. Opened(e) \in Seq(Entries) /\ Len(Opened(e)) = Len(e.trades)
    BY <1>2, <1>4, EntriesOfRecord
  <2>2. Len(e.trades) = 0 /\ DOMAIN e.trades = {}
    BY <1>2
  <2> QED
    BY <2>1, <2>2, LenProperties
<1>6. ASSUME NEW s \in Strategies
      PROVE  GuardKnows(e.guard[s], Opened(e), e.trades, s, Start)
  <2> DEFINE g == NewGuard
  <2>1. e.guard[s] = g
    BY <1>2
  <2>2. g.last_entry = None /\ g.losses = 0 /\ g.day_start = 0 /\ g.day_count = 0
    BY DEF NewGuard
  <2> HIDE DEF g
  <2>3. Today(Opened(e), s, g.day_start) = {}
    BY <1>5 DEF Today
  <2>4. DayCounted(g, Opened(e), s)
    BY <2>2, <2>3, FS_EmptySet, ReplayTypes DEF DayCounted
  <2> QED
    BY <1>5, <2>1, <2>2, <2>4, ReplayTypes DEF GuardKnows
<1>7. RecordOK(e, Start) /\ \A reasons : ReasonsOK(e, reasons)
  <2>1. EntriesKept(Opened(e), Start) /\ TradesBefore(Opened(e), e.trades)
    BY <1>5 DEF EntriesKept, TradesBefore
  <2> QED
    BY <1>2, <1>4, <1>5, <1>6, <2>1 DEF RecordOK, ReasonsOK
<1>8. SelectionOK(e, Start) /\ SoleOwner(e)
  BY <1>2 DEF SelectionOK, SelectionValid, SoleOwner
<1>9. HeldOK(e, Start)
  <2>1. Held(e, Start) = {}
    BY <1>2, <1>5 DEF Held
  <2> QED
    BY <1>2, <2>1, FS_EmptySet DEF HeldOK
<1>10. Agreement
  BY <1>1 DEF Agreement, Agrees, Engines
<1> QED
  BY <1>1, <1>7, <1>8, <1>9, <1>10, ReplayTypes DEF Inv, Engines, e

LEMMA NextInv == Inv /\ [Next]_vars => Inv'
<1> SUFFICES ASSUME Inv, [Next]_vars PROVE Inv'
  OBVIOUS
<1>1. CASE Next
  <2>1. PICK candle \in Candles, signal \in Directions \union {"WAIT"} :
            \/ Candle(candle, signal)
            \/ \E artifact \in Artifacts, assignment \in Assignments,
                  reading \in Assignments \union Failures :
                    BoundaryCandle(candle, signal, artifact, assignment, reading)
    BY <1>1 DEF Next
  <2> QED
    BY <2>1, CandleInv, BoundaryCandleInv
<1>2. CASE UNCHANGED vars
  BY <1>2 DEF vars, Inv, Agreement
<1> QED
  BY <1>1, <1>2

LEMMA Invariance == Spec => []Inv
BY InitInv, NextInv, PTL DEF Spec

-----------------------------------------------------------------------------
(* What follows *)

LEMMA TypesHold == Inv => TypeOK
<1> SUFFICES ASSUME Inv PROVE TypeOK
  OBVIOUS
<1>1. index \in Start..(End + 1) /\ policy \in Policies /\ steady \subseteq {"regime", "daily"}
  BY DEF Inv
<1>2. ASSUME NEW x \in Engines
      PROVE  LET e == engine[x] IN
             /\ e.position \in Optional(Positions)
             /\ e.trades \in Seq(TradeRecords)
             /\ e.equity \in Int
             /\ e.selection \in Optional(States)
  BY DEF Inv, RecordOK, EngineRecords
<1>3. ASSUME NEW x \in Engines, NEW s \in Strategies
      PROVE  LET g == engine[x].guard[s] IN
             /\ g.last_entry \in Optional(Start..End)
             /\ g.day_count \in 0..MaxDaily
             /\ g.losses \in 0..Bars
  <2> DEFINE e == engine[x]
             g == e.guard[s]
  <2>1. GuardKnows(g, Opened(e), e.trades, s, index) /\ e \in EngineRecords
    BY DEF Inv, RecordOK
  <2>2. g \in Guards
    BY <2>1 DEF EngineRecords
  <2>3. g.last_entry \in Optional(Start..End)
    BY <2>1 DEF GuardKnows, Optional
  <2>4. g.day_count \in 0..MaxDaily
    BY <2>1, <2>2, ReplayTypes DEF GuardKnows, DayCounted, Guards
  <2>5. g.losses \in 0..Bars
    <3>1. g.losses \in Nat
      BY <2>2 DEF Guards
    <3>2. g.losses =< IF index > Start THEN index - 1 - Start ELSE 0
      BY <2>1 DEF GuardKnows
    <3> QED
      BY <1>1, <3>1, <3>2, ReplayTypes DEF End
  <2> QED
    BY <2>3, <2>4, <2>5
<1> QED
  BY <1>1, <1>2, <1>3 DEF TypeOK

(* Every replay goes through: each engine keeps values of its types, the      *)
(* candles the daily engine counts as exposure are those of its trades and of *)
(* its open position, and neither selector ever ends a replay with an error.  *)
THEOREM ReplaysStayReconciled == Spec => []ReplaysReconcile
<1>1. Inv => ReplaysReconcile
  <2> SUFFICES ASSUME Inv PROVE ReplaysReconcile
    OBVIOUS
  <2>1. ExposureReconciles
    BY DEF Inv, HeldOK, ExposureReconciles
  <2>2. SelectionNeverFails
    BY DEF Inv, RecordOK, EngineRecords, SelectionNeverFails
  <2> QED
    BY <2>1, <2>2, TypesHold DEF ReplaysReconcile
<1> QED
  BY <1>1, Invariance, PTL

LEMMA GuardsAreHeld == Inv => GuardsHold
<1> SUFFICES ASSUME Inv, NEW x \in Engines
             PROVE  LET e == engine[x]
                        opened == Opened(e)
                    IN
                    /\ \A j, k \in DOMAIN opened :
                        (j < k /\ opened[j].owner = opened[k].owner)
                            => opened[k].at - opened[j].at >= MinBetween
                    /\ \A j \in DOMAIN e.trades, k \in DOMAIN opened :
                        (e.trades[j].net < 0 /\ e.trades[j].owner = opened[k].owner
                            /\ opened[k].at > e.trades[j].closed)
                            => opened[k].at - e.trades[j].closed >= PauseBars
                    /\ \A s \in Strategies :
                        Cardinality({k \in DOMAIN opened :
                            opened[k].owner = s /\ opened[k].at >= e.guard[s].day_start}) =< MaxDaily
  BY DEF GuardsHold
<1> DEFINE e == engine[x]
           o == Opened(e)
<1>1. RecordOK(e, index) /\ e \in EngineRecords
  BY DEF Inv, RecordOK
<1> HIDE DEF e, o
<1>2. EntriesKept(o, index) /\ TradesBefore(o, e.trades)
  BY <1>1 DEF RecordOK, o
<1>3. ASSUME NEW s \in Strategies
      PROVE  Cardinality({k \in DOMAIN o : o[k].owner = s /\ o[k].at >= e.guard[s].day_start})
                =< MaxDaily
  <2> DEFINE T == {k \in DOMAIN o : o[k].owner = s /\ o[k].at >= e.guard[s].day_start}
  <2>1. IsFiniteSet(T) /\ Cardinality(T) =< e.guard[s].day_count
            /\ e.guard[s].day_count =< MaxDaily
    BY <1>1 DEF RecordOK, GuardKnows, DayCounted, Today, o
  <2>2. e.guard[s].day_count \in Nat
    BY <1>1 DEF EngineRecords, Guards
  <2> HIDE DEF T
  <2>3. Cardinality(T) \in Nat
    BY <2>1, FS_CardinalityType
  <2>4. Cardinality(T) =< MaxDaily
    BY <2>1, <2>2, <2>3, ReplayTypes
  <2> QED
    BY <2>4 DEF T
<1> QED
  BY <1>2, <1>3 DEF EntriesKept, TradesBefore, e, o

LEMMA TradesAreOfOwners == Inv => TradesAreOwned
<1> SUFFICES ASSUME Inv, NEW x \in Engines
             PROVE  LET e == engine[x]
                        opened == Opened(e)
                    IN
                    /\ \A k \in DOMAIN e.trades :
                        LET trade == e.trades[k] IN
                        /\ trade.opened < trade.closed
                        /\ MaxHolding[trade.owner] # None
                            => trade.closed - trade.opened =< MaxHolding[trade.owner]
                        /\ trade.reason = "active_strategy_opposite_signal"
                            => x = "daily" /\ policy = "active_strategy_opposite"
                        /\ k < Len(opened) => trade.closed < opened[k + 1].at
                    /\ \A k \in DOMAIN opened : opened[k].at < End
  BY DEF TradesAreOwned
<1> DEFINE e == engine[x]
           o == Opened(e)
<1>1. RecordOK(e, index) /\ ReasonsOK(e, Reasons(x, policy))
  BY DEF Inv
<1> HIDE DEF e, o
<1>2. EntriesKept(o, index) /\ TradesBefore(o, e.trades)
        /\ \A k \in DOMAIN e.trades : TradeKept(e.trades[k], index)
  BY <1>1 DEF RecordOK, o
<1>3. \A k \in DOMAIN e.trades : e.trades[k].reason = "active_strategy_opposite_signal"
        => x = "daily" /\ policy = "active_strategy_opposite"
  BY <1>1 DEF ReasonsOK, Reasons
<1> QED
  BY <1>2, <1>3 DEF EntriesKept, TradesBefore, TradeKept, e, o

(* The trades of every engine are ones its guards and its owner allow, for    *)
(* any candles and signals: a guard follows its own strategy through any      *)
(* number of switches, and a position is held by the strategy that opened it. *)
THEOREM TradesStayAllowed == Spec => []TradesAreAllowed
<1>1. Inv => TradesAreAllowed
  BY GuardsAreHeld, TradesAreOfOwners DEF TradesAreAllowed
<1> QED
  BY <1>1, Invariance, PTL

(* A selecting engine that has had nothing but Traded to enter with makes the *)
(* trades of the single engine, the daily one under entry_owner_only.         *)
THEOREM EnginesStayInStep == Spec => []EnginesAgree
<1>1. Inv => EnginesAgree
  BY DEF Inv, Agreement, Agrees, EnginesAgree
<1> QED
  BY <1>1, Invariance, PTL
=============================================================================
