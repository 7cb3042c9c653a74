--------------------------- MODULE FeatureHistory ---------------------------
(***************************************************************************)
(* Streaming the kline archives of an interval into one feature vector per *)
(* day (load_three_day_feature_history): a window of the last three days   *)
(* slides over the candles, and at each anchor a vector is extracted from  *)
(* it.  Archives cover more than the interval, and may be unavailable or   *)
(* have candles missing, twice or out of order.  What was loaded is cut    *)
(* into the days of a backtest (VerifiedPhaseMarketTimeline.daily_slice).  *)
(*                                                                         *)
(* A candle is the minute it opens at; a vector is the candles it was      *)
(* extracted from.                                                         *)
(***************************************************************************)
EXTENDS Integers, Sequences, SequencesExt, FiniteSets

CONSTANTS
    DayLength,      \* minutes of a day
    HistoryStart,   \* the first minute of the interval
    HistoryDays,    \* days of the interval
    ArchiveBounds   \* where the archives that cover it begin, and the last ends

ASSUME HistoryAssumption ==
    /\ DayLength \in Nat \ {0}
    /\ HistoryStart \in Int
    /\ HistoryDays \in Nat /\ HistoryDays >= 4
    /\ ArchiveBounds \in Seq(Int) /\ ArchiveBounds # <<>>
    /\ \A a \in 1..(Len(ArchiveBounds) - 1) : ArchiveBounds[a] <= ArchiveBounds[a + 1]

VARIABLES
    kline,          \* the archives: their candles, or <<>> if unavailable
    archiveNo, rowNo,   \* the row to read
    window,         \* the candles of the last three days
    expectedMinute,
    vectors,        \* anchor and candles of each vector
    loading         \* "loading", "accepted" or "refused"

historyVars == <<kline, archiveNo, rowNo, window, expectedMinute, vectors, loading>>

WindowLength == 3 * DayLength
HistoryEnd == HistoryStart + HistoryDays * DayLength
InInterval(minute) == HistoryStart <= minute /\ minute < HistoryEnd

(* build_daily_regime_episodes: one day after the other is an episode, from *)
(* its anchor on, if it has three days before it.                          *)
Episodes ==
    [i \in 1..(HistoryDays - 3) |-> HistoryStart + WindowLength + (i - 1) * DayLength]

Anchors == {Episodes[i] : i \in DOMAIN Episodes}

-----------------------------------------------------------------------------
(* The archives of the interval *)

Intact ==
    [a \in 1..(Len(ArchiveBounds) - 1) |->
        [i \in 1..(ArchiveBounds[a + 1] - ArchiveBounds[a]) |-> ArchiveBounds[a] + i - 1]]

Damaged(candles) ==
    {<<>>} \union
    (UNION {{RemoveAt(candles, i), InsertAt(candles, i, candles[i])} : i \in DOMAIN candles}) \union
    {[candles EXCEPT ![i] = candles[i + 1], ![i + 1] = candles[i]] : i \in 1..(Len(candles) - 1)}

HistoryInit ==
    /\ kline \in {Intact} \union
         UNION {{[Intact EXCEPT ![a] = candles] : candles \in Damaged(Intact[a])} :
                   a \in DOMAIN Intact}
    /\ archiveNo = 1 /\ rowNo = 1
    /\ window = <<>> /\ vectors = <<>>
    /\ expectedMinute = HistoryStart
    /\ loading = "loading"

-----------------------------------------------------------------------------
(* Variant: the deque keeps the candle before the window, too. *)
SlidesLate(candles, minute) ==
    LET longer == Append(candles, minute)
    IN  IF Len(longer) > WindowLength + 1 THEN Tail(longer) ELSE longer

(* deque(maxlen=...).append *)
Slides(candles, minute) ==
    LET longer == Append(candles, minute)
    IN  IF Len(longer) > WindowLength THEN Tail(longer) ELSE longer

Refuse == loading' = "refused" /\ UNCHANGED <<window, expectedMinute, vectors>>

(* A candle of the interval must be the next one; after the last one before *)
(* an anchor a vector is extracted.                                        *)
TakeCandle(minute) ==
    LET slid == Slides(window, minute)
        next == minute + 1
    IN  IF minute # expectedMinute \/ (next \in Anchors /\ Len(slid) # WindowLength)
        THEN Refuse
        ELSE /\ window' = slid
             /\ expectedMinute' = next
             /\ vectors' = IF next \in Anchors
                           THEN Append(vectors, [anchor |-> next, candles |-> slid])
                           ELSE vectors
             /\ UNCHANGED loading

ReadRow ==
    /\ loading = "loading" /\ archiveNo \in DOMAIN kline
    /\ rowNo \in DOMAIN kline[archiveNo]
    /\ LET minute == kline[archiveNo][rowNo]
       IN  IF InInterval(minute)
           THEN TakeCandle(minute)
           ELSE UNCHANGED <<window, expectedMinute, vectors, loading>>
    /\ rowNo' = rowNo + 1
    /\ UNCHANGED <<kline, archiveNo>>

NextArchive ==
    /\ loading = "loading" /\ archiveNo \in DOMAIN kline
    /\ rowNo > Len(kline[archiveNo])
    /\ IF kline[archiveNo] = <<>>
       THEN Refuse
       ELSE UNCHANGED <<window, expectedMinute, vectors, loading>>
    /\ archiveNo' = archiveNo + 1
    /\ rowNo' = 1
    /\ UNCHANGED kline

(* The end of load_three_day_feature_history: the candles reach the end of *)
(* the interval, and there is a vector for each episode, of its candles.   *)
FinishHistory ==
    /\ loading = "loading" /\ archiveNo > Len(kline)
    /\ loading' = IF /\ expectedMinute = HistoryEnd
                     /\ [i \in DOMAIN vectors |-> vectors[i].anchor] = Episodes
                     /\ \A i \in DOMAIN vectors :
                          vectors[i].candles[1] = vectors[i].anchor - WindowLength
                  THEN "accepted" ELSE "refused"
    /\ UNCHANGED <<kline, archiveNo, rowNo, window, expectedMinute, vectors>>

HistoryNext == ReadRow \/ NextArchive \/ FinishHistory

HistorySpec == HistoryInit /\ [][HistoryNext]_historyVars

-----------------------------------------------------------------------------
(* The days of a timeline *)

(* VerifiedPhaseMarketTimeline.from_market: no gap, no overlap *)
IsTimeline(candles) ==
    \A i \in 1..(Len(candles) - 1) : candles[i + 1] = candles[i] + 1

(* bisect_left(opened_times, minute), counted from zero *)
BisectLeft(candles, minute) == Cardinality({i \in DOMAIN candles : candles[i] < minute})

NoSlice == <<>>

(* daily_slice: the day and its warm-up, if the timeline has all of it *)
DailySlice(candles, outcome, warmup) ==
    LET left == BisectLeft(candles, outcome - warmup)
        right == BisectLeft(candles, outcome + DayLength)
        selected == SubSeq(candles, left + 1, right)
    IN  IF /\ Len(selected) = warmup + DayLength
           /\ selected[1] = outcome - warmup
           /\ Last(selected) = outcome + DayLength - 1
        THEN selected ELSE NoSlice

-----------------------------------------------------------------------------
Minutes(first, end) == [i \in 1..(end - first) |-> first + i - 1]

(* The rows of the archives, in the order in which they are read *)
ArchiveRows == UNION {{a} \X DOMAIN kline[a] : a \in DOMAIN kline}
OpenedAt(row) == kline[row[1]][row[2]]
Earlier(row, other) == row[1] < other[1] \/ (row[1] = other[1] /\ row[2] < other[2])

(* Every archive is there, and the candles of the interval come once each   *)
(* and in order, across archives, whatever these hold outside of it.       *)
IsWhole ==
    /\ \A a \in DOMAIN kline : kline[a] # <<>>
    /\ \A minute \in HistoryStart..(HistoryEnd - 1) :
         \E row \in ArchiveRows : OpenedAt(row) = minute
    /\ \A row, other \in ArchiveRows :
         /\ InInterval(OpenedAt(row)) /\ InInterval(OpenedAt(other))
         /\ Earlier(row, other)
         => OpenedAt(row) < OpenedAt(other)

(* Each anchor's vector comes from the three days before it and never from *)
(* a candle at or after it, and no anchor is passed without one.           *)
VectorsAreAsOf ==
    /\ \A i \in DOMAIN vectors :
         /\ i \in DOMAIN Episodes /\ vectors[i].anchor = Episodes[i]
         /\ vectors[i].candles = Minutes(Episodes[i] - WindowLength, Episodes[i])
    /\ \A i \in DOMAIN Episodes : i \in DOMAIN vectors <=> Episodes[i] <= expectedMinute

(* A history is accepted exactly if the archives are whole. *)
AcceptanceIsExact == loading # "loading" => ((loading = "accepted") <=> IsWhole)

(* The candles of the interval, in the order in which they are read *)
Streamed ==
    LET rows == FlattenSeq(kline)
        Kept[i \in 0..Len(rows)] ==
            IF i = 0 THEN <<>>
            ELSE IF InInterval(rows[i]) THEN Append(Kept[i - 1], rows[i])
            ELSE Kept[i - 1]
    IN  Kept[Len(rows)]

(* Each day of an accepted history can be cut out with its warm-up, and has *)
(* all its minutes.                                                        *)
DaysAreExact ==
    loading = "accepted" =>
        /\ IsTimeline(Streamed)
        /\ \A outcome \in Anchors, warmup \in 0..WindowLength :
             DailySlice(Streamed, outcome, warmup) = Minutes(outcome - warmup, outcome + DayLength)

(* What is accepted is whole, its vectors know nothing of their future, and *)
(* its days are complete.                                                  *)
HistoryIsExact == VectorsAreAsOf /\ AcceptanceIsExact /\ DaysAreExact
=============================================================================
