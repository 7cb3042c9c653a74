---------------------------- MODULE FeatureBuild ----------------------------
(***************************************************************************)
(* HistoricalFeatureLoader.build_cache: the rows of a market feature cache.*)
(*                                                                         *)
(* The range is built month by month.  The closes of a chunk come from the *)
(* kline archives; funding rates and metrics are joined to a close as of   *)
(* it: the last value published by then, unless it is too old.  Archives   *)
(* are monthly, and daily in the month that is not over; funding has no    *)
(* daily archives, the REST endpoint serves it in pages, and it also       *)
(* stands in for a monthly archive that is not there.                      *)
(*                                                                         *)
(* Time is a number of ticks.  Funding rates and metrics are published at  *)
(* the same times, and a value is the time it was published at.            *)
(***************************************************************************)
EXTENDS Integers, FiniteSets, FiniteSetsExt

CONSTANTS
    Day, Month,        \* ticks of a day and of a month
    Horizon,           \* bound: the last tick
    MaxPublished,      \* bound: how many values are published
    FundingMaxAge, MetricsMaxAge,
    PageLimit          \* rows of a REST page

ASSUME CalendarAssumption ==
    /\ Day \in Nat \ {0} /\ Month \in Nat \ {0} /\ Month % Day = 0
    /\ Horizon \in Nat /\ MaxPublished \in Nat
    /\ FundingMaxAge \in Nat /\ MetricsMaxAge \in Nat /\ PageLimit \in Nat \ {0}
    /\ FundingMaxAge < Month    \* eight hours: a chunk reaches into one month before it

Ticks == 0..Horizon
Missing == -1

MonthStart(t) == t - (t % Month)
DayStart(t) == t - (t % Day)

VARIABLES
    request,         \* start and end of the range, and the time now
    published,       \* when values were published
    unavailable,     \* months without a funding archive
    cursor,          \* where the next chunk starts
    fundingRequests, \* REST ranges that were asked for
    merged           \* the rows built so far

buildVars == <<request, published, unavailable, cursor, fundingRequests, merged>>

FeatureRows ==
    [close : Ticks, funding : {Missing} \union Ticks, metrics : {Missing} \union Ticks,
     change : BOOLEAN]

BuildTypeOK ==
    /\ request \in [start : Ticks, end : Ticks, now : Ticks]
    /\ published \subseteq Ticks
    /\ unavailable \subseteq Ticks
    /\ cursor \in Ticks
    /\ fundingRequests \subseteq Int \X Int
    /\ merged \subseteq FeatureRows

BuildInit ==
    /\ request \in {r \in [start : Ticks, end : Ticks, now : Ticks] : r.start < r.end}
    /\ published \in UNION {kSubset(n, 0..request.now) : n \in 0..MaxPublished}
    /\ unavailable \in SUBSET {m \in Ticks : m % Month = 0 /\ m < MonthStart(request.now)}
    /\ cursor = request.start
    /\ fundingRequests = {}
    /\ merged = {}

-----------------------------------------------------------------------------
(* iter_archive_requests for klines: the periods [from, to) of the archives. *)
KlineArchives(start, end) ==
    LET months == {m \in 0..end : m % Month = 0 /\ MonthStart(start) <= m /\ m < end}
        Days(m) == {d \in m..(m + Month - 1) :
                       /\ d % Day = 0
                       /\ DayStart(start) <= d
                       /\ d < DayStart(end) /\ d < DayStart(request.now)}
    IN  UNION {IF m < MonthStart(request.now)
               THEN {<<m, m + Month>>}
               ELSE {<<d, d + Day>> : d \in Days(m)} : m \in months}

(* A minute is in the archive of the period it opened in. *)
KlineCloses(start, end) ==
    (UNION {(a[1] + 1)..a[2] : a \in KlineArchives(start, end)}) \cap ((start + 1)..end)

(* The metrics archives are daily, and _parse_archive keeps (start, end]. *)
MetricsRows(start, end) ==
    {t \in published :
        /\ DayStart(start) <= t
        /\ t < DayStart(end) /\ t < DayStart(request.now)
        /\ start < t /\ t <= end}

(* The pages of one range, behind the last row of the page before (a tick is *)
(* far longer than the millisecond that the cursor adds to it).  A page with *)
(* fewer rows than the limit is the last one.                                *)
FundingPages(from, to) ==
    LET Behind(last) == {t \in published : last < t /\ t <= to}
        Page(last) == {t \in Behind(last) :
                          Cardinality({u \in Behind(last) : u <= t}) <= PageLimit}
        Pages[last \in (from - 1)..to] ==
            IF last >= to THEN {}
            ELSE IF Cardinality(Page(last)) < PageLimit THEN Page(last)
            ELSE Page(last) \union Pages[Max(Page(last))]
    IN  Pages[from - 1]

(* _load_funding_range_once, where done are the ranges of earlier calls. *)
LoadFundingRange(range, done) ==
    IF range \in done \/ range[1] >= range[2] THEN {} ELSE FundingPages(range[1], range[2])

(* The monthly funding archives that a chunk asks for. *)
FundingArchiveStart(start) ==
    IF start < MonthStart(request.now) THEN start - FundingMaxAge ELSE start

(* Variant: the archives of a chunk start where the chunk does. *)
FundingMonthsOfChunk(start, end) ==
    {m \in -Month..end : /\ m % Month = 0
                         /\ MonthStart(start) <= m
                         /\ m < end
                         /\ m < MonthStart(request.now)}

FundingMonths(start, end) ==
    {m \in -Month..end : /\ m % Month = 0
                         /\ MonthStart(FundingArchiveStart(start)) <= m
                         /\ m < end
                         /\ m < MonthStart(request.now)}

(* The REST ranges of a chunk: one for each archive that is not there, and   *)
(* one for the month that is not over.                                       *)
FallbackRange(start, end, m) ==
    <<Max({FundingArchiveStart(start), m}), Min({end, m + Month})>>

FundingRanges(start, end) ==
    {FallbackRange(start, end, m) : m \in FundingMonths(start, end) \cap unavailable}
    \union
    IF end > MonthStart(request.now)
    THEN {<<Max({start, MonthStart(request.now)}) - FundingMaxAge, Min({end, request.now})>>}
    ELSE {}

(* The funding rows of a chunk. *)
FundingRows(start, end) ==
    LET archived == {t \in published :
                        /\ \E m \in FundingMonths(start, end) \ unavailable : m <= t /\ t < m + Month
                        /\ start - FundingMaxAge <= t /\ t <= end}
    IN  archived \union
        UNION {LoadFundingRange(r, fundingRequests) : r \in FundingRanges(start, end)}

-----------------------------------------------------------------------------
(* The value that merge_feature_rows has moved up to at a close. *)
AsOf(rows, close, maxAge) ==
    LET past == {t \in rows : t <= close}
    IN  IF past = {} \/ close - Max(past) > maxAge THEN Missing ELSE Max(past)

(* merge_feature_rows: a metrics value that is carried on loses its changes. *)
MergeRow(close, funding, metrics) ==
    [close |-> close,
     funding |-> AsOf(funding, close, FundingMaxAge),
     metrics |-> AsOf(metrics, close, MetricsMaxAge),
     change |-> AsOf(metrics, close, MetricsMaxAge) = close]

(* _calendar_chunks and _build_chunk_rows. *)
BuildChunk ==
    LET start == cursor
        end == Min({request.end, MonthStart(cursor) + Month})
    IN
    /\ cursor < request.end
    /\ cursor' = end
    /\ merged' = merged \union
                 {MergeRow(t, FundingRows(start, end), MetricsRows(start, end)) :
                     t \in KlineCloses(start, end)}
    /\ fundingRequests' = fundingRequests \union
                          {r \in FundingRanges(start, end) : r[1] < r[2]}
    /\ UNCHANGED <<request, published, unavailable>>

BuildSpec == BuildInit /\ [][BuildChunk]_buildVars

-----------------------------------------------------------------------------
(* No row looks ahead, and a value is carried no longer than its source      *)
(* allows.  However the range is cut into months, whichever archives are     *)
(* missing and wherever the current month begins, the funding rate of a row  *)
(* is the last one published at or before its close.  The one exception: the *)
(* row that closes a month misses a rate published at that very close, which *)
(* is in the archive of the next month.  A metrics value is exact from       *)
(* METRICS_MAX_AGE after the start of a chunk up to its last close.          *)
LastPublished(close, maxAge) == AsOf(published, close, maxAge)

ClosesMonth(r) == r.close % Month = 0

FundingIsAsOf(r) ==
    \/ r.funding = LastPublished(r.close, FundingMaxAge)
    \/ ClosesMonth(r) /\ r.close \in published
       /\ r.funding = AsOf(published \ {r.close}, r.close, FundingMaxAge)

ChunkStart(r) == Max({request.start, MonthStart(r.close)})

MetricsIsAsOf(r) ==
    /\ r.metrics # Missing => /\ r.metrics \in published
                              /\ r.close - MetricsMaxAge <= r.metrics /\ r.metrics <= r.close
    /\ r.close - MetricsMaxAge > ChunkStart(r)
       /\ r.close < DayStart(request.end) /\ r.close < DayStart(request.now)
         => r.metrics = LastPublished(r.close, MetricsMaxAge)
    /\ r.change => r.metrics = r.close

MergedRowsAreAsOf ==
    BuildTypeOK /\ \A r \in merged : FundingIsAsOf(r) /\ MetricsIsAsOf(r)
=============================================================================
