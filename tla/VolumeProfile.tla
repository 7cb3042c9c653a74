---------------------------- MODULE VolumeProfile ----------------------------
(***************************************************************************)
(* The session volume profile strategy: the volume of every candle is      *)
(* spread evenly over the price bins it touches, the bin with most volume  *)
(* is the point of control, and the value area grows from there bin by bin *)
(* until it holds its part of the volume.  The latest candle is judged     *)
(* against the bounds of the area, which are the lower edges of its bins.  *)
(*                                                                         *)
(* The code divides in Decimal with 28 digits; here the volume of a candle *)
(* is a multiple of every number of bins a candle can touch, so that its   *)
(* shares are whole.  The confidence of a signal is left out.              *)
(***************************************************************************)
EXTENDS CandleWindows

CONSTANTS
    SessionBars,        \* candles of a session
    BinSize,            \* price_bin_size
    AreaPercent,        \* value_area_ratio
    MinCandles,         \* profile_min_candles
    BreakoutPercent,    \* breakout_volume_multiplier
    WickPercent,        \* rejection_wick_ratio
    MaxSession          \* bound: candles of a session

VARIABLE session

VolumeInit == session = <<>>

VolumeNext ==
    /\ Len(session) < MaxSession
    /\ \E bar \in SessionBars : session' = Append(session, bar)

-----------------------------------------------------------------------------
(* _build_profile *)

(* _price_bins, a bin being its index *)
BinsOf(bar) == (bar.low \div BinSize)..(bar.high \div BinSize)

Touched(market) == UNION {BinsOf(market[i]) : i \in DOMAIN market}

VolumeIn(market, bin) ==
    FoldLeft(LAMBDA sum, bar : IF bin \in BinsOf(bar)
                               THEN sum + bar.volume \div Cardinality(BinsOf(bar)) ELSE sum,
             0, market)

VolumeOver(market, bins) ==
    FoldSet(LAMBDA bin, sum : sum + VolumeIn(market, bin), 0, bins)

(* Most volume, the lowest bin among equals *)
PointOfControl(market) ==
    CHOOSE bin \in Touched(market) : \A other \in Touched(market) :
        \/ VolumeIn(market, bin) > VolumeIn(market, other)
        \/ VolumeIn(market, bin) = VolumeIn(market, other) /\ bin <= other

Enough(market, bins) ==
    VolumeOver(market, bins) * 100 >= AreaPercent * VolumeOver(market, Touched(market))

(* One round of _value_area_bounds: the neighbour with more volume joins,  *)
(* the lower one of equals; bins nothing was traded in are passed over.    *)
Extended(market, area) ==
    LET below == {bin \in Touched(market) : bin < Min(area)}
        above == {bin \in Touched(market) : bin > Max(area)}
        down == /\ below # {}
                /\ above = {} \/ VolumeIn(market, Max(below)) >= VolumeIn(market, Min(above))
    IN  IF Enough(market, area) \/ (below = {} /\ above = {}) THEN area
        ELSE area \union {IF down THEN Max(below) ELSE Min(above)}

ValueArea(market) ==
    FoldLeft(LAMBDA area, round : Extended(market, area), {PointOfControl(market)},
             SetToSeq(Touched(market)))

AreaLow(market) == Min(ValueArea(market)) * BinSize
AreaHigh(market) == Max(ValueArea(market)) * BinSize

-----------------------------------------------------------------------------
(* SessionVolumeProfileStrategy.evaluate *)

LongWick(wick, bar) ==
    IF Span(bar) = 0 THEN WickPercent = 0 ELSE AtLeast(wick, Span(bar), WickPercent)

Confirmed(market) ==
    Last(market).volume * Len(market) * 100
        >= BreakoutPercent * VolumeOver(market, Touched(market))

ProfileSignals(market) ==
    LET latest == Last(market)
        low == AreaLow(market)
        high == AreaHigh(market)
    IN  {s \in {"lower_rejection", "upper_rejection", "upper_breakout", "lower_breakout"} :
            CASE s = "lower_rejection" ->
                    latest.low < low /\ latest.close >= low /\ LongWick(LowerWick(latest), latest)
              [] s = "upper_rejection" ->
                    latest.high > high /\ latest.close <= high /\ LongWick(UpperWick(latest), latest)
              [] s = "upper_breakout" -> latest.close >= high /\ Confirmed(market)
              [] s = "lower_breakout" -> latest.close <= low /\ Confirmed(market)}

ProfileDecision(market) ==
    LET latest == Last(market)
        signals == ProfileSignals(market)
    IN  IF Len(market) < MinCandles \/ VolumeOver(market, Touched(market)) = 0 THEN "wait"
        ELSE IF latest.low < AreaLow(market) /\ latest.high > AreaHigh(market) THEN "wait"
        ELSE IF Cardinality(signals) # 1 THEN "wait"
        ELSE IF signals \subseteq {"lower_rejection", "upper_breakout"} THEN "long" ELSE "short"

-----------------------------------------------------------------------------
(* No volume is lost or counted twice when it is spread over the bins; the *)
(* value area is a run of traded bins around the point of control that     *)
(* holds its part of the volume, and was grown no further than needed: one *)
(* of its ends is a bin without which it would be too small, and which had *)
(* to be taken before the bin beyond the other end.  A market that only    *)
(* repeats its candles has the same area.  No decision contradicts itself: *)
(* a long is never taken from a close below the area, a short never from   *)
(* one that lies above its upper bound.                                    *)
ProfileIsSound ==
    session # <<>> =>
        LET bins == Touched(session)
            area == ValueArea(session)
            control == PointOfControl(session)
            below == {bin \in bins : bin < Min(area)}
            above == {bin \in bins : bin > Max(area)}
            Volume(bin) == VolumeIn(session, bin)
        IN  /\ VolumeOver(session, bins) = VolumeOf(session)
            /\ control \in area /\ \A bin \in bins : Volume(bin) <= Volume(control)
            /\ area = {bin \in bins : Min(area) <= bin /\ bin <= Max(area)}
            /\ Enough(session, area)
            /\ \/ area = {control}
               \/ /\ Min(area) < control /\ ~Enough(session, area \ {Min(area)})
                  /\ above = {} \/ Volume(Min(area)) >= Volume(Min(above))
               \/ /\ Max(area) > control /\ ~Enough(session, area \ {Max(area)})
                  /\ below = {} \/ Volume(Max(area)) > Volume(Max(below))
            /\ ValueArea(session \o session) = area
            /\ ProfileDecision(session) = "long" => Last(session).close >= AreaLow(session)
            /\ ProfileDecision(session) = "short" => Last(session).close <= AreaHigh(session)
=============================================================================
