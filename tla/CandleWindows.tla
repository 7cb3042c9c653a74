---------------------------- MODULE CandleWindows ----------------------------
(***************************************************************************)
(* What the strategies read of a market, a sequence of candles with        *)
(* integer prices and volumes: windows of it, and ratios, which are        *)
(* percentages compared by cross-multiplication.                           *)
(***************************************************************************)
EXTENDS Integers, Sequences, SequencesExt, FiniteSetsExt

Largest(a, b) == IF a >= b THEN a ELSE b
Magnitude(x) == IF x < 0 THEN -x ELSE x

Back(market, n) == market[Len(market) - n]                       \* market[-n - 1]

(* Variant: the window ends with the latest candle. *)
PriorWithLatest(market, n) == SubSeq(market, Len(market) - n + 1, Len(market))

Prior(market, n) == SubSeq(market, Len(market) - n, Len(market) - 1)   \* [-n - 1 : -1]

High(window) == Max({window[i].high : i \in DOMAIN window})
Low(window) == Min({window[i].low : i \in DOMAIN window})
VolumeOf(window) == FoldLeft(LAMBDA sum, bar : sum + bar.volume, 0, window)
RangesOf(window) == FoldLeft(LAMBDA sum, bar : sum + bar.high - bar.low, 0, window)

(* part / whole >= percent, for a positive whole *)
AtLeast(part, whole, percent) == part * 100 >= percent * whole
AtMost(part, whole, percent) == part * 100 <= percent * whole

Rises(current, base, percent) == AtLeast(current.close - base.close, base.close, percent)
Falls(current, base, percent) == AtMost(current.close - base.close, base.close, -percent)

Body(bar) == bar.close - bar.open
Span(bar) == bar.high - bar.low
BodyAtLeast(bar, percent) ==
    AtLeast(Magnitude(Body(bar)), Span(bar), percent)
UpperWick(bar) == bar.high - Largest(bar.open, bar.close)
LowerWick(bar) == -Largest(-bar.open, -bar.close) - bar.low

(* volume / average of a window >= percent; FALSE if the average is zero *)
VolumeAtLeast(bar, window, percent) ==
    VolumeOf(window) > 0 /\ AtLeast(bar.volume * Len(window), VolumeOf(window), percent)

Decide(long, short) == IF long THEN "long" ELSE IF short THEN "short" ELSE "wait"
=============================================================================
