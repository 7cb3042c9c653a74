----------------------------- MODULE WalkForward -----------------------------
(***************************************************************************)
(* What is made of the monthly backtests of a walk-forward search.  The    *)
(* runner appends one row per candidate and month to the rows file, and    *)
(* while it still does, the train-selected evaluation                      *)
(* (evaluate_train_selected_walk_forward.py) reads the file: for every     *)
(* test month it ranks the candidates by the months before it and records  *)
(* how the best ones did.  run_walk_forward_search runs the same backtests *)
(* in one process, and evaluate_walk_forward_portfolio.py summarises what  *)
(* that search reports.                                                    *)
(*                                                                         *)
(* Months are consecutive integers of equal length.  A result v is a       *)
(* return of v / Equity, and so are expectancies and drawdowns; win is a   *)
(* percentage.  Candidates are integers in the order of their ids.  A row  *)
(* also has the notation its numbers are written in.                       *)
(***************************************************************************)
EXTENDS ReturnStatistics, FiniteSetsExt

CONSTANTS
    TestedCandidates,   \* 1..n, in the order of candidate_id
    MonthResults,       \* for every candidate the results a month may have
    OddResult,          \* the result of a row another run adds
    SearchMonths,       \* the months of the search, consecutive
    EvaluationOptions,  \* train, topK, minTrades, and start and end or 0
    MonthDays           \* days of a month

VARIABLES
    resultRows,         \* the rows file
    disturbed,          \* a row that is no backtest of its own was appended
    options,            \* of the evaluation
    evaluation          \* status, the rows it read, its payload, and the file
                        \* whose hash it recorded

walkVars == <<resultRows, disturbed, options, evaluation>>

NoEvaluation == [status |-> "none", read |-> <<>>, payload |-> <<>>, hashed |-> <<>>]

WalkInit ==
    /\ resultRows = <<>>
    /\ disturbed = FALSE
    /\ options \in EvaluationOptions
    /\ evaluation = NoEvaluation

-----------------------------------------------------------------------------
(* The rows file *)

MonthRow(symbol, c, m, result) ==
    [symbol |-> symbol, candidate |-> c, month |-> m, result |-> result, notation |-> 0]

Torn == [symbol |-> "torn", candidate |-> 0, month |-> 0, result |-> <<>>, notation |-> 0]

(* Bound: a row may come while the evaluation is between its two reads of  *)
(* the file, and none after them.                                          *)
RowsMayCome ==
    \/ evaluation.status = "none"
    \/ evaluation.status = "evaluated" /\ resultRows = evaluation.read

(* run_incremental_walk_forward: month by month, the candidates in order;  *)
(* a row that a run does not ask for is left out.                          *)
RowWritten ==
    /\ ~disturbed /\ RowsMayCome
    /\ \E c \in TestedCandidates, m \in SearchMonths :
         /\ \A i \in DOMAIN resultRows :
              \/ resultRows[i].month < m
              \/ resultRows[i].month = m /\ resultRows[i].candidate < c
         /\ \E result \in MonthResults[c] :
              resultRows' = Append(resultRows, MonthRow("own", c, m, result))
    /\ UNCHANGED <<disturbed, options, evaluation>>

(* What other runs may add: a row again, with its numbers written          *)
(* differently, a row that was left out or has another result, a row of    *)
(* another symbol; and a line a crash cut short.                           *)
RowDisturbed ==
    /\ ~disturbed /\ RowsMayCome /\ disturbed' = TRUE
    /\ \E row \in
            {Torn} \union
            {[r EXCEPT !.notation = 1] : r \in ToSet(resultRows)} \union
            {MonthRow(symbol, c, m, OddResult) : symbol \in {"own", "other"},
                c \in TestedCandidates, m \in SearchMonths} :
         resultRows' = Append(resultRows, row)
    /\ UNCHANGED <<options, evaluation>>

-----------------------------------------------------------------------------
(* Reading the rows *)

(* _validate_source_rows, of every row whatever its symbol *)
RowIsUsable(r) ==
    r # Torn /\ r.result.return > -Equity /\ r.result.trades >= 0 /\ r.result.drawdown >= 0

(* _duplicate_signature: by value, not by notation *)
Signature(r) == [r EXCEPT !.notation = 0]

SameKey(r, s) == r.candidate = s.candidate /\ r.month = s.month

OwnRows(rs) == SelectSeq(rs, LAMBDA r : r.symbol = "own")

RowsConflict(rs) ==
    \E i, j \in DOMAIN rs : SameKey(rs[i], rs[j]) /\ Signature(rs[i]) # Signature(rs[j])

(* _deduplicate_rows: the first of equal rows *)
Deduplicated(rs) ==
    FoldLeft(LAMBDA kept, r : IF \E i \in DOMAIN kept : SameKey(kept[i], r) THEN kept
                              ELSE Append(kept, r), <<>>, rs)

RowsAreUsable(rs) == (\A i \in DOMAIN rs : RowIsUsable(rs[i])) /\ ~RowsConflict(OwnRows(rs))

(* _index_rows *)
MonthsIn(rs) == {rs[i].month : i \in DOMAIN rs}
CandidatesIn(rs) == {rs[i].candidate : i \in DOMAIN rs}
HasRow(rs, c, m) == \E i \in DOMAIN rs : rs[i].candidate = c /\ rs[i].month = m
ResultOf(rs, c, m) ==
    rs[CHOOSE i \in DOMAIN rs : rs[i].candidate = c /\ rs[i].month = m].result

-----------------------------------------------------------------------------
(* One fold of the evaluation *)

(* Variant: the trailing months end with the test month. *)
PriorMonthsWithTest(m, count) == [k \in 1..count |-> m - count + k]

(* _prior_months *)
PriorMonths(m, count) == [k \in 1..count |-> m - count + k - 1]

(* _train_evidence of the results of the train months: the score is        *)
(* (compounded * positive ratio + expectancy) / (1 + worst drawdown).      *)
TrainEvidence(results) ==
    LET n == Len(results)
        Of(field) == [k \in 1..n |-> results[k][field]]
        trades == Total(Of("trades"))
        earned == Total([k \in 1..n |-> results[k].expectancy * results[k].trades])
        compounded == Compound(Of("return"))
        positive == Len(Gains(Of("return")))
        worst == Max({results[k].drawdown : k \in 1..n})
    IN  [compounded |-> compounded, positive |-> positive, trades |-> trades,
         expectancy |-> IF trades > 0 THEN <<earned, trades * Equity>> ELSE Zero,
         score |-> IF trades > 0
                   THEN <<compounded[1] * positive * trades * Equity
                            + earned * compounded[2] * n,
                          compounded[2] * n * trades * (Equity + worst)>>
                   ELSE <<compounded[1] * positive * Equity,
                          compounded[2] * n * (Equity + worst)>>]

(* _passes_train_gate *)
PassesTrainGate(evidence, months, minTrades) ==
    /\ ~AtMostZero(evidence.compounded)
    /\ evidence.positive >= (months + 1) \div 2
    /\ ~AtMostZero(evidence.expectancy)
    /\ evidence.trades >= minTrades

EvidenceFor(rs, c, m) ==
    TrainEvidence([k \in 1..options.train |->
                      ResultOf(rs, c, PriorMonths(m, options.train)[k])])

EligibleFor(rs, m) ==
    {c \in CandidatesIn(rs) :
        /\ \A k \in 1..options.train : HasRow(rs, c, PriorMonths(m, options.train)[k])
        /\ PassesTrainGate(EvidenceFor(rs, c, m), options.train, options.minTrades)}

(* The best score first, the smaller id among equals *)
RankedFor(rs, m) ==
    SortSeq(SetToSortSeq(EligibleFor(rs, m), <),
            LAMBDA c, d : LET a == EvidenceFor(rs, c, m).score
                              b == EvidenceFor(rs, d, m).score
                          IN  Less(b, a) \/ (Equal(a, b) /\ c < d))

(* _evaluate_fold: a selected candidate without a row counts as zero *)
SelectionsOf(rs, m, chosen) ==
    [k \in DOMAIN chosen |->
        [candidate |-> chosen[k], score |-> EvidenceFor(rs, chosen[k], m).score,
         available |-> HasRow(rs, chosen[k], m),
         return |-> IF HasRow(rs, chosen[k], m) THEN ResultOf(rs, chosen[k], m).return ELSE 0]]

FoldOf(rs, m, selections) ==
    LET missing == {k \in DOMAIN selections : ~selections[k].available}
    IN  [month |-> m, selections |-> selections,
         status |-> IF m \notin MonthsIn(rs) THEN "unavailable"
                    ELSE IF selections = <<>> THEN "cash"
                    ELSE IF missing = {} THEN "selected"
                    ELSE IF missing = DOMAIN selections THEN "unavailable"
                    ELSE "partial_unavailable",
         top1 |-> IF selections = <<>> THEN 0 ELSE selections[1].return,
         topK |-> IF selections = <<>> THEN Zero
                  ELSE <<Total([k \in DOMAIN selections |-> selections[k].return]),
                         Len(selections)>>]

Chosen(ranked) == SubSeq(ranked, 1, Min({options.topK, Len(ranked)}))
EvaluatedFold(rs, m) == FoldOf(rs, m, SelectionsOf(rs, m, Chosen(RankedFor(rs, m))))

-----------------------------------------------------------------------------
(* The evaluation *)

(* _calendar_months if both ends are given, else the months with rows *)
MonthsToTest(rs) ==
    LET all == IF options.start > 0 /\ options.end > 0
               THEN options.start..(options.end - 1) ELSE MonthsIn(rs)
    IN  SetToSortSeq({m \in all : /\ options.start = 0 \/ m >= options.start
                                  /\ options.end = 0 \/ m < options.end}, <)

(* evaluate_rows: the folds and the series of the best candidate *)
PayloadOf(rs, folds) ==
    [count |-> Len(rs), candidates |-> CandidatesIn(rs), folds |-> folds,
     top1 |-> [k \in DOMAIN folds |->
        [month |-> folds[k].month, return |-> folds[k].top1,
         available |-> \/ folds[k].status = "cash"
                       \/ folds[k].selections # <<>> /\ folds[k].selections[1].available]],
     topK |-> [k \in DOMAIN folds |->
        [month |-> folds[k].month, return |-> folds[k].topK,
         available |-> \/ folds[k].status = "cash"
                       \/ /\ folds[k].selections # <<>>
                          /\ \A s \in ToSet(folds[k].selections) : s.available]]]

FoldsOf(rs, months) == [k \in DOMAIN months |-> EvaluatedFold(rs, months[k])]
Evaluated(rs) == PayloadOf(rs, FoldsOf(rs, MonthsToTest(rs)))
EvaluateRows(rows) == Evaluated(Deduplicated(OwnRows(rows)))

(* _series_summary of the returns of the best candidate *)
SeriesSummary(series) ==
    LET returns == [k \in DOMAIN series |-> series[k].return]
    IN  [months |-> Len(series), compounded |-> Compound(returns), total |-> Total(returns),
         positive |-> Len(Gains(returns)),
         unavailable |-> Cardinality({k \in DOMAIN series : ~series[k].available})]

(* main: the rows are read and evaluated, and an error ends the evaluation *)
EvaluationReads ==
    /\ evaluation.status = "none"
    /\ evaluation' =
         IF ~RowsAreUsable(resultRows) THEN [evaluation EXCEPT !.status = "failed"]
         ELSE [evaluation EXCEPT !.status = "evaluated", !.read = resultRows,
                                 !.payload = EvaluateRows(resultRows)]
    /\ UNCHANGED <<resultRows, disturbed, options>>

(* main: the file is read a second time for its hash *)
EvaluationWrites ==
    /\ evaluation.status = "evaluated"
    /\ evaluation' = [evaluation EXCEPT !.status = "written", !.hashed = resultRows]
    /\ UNCHANGED <<resultRows, disturbed, options>>

WalkNext == RowWritten \/ RowDisturbed \/ EvaluationReads \/ EvaluationWrites

-----------------------------------------------------------------------------
(* The report of a search *)

Flag(condition) == IF condition THEN <<1, 1>> ELSE Zero

(* sorted with reverse: the greatest key first, equals as they come *)
Ranked(s, keys) ==
    LET order == SetToSortSeq(DOMAIN s, LAMBDA i, j :
                    \/ Precedes(keys[j], keys[i])
                    \/ i < j /\ ~Precedes(keys[i], keys[j]))
    IN  [k \in DOMAIN s |-> s[order[k]]]

(* rank_scheduler_results *)
FoldKey(r) ==
    <<Flag(r.result.trades >= 5 * MonthDays), Flag(r.result.trades <= 15 * MonthDays),
      Flag(r.result.win >= 60), <<r.result.return, 1>>, <<-r.result.drawdown, 1>>>>

RankedFold(s) == Ranked(s, [k \in DOMAIN s |-> FoldKey(s[k])])

(* summarize_walk_forward_results, of one candidate *)
CandidateResult(c, results) ==
    LET Of(field) == [k \in DOMAIN results |-> results[k][field]]
    IN  [candidate |-> c, folds |-> Len(results), positive |-> Len(Gains(Of("return"))),
         total |-> Total(Of("return")), trades |-> Total(Of("trades")), win |-> Total(Of("win")),
         expectancy |-> Total(Of("expectancy")), worst |-> Max(ToSet(Of("drawdown")))]

(* rank_walk_forward_results *)
WalkKey(r) ==
    <<Flag(r.total > 0), <<r.positive, 1>>, <<r.total, r.folds>>, <<r.trades, r.folds>>,
      <<r.win, r.folds>>, <<-r.worst, 1>>>>

RankedWalk(s) == Ranked(s, [k \in DOMAIN s |-> WalkKey(s[k])])

(* build_walk_forward_folds: the train period before a month and the month *)
FoldsOfSearch(first, after) ==
    [k \in 1..(after - first) |-> [train |-> (first + k - 1 - options.train)..(first + k - 2),
                                   month |-> first + k - 1]]

(* run_walk_forward_search, given what the backtest of a candidate in a    *)
(* month results in.                                                       *)
SearchReport(backtest) ==
    LET folds == FoldsOfSearch(Min(SearchMonths), Max(SearchMonths) + 1)
        n == Cardinality(TestedCandidates)
        Results(m) == [c \in 1..n |-> [candidate |-> c, result |-> backtest[c][m]]]
        OfCandidate(c) == [k \in DOMAIN folds |-> backtest[c][folds[k].month]]
    IN  [folds |-> [k \in DOMAIN folds |->
                      [month |-> folds[k].month,
                       results |-> RankedFold(Results(folds[k].month))]],
         results |-> RankedWalk([c \in 1..n |-> CandidateResult(c, OfCandidate(c))])]

(* aggregate_incremental_rows of the rows of one run; a gap is an error *)
HasGap(rs) == MonthsIn(rs) # {} /\ MonthsIn(rs) # Min(MonthsIn(rs))..Max(MonthsIn(rs))

AggregatedRows(rs) ==
    LET sorted == SortSeq(rs, LAMBDA r, s : \/ r.month < s.month
                                            \/ r.month = s.month /\ r.candidate < s.candidate)
        months == SetToSortSeq(MonthsIn(rs), <)
        Of(c) == SelectSeq(sorted, LAMBDA r : r.candidate = c)
        First(c) == Min({k \in DOMAIN sorted : sorted[k].candidate = c})
        seen == SetToSortSeq(CandidatesIn(rs), LAMBDA c, d : First(c) < First(d))
        Plain(s) == [k \in DOMAIN s |-> [candidate |-> s[k].candidate, result |-> s[k].result]]
    IN  [folds |-> [k \in DOMAIN months |->
                      [month |-> months[k],
                       results |-> RankedFold(Plain(SelectSeq(sorted,
                                        LAMBDA r : r.month = months[k])))]],
         results |-> RankedWalk([k \in DOMAIN seen |->
                        CandidateResult(seen[k], [j \in DOMAIN Of(seen[k]) |->
                                                    Of(seen[k])[j].result])]),
         series |-> [c \in CandidatesIn(rs) |->
                        {[month |-> Of(c)[j].month, return |-> Of(c)[j].result.return] :
                            j \in DOMAIN Of(c)}]]

-----------------------------------------------------------------------------
(* The portfolio of a report *)

(* _candidate_series_from_folds: a month of a candidate once *)
SeriesFromFolds(folds) ==
    [c \in UNION {{r.candidate : r \in ToSet(folds[k].results)} : k \in DOMAIN folds} |->
        UNION {{[month |-> folds[k].month, return |-> r.result.return] :
                    r \in {x \in ToSet(folds[k].results) : x.candidate = c}} : k \in DOMAIN folds}]

SumOver(S) == FoldSet(LAMBDA x, sum : x.return + sum, 0, S)

(* _candidate_summaries *)
CandidateSummary(series, c) ==
    [months |-> Cardinality(series[c]), total |-> SumOver(series[c]),
     worst |-> Min({x.return : x \in series[c]}),
     positive |-> Cardinality({x \in series[c] : x.return > 0})]

(* _portfolio_monthly_returns: the average of the candidates with the month *)
PortfolioReturn(series, m) ==
    LET with == {c \in DOMAIN series : \E x \in series[c] : x.month = m}
        Of(c) == (CHOOSE x \in series[c] : x.month = m).return
    IN  <<FoldSet(LAMBDA c, sum : Of(c) + sum, 0, with), Cardinality(with) * Equity>>

-----------------------------------------------------------------------------
(* The rows an evaluation of month m may know, and the same rows without   *)
(* order, repetition and notation.                                         *)
Before(rs, m) == SelectSeq(rs, LAMBDA r : r.month < m)
Canonical(rs) ==
    SetToSortSeq({Signature(rs[i]) : i \in DOMAIN rs},
                 LAMBDA r, s : \/ r.month < s.month
                               \/ r.month = s.month /\ r.candidate > s.candidate)

(* What the evaluation writes is out of sample and says what it rests on:  *)
(* the candidates of a month are those the earlier months alone select, in *)
(* the same order; the order of the rows, repeated rows and rows of other  *)
(* symbols change nothing; a month without results is reported as missing  *)
(* and neither earns nor loses; a calendar has every month once; the file  *)
(* whose hash is recorded begins with the rows evaluated.  Rows that       *)
(* contradict each other are never evaluated.                              *)
EvaluationIsOutOfSample ==
    /\ evaluation.status = "written" => IsPrefix(evaluation.read, evaluation.hashed)
    /\ evaluation.status = "evaluated" =>
        LET own == OwnRows(evaluation.read)
            payload == evaluation.payload
            summary == SeriesSummary(payload.top1)
            Picked(fold) == [k \in DOMAIN fold.selections |->
                               [candidate |-> fold.selections[k].candidate,
                                score |-> fold.selections[k].score]]
        IN  /\ payload = EvaluateRows(Canonical(own))
            /\ \A i, j \in DOMAIN own : SameKey(own[i], own[j]) => own[i].result = own[j].result
            /\ \A k \in DOMAIN payload.folds :
                 LET fold == payload.folds[k]
                     known == Deduplicated(Before(own, fold.month))
                 IN  /\ Picked(fold) = Picked(EvaluatedFold(known, fold.month))
                     /\ fold.month \notin MonthsIn(own) =>
                          /\ fold.status = "unavailable" /\ ~payload.top1[k].available
                          /\ fold.top1 = 0 /\ fold.topK[1] = 0
                     /\ fold.status \in {"cash", "unavailable"} => fold.top1 = 0
            /\ options.start > 0 /\ options.end > 0 =>
                 [k \in DOMAIN payload.folds |-> payload.folds[k].month]
                    = [k \in 1..(options.end - options.start) |-> options.start + k - 1]
            /\ summary.positive + summary.unavailable <= summary.months

(* A search reports the same whether its months are backtested in one      *)
(* process or collected row by row from runs that were interrupted, and    *)
(* the portfolio evaluation agrees with it: it finds the months and        *)
(* returns of every candidate, whether it reads the series of the report   *)
(* or its ranked folds, and its average is that of the candidates.  What   *)
(* an evaluation has read already does not matter to it, so it is stated   *)
(* of the states before one.                                               *)
ReportsAgree ==
    LET rs == Deduplicated(OwnRows(resultRows))
        aggregated == AggregatedRows(rs)
        series == SeriesFromFolds(aggregated.folds)
        complete == \A c \in TestedCandidates, m \in SearchMonths : HasRow(rs, c, m)
        report == SearchReport([c \in TestedCandidates |->
                                  [m \in SearchMonths |-> ResultOf(rs, c, m)]])
        months == SetToSortSeq(SearchMonths, <)
    IN  evaluation.status = "none" /\ Torn \notin ToSet(resultRows) /\ ~RowsConflict(OwnRows(resultRows)) /\ ~HasGap(rs) =>
        /\ series = aggregated.series
        /\ \A k \in DOMAIN aggregated.results :
             LET r == aggregated.results[k]
                 s == CandidateSummary(series, r.candidate)
             IN  s.months = r.folds /\ s.total = r.total /\ s.positive = r.positive
        /\ complete =>
             /\ [folds |-> aggregated.folds, results |-> aggregated.results] = report
             /\ LET returns == [k \in DOMAIN months |-> PortfolioReturn(series, months[k])]
                IN  Total([k \in DOMAIN months |-> returns[k][1]])
                      = Total([c \in 1..Cardinality(TestedCandidates) |->
                                 CandidateSummary(series, c).total])
             /\ \A k \in DOMAIN FoldsOfSearch(1, 3) :
                  LET fold == FoldsOfSearch(1, 3)[k]
                  IN  fold.train = ToSet(PriorMonths(fold.month, options.train))

(* Neither the search nor what is selected from it is told two ways.       *)
EvaluationIsSound == EvaluationIsOutOfSample /\ ReportsAgree
=============================================================================
