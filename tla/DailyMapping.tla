---------------------------- MODULE DailyMapping ----------------------------
(***************************************************************************)
(* From daily evidence to a daily strategy mapping: one evidence row per   *)
(* candidate and observed day (run_daily_strategy_evidence), the mapping   *)
(* of the frozen components (BuildDailyStrategyMappingUseCase.execute),    *)
(* the baseline without components (select_global_fixed_daily_candidate)   *)
(* and the reassessment of a finished mapping under another risk policy    *)
(* (reassess_daily_mapping_policy).                                        *)
(***************************************************************************)
EXTENDS ReturnStatistics

CONSTANTS
    Candidates,     \* candidate ids, numbers for their order
    Components,     \* fingerprints of the frozen model's components
    MappingFit, Purge, Validation,  \* the days of the statistical calendar
    MonthOf,        \* calendar month of a day
    Replays,        \* what the replay of a candidate on a day may report
    Bounds,         \* values a bootstrapped lower bound may take, by Equity
    BlockDays, MinEpisodes, MinMonths, MinTrades,
    Tolerance,      \* what _decimal_reconciles lets pass
    StrictPolicy, TighterPolicy, LooserPolicy

(* DailyRiskPolicy.__post_init__ *)
PolicyIsValid(policy) ==
    /\ ~Less(Zero, policy.worst) /\ ~Less(Zero, policy.shortfall)
    /\ \A q \in {policy.drawdown, policy.topEpisode, policy.topTrades} :
         ~Less(q, Zero) /\ ~Less(<<1, 1>>, q)

(* ThreeDayDailyWalkForwardFold.__post_init__: the phases follow each      *)
(* other with a purge between them, and the days in between have no role.  *)
FoldIsValid ==
    LET all == MappingFit \union Purge \union Validation
    IN  /\ all = 1..Cardinality(all)
        /\ Purge # {}
        /\ \A m \in MappingFit, p \in Purge, v \in Validation : m < p /\ p < v

(* ThreeDayDailyResearchProfile.__post_init__ *)
ASSUME ProfileAssumption ==
    /\ FoldIsValid
    /\ \A policy \in {StrictPolicy, TighterPolicy, LooserPolicy} : PolicyIsValid(policy)
    /\ MinEpisodes >= 2

(* The limits of the policies are ratios, and one policy is tighter than   *)
(* the one that a mapping is built with; a day loses less than the equity  *)
(* that it began with (_finite_returns).                                   *)
ASSUME DailyAssumption ==
    LET ratios == Int \X (Nat \ {0})
        policies == [worst : ratios, shortfall : ratios, drawdown : ratios,
                     topEpisode : ratios, topTrades : ratios]
        replays == [available : BOOLEAN, net : Int, trades : Seq(Int)]
    IN  /\ {StrictPolicy, TighterPolicy, LooserPolicy} \subseteq policies
        /\ \A limit \in {"worst", "shortfall"} :
             ~Less(TighterPolicy[limit], StrictPolicy[limit])
        /\ \A limit \in {"drawdown", "topEpisode", "topTrades"} :
             ~Less(StrictPolicy[limit], TighterPolicy[limit])
        /\ Replays \subseteq replays /\ \A replay \in Replays : replay.net > -Equity
        /\ IsFiniteSet(MappingFit \union Purge \union Validation)
        /\ IsFiniteSet(Candidates) /\ Candidates \subseteq Nat \ {0}
        /\ Bounds \subseteq Int /\ Tolerance \in Nat /\ BlockDays \in Nat \ {0}
        /\ MinEpisodes \in Nat /\ MinMonths \in Nat /\ MinTrades \in Nat

VARIABLES
    calendar,   \* which of the three calendars the command carries
    label,      \* component_assignments of the observed days
    evidence,   \* evidence rows written so far, by candidate and day
    mapping     \* its status, and of a mapped one the artifact and the baseline

dailyVars == <<calendar, label, evidence, mapping>>

(* Nothing built yet, evidence that was not accepted, a mapping that its   *)
(* validators refuse, and a bootstrap that finds no bound                  *)
NoMapping == [status |-> "none"]
Rejected == [status |-> "rejected"]
Refused == [status |-> "refused"]
Failed == [status |-> "failed"]

(* build_daily_statistical_calendar, _validate_calendar *)
CalendarDays(c) ==
    CASE c = "mapping_fit" -> MappingFit
      [] c = "validation"  -> Validation
      [] c = "combined"    -> MappingFit \union Purge \union Validation

Days == CalendarDays(calendar)
Observed == Days \ Purge

DailyInit ==
    /\ calendar \in {"mapping_fit", "validation", "combined"}
    /\ label \in [CalendarDays(calendar) \ Purge -> Components]
    /\ evidence = <<>>
    /\ mapping = NoMapping

-----------------------------------------------------------------------------
(* Evidence *)

(* The last trade takes up what the reported sums differ by. *)
NormalizedTrades(replay) ==
    LET n == Len(replay.trades)
    IN  IF n = 0 THEN <<>>
        ELSE [replay.trades EXCEPT ![n] = @ + replay.net - Total(replay.trades)]

Reconciles(a, b) == a - b \in (-Tolerance)..Tolerance

(* _available_evidence, _unavailable_evidence *)
EvidenceRow(c, d, replay) ==
    [candidate |-> c, day |-> d, component |-> label[d],
     available |-> replay.available,
     net |-> replay.net,
     trades |-> NormalizedTrades(replay)]

(* DailyStrategyEvidence.__post_init__ *)
RowIsValid(row) ==
    /\ Total(row.trades) = row.net
    /\ ~row.available => row.net = 0 /\ row.trades = <<>>

(* The next row of the ledger: days in order, candidates in order. A       *)
(* result whose trades do not add up to its net is refused.                *)
RunEvidence(c, d) ==
    /\ mapping = NoMapping
    /\ d \in Observed
    /\ <<c, d>> \notin DOMAIN evidence
    /\ \A e \in Observed : e < d => \A k \in Candidates : <<k, e>> \in DOMAIN evidence
    /\ \A k \in Candidates : k < c => <<k, d>> \in DOMAIN evidence
    /\ \E replay \in Replays :
         LET row == EvidenceRow(c, d, replay)
         IN  IF Reconciles(Total(replay.trades), replay.net) /\ RowIsValid(row)
             THEN /\ evidence' = [k \in DOMAIN evidence \union {<<c, d>>} |->
                                    IF k = <<c, d>> THEN row ELSE evidence[k]]
                  /\ UNCHANGED mapping
             ELSE mapping' = Rejected /\ UNCHANGED evidence
    /\ UNCHANGED <<calendar, label>>

-----------------------------------------------------------------------------
(* Assessment of a candidate on the days of a component *)

(* Global is the component of select_global_fixed_daily_candidate. *)
Global == "global"
DaysOf(x) == IF x = Global THEN Observed ELSE {d \in Observed : label[d] = x}

AvailableDays(x, c) == {d \in DaysOf(x) : evidence[<<c, d>>].available}
AvailableRows(x, c) ==
    LET days == InOrder(AvailableDays(x, c)) IN [i \in DOMAIN days |-> evidence[<<c, days[i]>>]]
Returns(x, c) ==
    LET rows == AvailableRows(x, c) IN [i \in DOMAIN rows |-> rows[i].net]
Trades(x, c) ==
    LET rows == AvailableRows(x, c) IN FlattenSeq([i \in DOMAIN rows |-> rows[i].trades])
Months(x, c) == {MonthOf[r.day] : r \in Range(AvailableRows(x, c))}

(* A day of another component counts as a day in cash; a purged or         *)
(* unavailable day has no value.                                           *)
Aligned(x, c, d) ==
    IF d \in Purge THEN <<>>
    ELSE IF d \notin DaysOf(x) THEN <<0>>
    ELSE IF evidence[<<c, d>>].available THEN <<evidence[<<c, d>>].net>> ELSE <<>>

(* Variant: a purged day counts as a day in cash as well. *)
BlocksOverPurge(x, c) ==
    LET value(d) == IF d \in Purge THEN <<0>> ELSE Aligned(x, c, d)
        starts == {d \in Days : \A k \in 0..(BlockDays - 1) : d + k \in Days /\ value(d + k) # <<>>}
    IN  {[k \in 1..BlockDays |-> value(s + k - 1)[1]] : s \in starts}

(* worst_seven_calendar_day_return, _has_complete_seven_day_block *)
Blocks(x, c) ==
    LET starts == {d \in Days : \A k \in 0..(BlockDays - 1) :
                        d + k \in Days /\ Aligned(x, c, d + k) # <<>>}
    IN  {[k \in 1..BlockDays |-> Aligned(x, c, s + k - 1)[1]] : s \in starts}

(* coverage_eligible *)
IsCovered(x, c) ==
    Len(Returns(x, c)) >= MinEpisodes /\ Cardinality(Months(x, c)) >= MinMonths

(* _aligned_component_corrected_lower_bounds: the mean where all returns   *)
(* are one value, what the bootstrap yields otherwise, and zero for a      *)
(* candidate without enough evidence.                                      *)
NeedsBootstrap(x, c) == IsCovered(x, c) /\ Cardinality(Range(Returns(x, c))) > 1

LowerBound(x, c, draw) ==
    IF ~IsCovered(x, c) THEN Zero
    ELSE IF NeedsBootstrap(x, c) THEN <<draw[c], Equity>>
    ELSE Mean(Returns(x, c))

Named(condition, reason) == IF condition THEN {reason} ELSE {}

(* _metrics, and the fields of DailyCandidateAssessment *)
Metrics(x, c, bound) ==
    LET r == Returns(x, c)
        t == Trades(x, c)
        blocks == Blocks(x, c)
    IN  [component |-> x, candidate |-> c,
         assigned |-> Cardinality(DaysOf(x)), episodes |-> Len(r),
         months |-> Cardinality(Months(x, c)), trades |-> Len(t),
         net |-> Compound(r), median |-> Median(r), bound |-> bound,
         complete |-> blocks # {},
         worst |-> IF blocks = {} THEN Zero ELSE Least({Compound(b) : b \in blocks}),
         shortfall |-> ExpectedShortfall(r), drawdown |-> MaximumDrawdown(r),
         withoutBest |-> Compound(WithoutBest(r)),
         topEpisode |-> TopShare(r, 1), topTrades |-> TopShare(t, TopTrades),
         gain |-> \E i \in DOMAIN r : r[i] > 0, tradeGain |-> \E i \in DOMAIN t : t[i] > 0]

(* rejection_reasons *)
RejectionReasons(m, policy) ==
    UNION {
        Named(m.episodes < MinEpisodes, "insufficient_daily_episodes"),
        Named(m.months < MinMonths, "insufficient_calendar_months"),
        Named(m.trades < MinTrades, "insufficient_closed_trades"),
        Named(AtMostZero(m.net), "non_positive_net_performance_after_costs"),
        Named(AtMostZero(m.bound), "non_positive_corrected_lower_bound"),
        Named(AtMostZero(m.bound), "statistically_not_better_than_cash"),
        Named(~m.complete, "insufficient_complete_seven_day_blocks"),
        Named(Less(m.worst, policy.worst), "worst_seven_day_return_below_limit"),
        Named(Less(m.shortfall, policy.shortfall), "expected_shortfall_below_limit"),
        Named(Less(policy.drawdown, m.drawdown), "maximum_drawdown_above_limit"),
        Named(AtMostZero(m.withoutBest), "non_positive_return_without_best_episode"),
        Named(~m.gain, "no_positive_episode_profit"),
        Named(Less(policy.topEpisode, m.topEpisode), "top_episode_profit_share_above_limit"),
        Named(~m.tradeGain, "no_positive_trade_profit"),
        Named(Less(policy.topTrades, m.topTrades), "top_five_trade_profit_share_above_limit")}

Assessment(x, c, bound, policy) ==
    LET m == Metrics(x, c, bound)
    IN  [metrics |-> m, reasons |-> RejectionReasons(m, policy)]

(* _winner_order_key: the smallest wins *)
WinnerKey(m) ==
    <<<<-m.bound[1], m.bound[2]>>, <<-m.withoutBest[1], m.withoutBest[2]>>,
      <<-m.shortfall[1], m.shortfall[2]>>, m.drawdown,
      <<-m.median[1], m.median[2]>>, <<m.candidate, 1>>>>

Winner(S) == CHOOSE m \in S : \A o \in S \ {m} : Precedes(WinnerKey(m), WinnerKey(o))

(* DailyStrategyMappingEntry; 0 is the decision for cash *)
Entry(x, assessments) ==
    LET eligible == {a.metrics : a \in {b \in assessments : b.reasons = {}}}
    IN  IF eligible # {}
        THEN [component |-> x, decision |-> Winner(eligible).candidate, reasons |-> {}]
        ELSE [component |-> x, decision |-> 0,
              reasons |-> {"no_eligible_candidate"} \union
                IF DaysOf(x) = {} THEN {"insufficient_evidence"}
                ELSE UNION {a.reasons : a \in assessments}]

(* _validate_evidence_grid *)
GridIsValid ==
    /\ DOMAIN evidence = Candidates \X Observed
    /\ \A k \in DOMAIN evidence :
         RowIsValid(evidence[k]) /\ evidence[k].component = label[k[2]]

(* DailyCandidateAssessment.__post_init__ *)
AssessmentIsValid(a) ==
    LET m == a.metrics
        isShare(q) == ~Less(q, Zero) /\ ~Less(<<1, 1>>, q)
    IN  /\ m.episodes <= m.assigned
        /\ isShare(m.drawdown) /\ isShare(m.topEpisode) /\ isShare(m.topTrades)

(* DailyStrategyMappingEntry.__post_init__ and                             *)
(* DailyStrategyMappingArtifact.__post_init__                              *)
ArtifactIsValid(artifact) ==
    /\ DOMAIN artifact.entries = Components
    /\ \A x \in Components :
         LET eligible == {a.metrics.candidate :
                            a \in {b \in artifact.assessments[x] : b.reasons = {}}}
             entry == artifact.entries[x]
         IN  /\ {a.metrics.candidate : a \in artifact.assessments[x]} = Candidates
             /\ \A a \in artifact.assessments[x] : AssessmentIsValid(a)
             /\ entry.decision # 0 => entry.decision \in eligible /\ entry.reasons = {}
             /\ entry.decision = 0 => eligible = {} /\ entry.reasons # {}

(* select_global_fixed_daily_candidate: one candidate for all days *)
GlobalBaseline(draw) ==
    LET assessed == {Assessment(Global, c, LowerBound(Global, c, draw), StrictPolicy) :
                        c \in Candidates}
        eligible == {a.metrics : a \in {b \in assessed : b.reasons = {}}}
    IN  IF eligible = {} THEN 0 ELSE Winner(eligible).candidate

(* BuildDailyStrategyMappingUseCase.execute on the finished ledger, and    *)
(* the baseline. What the bootstrap of a candidate yields is drawn once: a *)
(* component that has all days gives it the inputs and the seed of the     *)
(* baseline.                                                               *)
Bootstrapped == {c \in Candidates : \E x \in Components \union {Global} : NeedsBootstrap(x, c)}

BuildMapping ==
    /\ mapping = NoMapping
    /\ DOMAIN evidence = Candidates \X Observed
    /\ IF ~GridIsValid THEN mapping' = Refused
       ELSE \E draw \in [Bootstrapped -> Bounds] :
         LET assessed == [x \in Components |->
                            {Assessment(x, c, LowerBound(x, c, draw), StrictPolicy) :
                                c \in Candidates}]
             artifact == [assessments |-> assessed,
                          entries |-> [x \in Components |-> Entry(x, assessed[x])]]
         IN  mapping' = IF ArtifactIsValid(artifact)
                        THEN [status |-> "mapped", artifact |-> artifact,
                              baseline |-> GlobalBaseline(draw)]
                        ELSE Refused
    /\ UNCHANGED <<calendar, label, evidence>>

(* The aligned bootstrap finds too few resamples with two observations of  *)
(* a covered candidate.                                                    *)
BootstrapFails ==
    /\ mapping = NoMapping
    /\ DOMAIN evidence = Candidates \X Observed
    /\ \E x \in Components \union {Global}, c \in Candidates : IsCovered(x, c)
    /\ mapping' = Failed
    /\ UNCHANGED <<calendar, label, evidence>>

DailyNext ==
    \/ \E c \in Candidates, d \in Observed : RunEvidence(c, d)
    \/ BuildMapping
    \/ BootstrapFails

DailySpec == DailyInit /\ [][DailyNext]_dailyVars

-----------------------------------------------------------------------------
(* reassess_daily_mapping_policy: the stored reasons without the risk      *)
(* limits, and the limits of another policy on the stored statistics       *)

RiskReasons == {"worst_seven_day_return_below_limit", "expected_shortfall_below_limit",
                "maximum_drawdown_above_limit", "top_episode_profit_share_above_limit",
                "top_five_trade_profit_share_above_limit"}

ReassessedReasons(a, policy) ==
    LET m == a.metrics
    IN  UNION {
            a.reasons \ RiskReasons,
            Named(Less(m.worst, policy.worst), "worst_seven_day_return_below_limit"),
            Named(Less(m.shortfall, policy.shortfall), "expected_shortfall_below_limit"),
            Named(Less(policy.drawdown, m.drawdown), "maximum_drawdown_above_limit"),
            Named(Less(policy.topEpisode, m.topEpisode), "top_episode_profit_share_above_limit"),
            Named(Less(policy.topTrades, m.topTrades), "top_five_trade_profit_share_above_limit")}

Reassessed(artifact, x, policy) ==
    LET eligible == {a.metrics : a \in {b \in artifact.assessments[x] : ReassessedReasons(b, policy) = {}}}
    IN  IF eligible = {} THEN 0 ELSE Winner(eligible).candidate

-----------------------------------------------------------------------------
(* Properties *)

IsMapped == mapping.status = "mapped"

(* What the mapping says of a component, said of the evidence: cash for a  *)
(* component that was never observed, and a strategy only if on every row  *)
(* of BlockDays days without purge or missing evidence its gains and       *)
(* losses, the days of other components being neutral, stay above the      *)
(* limit, and if the component's days lie in enough months.                *)
EntryIsJustified(x, c) ==
    LET mine(d) == d \in DaysOf(x)
        observed(d) == d \in Observed /\ (mine(d) => evidence[<<c, d>>].available)
        windows == {d \in Days : \A k \in 0..(BlockDays - 1) : observed(d + k)}
        value(d) == IF mine(d) THEN evidence[<<c, d>>].net ELSE 0
    IN  /\ windows # {}
        /\ \A w \in windows :
             ~Less(Compound([k \in 1..BlockDays |-> value(w + k - 1)]), StrictPolicy.worst)
        /\ Cardinality({MonthOf[d] : d \in {e \in DaysOf(x) : evidence[<<c, e>>].available}}) >= MinMonths
        /\ \E d \in DaysOf(x) : evidence[<<c, d>>].net > 0

BuiltUnder(x, policy) ==
    Entry(x, {[metrics |-> a.metrics, reasons |-> RejectionReasons(a.metrics, policy)] :
                a \in mapping.artifact.assessments[x]}).decision

(* The builder, the validators of the artifact, the baseline and the       *)
(* reassessment are written separately and agree: evidence that was        *)
(* written is never refused later; a mapped strategy is justified by the   *)
(* evidence; reassessing under the policy the mapping was built with gives *)
(* the mapping, and under another policy what a mapping built with that    *)
(* policy would say; a tighter policy maps no component that a looser one  *)
(* leaves in cash; and with all days in one component the mapping of that  *)
(* component is the baseline.                                              *)
MappingIsSound ==
    /\ mapping # Refused
    /\ IsMapped =>
         LET decided(x) == mapping.artifact.entries[x].decision
             under(x, policy) == Reassessed(mapping.artifact, x, policy)
         IN  \A x \in Components :
               /\ decided(x) # 0 => EntryIsJustified(x, decided(x))
               /\ under(x, StrictPolicy) = decided(x)
               /\ \A policy \in {TighterPolicy, LooserPolicy} :
                    under(x, policy) = BuiltUnder(x, policy)
               /\ under(x, TighterPolicy) # 0 => decided(x) # 0
               /\ DaysOf(x) = Observed => decided(x) = mapping.baseline
=============================================================================
