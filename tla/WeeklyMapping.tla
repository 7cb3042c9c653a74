---------------------------- MODULE WeeklyMapping ---------------------------
(***************************************************************************)
(* The weekly walk-forward between its features and its frozen artifacts:  *)
(* the models of each family are gated and one per family is selected      *)
(* (_default_evaluate_models, SelectRegimeModelUseCase), every candidate   *)
(* is replayed on the weeks its features cover, a strategy mapping is      *)
(* built for each model (_default_build_mappings,                          *)
(* BuildStrategyMappingUseCase), and the validation replays freeze one     *)
(* model and mapping per family (_default_validate).                       *)
(***************************************************************************)
EXTENDS ReturnStatistics, FiniteSetsExt

CONSTANTS
    Weeks,              \* Mondays of Mapping Fit, consecutive numbers
    WeekMonth,          \* calendar month of a Monday
    WeekMonths,         \* calendar months the week touches
    Configs,            \* model configurations: id and family
    Labelings,          \* how a model may label the weeks, with 1 and 2
    WeeklyCandidates, Deferred,     \* candidates, and the deferred ones
    Coverings,          \* for a candidate, the sets of weeks its features may cover
    Outcomes,           \* for a candidate, what its replays may report by week
    Criticals,          \* critical values of the bootstrap, by Equity
    MappingConfigs, Policies,       \* grids of bootstrap and of policies
    MinWeeks, MinWeekMonths, MinWeekTrades,
    WeekBars            \* minutes of a week

ASSUME WeeklyAssumption ==
    /\ IsFiniteSet(Weeks) /\ Weeks = 1..Cardinality(Weeks)
    /\ \A w \in Weeks : IsFiniteSet(WeekMonths[w]) /\ WeekMonth[w] \in WeekMonths[w]
    /\ IsFiniteSet(Configs) /\ Configs \subseteq [id : Nat \ {0}, family : {"kmeans", "gmm"}]
    /\ \A c, d \in Configs : c.id = d.id => c = d
    /\ Labelings \subseteq [Weeks -> 1..2]
    /\ IsFiniteSet(WeeklyCandidates) /\ WeeklyCandidates \subseteq Nat \ {0}
    /\ \A c \in WeeklyCandidates : Outcomes[c] \subseteq
           [Weeks -> [trades : Seq(Int), bars : Nat, drift : Int]]
    /\ Criticals \subseteq Nat
    /\ \A S \in {MappingConfigs, Policies} : IsFiniteSet(S) /\ S # {} /\ S \subseteq Nat
    /\ MinWeeks \in Nat /\ MinWeeks >= 2
    /\ MinWeekMonths \in Nat /\ MinWeekTrades \in Nat /\ WeekBars \in Nat \ {0}

VARIABLES
    stage,      \* models, evidence, mappings, validation, then an end
    models,     \* the selected model of each family
    rows,       \* evidence rows by candidate and week
    mappings,   \* mapping of each family and mapping configuration, and the
                \* decision on all weeks together
    frozen      \* model and mapping of each family, and the chosen family

weeklyVars == <<stage, models, rows, mappings, frozen>>

WeeklyInit ==
    /\ stage = "models"
    /\ models = <<>> /\ rows = <<>> /\ mappings = <<>> /\ frozen = <<>>

-----------------------------------------------------------------------------
(* Model selection *)

Families == {"kmeans", "gmm"}

(* A fitted model: its labels are fingerprints of its own. distances is    *)
(* the multiple of its distance thresholds.                                *)
Model(config, labeling) ==
    [id |-> config.id, family |-> config.family, distances |-> 1,
     labels |-> [w \in Weeks |-> <<config.id, labeling[w]>>]]
Fingerprints(model) == {<<model.id, 1>>, <<model.id, 2>>}

(* What _default_evaluate_models learns of a configuration: that a seed    *)
(* failed, or how the first seed labels the weeks, whether the seeds and   *)
(* blocks agree, and the score of the family.                              *)
Evidence == {[fitted |-> FALSE]} \union
            [fitted : {TRUE}, labeling : Labelings, stable : BOOLEAN, score : 1..2]

(* RegimeModelEvidence, _apply_gates: every cluster has enough weeks in    *)
(* enough months; one label leaves k-means without a silhouette.           *)
PassesGates(config, e) ==
    /\ e.fitted
    /\ \A k \in 1..2 :
         LET weeks == {w \in Weeks : e.labeling[w] = k}
         IN  /\ Cardinality(weeks) >= MinWeeks
             /\ Cardinality({WeekMonth[w] : w \in weeks}) >= MinWeekMonths
    /\ e.stable
    /\ config.family = "kmeans" => Cardinality(Range(e.labeling)) > 1

(* SelectRegimeModelUseCase.execute: the silhouette is maximised, the BIC  *)
(* minimised, the id breaks ties.                                          *)
FamilyWinner(S, e) ==
    CHOOSE c \in S : \A o \in S \ {c} :
        \/ IF c.family = "kmeans" THEN e[c].score > e[o].score ELSE e[c].score < e[o].score
        \/ e[c].score = e[o].score /\ c.id < o.id

EvaluateModels ==
    /\ stage = "models"
    /\ \E e \in [Configs -> Evidence] :
         LET eligible(f) == {c \in Configs : c.family = f /\ PassesGates(c, e[c])}
             winner(f) == FamilyWinner(eligible(f), e)
         IN  models' = [f \in {g \in Families : eligible(g) # {}} |->
                           Model(winner(f), e[winner(f)].labeling)]
    /\ stage' = IF models' = <<>> THEN "cash" ELSE "evidence"
    /\ UNCHANGED <<rows, mappings, frozen>>

-----------------------------------------------------------------------------
(* Evidence *)

Row(week, report) ==
    [week |-> week, net |-> Total(report.trades), trades |-> report.trades, bars |-> report.bars]

(* _validate_trade: every trade takes a minute or more of the week, and    *)
(* they do not overlap.                                                    *)
TradesFit(report) == report.bars \in Len(report.trades)..WeekBars

(* _validate_backtest_evidence: the running equity the replay reports is   *)
(* exactly the initial equity and the net result; drift is what the        *)
(* rounding of the running equity adds.                                    *)
IsReconciled(report) == report.drift = 0 /\ TradesFit(report)

(* run_mapping_episodes takes the candidates it is given directly and      *)
(* refuses the deferred ones.                                              *)
IsRefused(c, report) == c \in Deferred \/ ~IsReconciled(report)

(* _mapping_feature_coverage, _run_mapping_coverage_filtered_evidence: a   *)
(* candidate is replayed on the weeks in which its features are available  *)
(* at every minute; the first refusal ends the experiment.                 *)
RunWeeklyEvidence ==
    /\ stage = "evidence"
    /\ \E covered \in {f \in [WeeklyCandidates -> SUBSET Weeks] :
                           \A c \in WeeklyCandidates : f[c] \in Coverings[c]} :
       \E report \in {f \in [WeeklyCandidates -> UNION Range(Outcomes)] :
                          \A c \in WeeklyCandidates : f[c] \in Outcomes[c]} :
         LET keys == {k \in WeeklyCandidates \X Weeks : k[2] \in covered[k[1]]}
             refused == {k \in keys : IsRefused(k[1], report[k[1]][k[2]])}
         IN  IF refused # {}
             THEN stage' = "refused" /\ UNCHANGED rows
             ELSE /\ rows' = [k \in keys |-> Row(k[2], report[k[1]][k[2]])]
                  /\ stage' = IF keys = {} THEN "cash" ELSE "mappings"
    /\ UNCHANGED <<models, mappings, frozen>>

-----------------------------------------------------------------------------
(* The mapping of one model *)

(* candidate_hashes: the candidates with evidence *)
Universe == {k[1] : k \in DOMAIN rows}

(* Variant: the rows keep the labels of the family they were run with. *)
LabelsOfReference(model) ==
    IF model.id = 0 THEN model.labels ELSE models[CHOOSE f \in DOMAIN models : TRUE].labels

(* The evidence is run once; each family gives it its own labels. *)
LabelsOf(model) == model.labels

ObservedClusters(model) == {LabelsOf(model)[k[2]] : k \in DOMAIN rows}

(* Weeks of a candidate in a cluster, in order. *)
WeeksIn(model, x, c) ==
    InOrder({w \in Weeks : <<c, w>> \in DOMAIN rows /\ LabelsOf(model)[w] = x})

(* has_sufficient_calendar_block_coverage *)
HasBlocks(weeks) ==
    weeks # <<>> /\ \A w \in Range(weeks) : w - 1 \in Range(weeks) \/ w + 1 \in Range(weeks)

MonthsTouched(weeks) == UNION {WeekMonths[w] : w \in Range(weeks)}

WeekReturns(weeks, c) == [i \in DOMAIN weeks |-> rows[<<c, weeks[i]>>].net]
WeekTrades(weeks, c) == FlattenSeq([i \in DOMAIN weeks |-> rows[<<c, weeks[i]>>].trades])

(* pre_statistical: the candidates of a cluster that are bootstrapped *)
IsStatistical(weeks, c) ==
    /\ Len(weeks) >= MinWeeks
    /\ Cardinality(MonthsTouched(weeks)) >= MinWeekMonths
    /\ Len(WeekTrades(weeks, c)) >= MinWeekTrades
    /\ HasBlocks(weeks)

(* _rank_coupled_calendar_family_corrected_lower_bounds: the mean less the *)
(* one critical value of the cluster, which is zero if no resample of any  *)
(* bootstrapped candidate differs from its mean.                           *)
CorrectedBound(model, x, c, critical) ==
    LET of(k) == WeeksIn(model, x, k)
        statistical == {k \in Universe : IsStatistical(of(k), k)}
        varied == \E k \in statistical : Cardinality(Range(WeekReturns(of(k), k))) > 1
        returns == WeekReturns(of(c), c)
    IN  IF c \notin statistical THEN Zero
        ELSE IF varied THEN <<Total(returns) - critical * Len(returns), Len(returns) * Equity>>
        ELSE Mean(returns)

(* _metrics, _zero_metrics, and the fields of CandidateMappingAssessment *)
Assess(model, x, c, critical) ==
    LET weeks == WeeksIn(model, x, c)
        returns == WeekReturns(weeks, c)
        trades == WeekTrades(weeks, c)
    IN  [candidate |-> c, weeks |-> weeks, trades |-> Len(trades),
         mean |-> Mean(returns), median |-> Median(returns),
         bound |-> CorrectedBound(model, x, c, critical),
         exposure |-> IF weeks = <<>> THEN Zero
                      ELSE <<Total([i \in DOMAIN weeks |-> rows[<<c, weeks[i]>>].bars]),
                             Len(weeks) * WeekBars>>,
         topTrades |-> TopShare(trades, TopTrades), topWeek |-> TopShare(returns, 1)]

(* derive_mapping_rejection_reasons *)
Reasons(a) ==
    LET named(condition, reason) == IF condition THEN {reason} ELSE {}
    IN  UNION {named(Len(a.weeks) < MinWeeks, "minimum_weekly_episodes"),
               named(Cardinality(MonthsTouched(a.weeks)) < MinWeekMonths, "minimum_distinct_months"),
               named(a.trades < MinWeekTrades, "minimum_trade_count"),
               named(~HasBlocks(a.weeks), "insufficient_consecutive_blocks"),
               named(AtMostZero(a.bound), "non_positive_corrected_lower_bound"),
               named(AtMostZero(a.mean), "cash_dominance")}

(* The order of the eligible candidates. *)
WeeklyKey(a) ==
    <<<<-a.bound[1], a.bound[2]>>, <<-a.median[1], a.median[2]>>,
      <<-a.mean[1], a.mean[2]>>, <<a.candidate, 1>>>>

(* StrategyMappingEntry; 0 is cash *)
WeeklyDecision(assessments) ==
    LET eligible == {a \in assessments : Reasons(a) = {}}
    IN  IF eligible = {} THEN 0
        ELSE (CHOOSE a \in eligible :
                \A o \in eligible \ {a} : Precedes(WeeklyKey(a), WeeklyKey(o))).candidate

(* _selection_policy *)
PolicyOf(model) ==
    [family |-> model.family,
     distances |-> IF model.family = "kmeans"
                   THEN [x \in Fingerprints(model) |-> model.distances] ELSE <<>>]

(* BuildStrategyMappingUseCase.execute: entries for the clusters that have *)
(* evidence.                                                               *)
MappingOf(model, critical) ==
    LET assessed == [x \in ObservedClusters(model) |->
                        {Assess(model, x, c, critical[x[2]]) : c \in Universe}]
    IN  [model |-> model, policy |-> PolicyOf(model), universe |-> Universe,
         assessments |-> assessed,
         entries |-> [x \in DOMAIN assessed |-> WeeklyDecision(assessed[x])]]

(* _freeze_metrics and CandidateMappingAssessment.__post_init__ *)
AssessmentIsAccepted(a) ==
    /\ \A q \in {a.exposure, a.topTrades, a.topWeek} : ~Less(q, Zero) /\ ~Less(<<1, 1>>, q)
    /\ Equal(a.exposure, Zero) => Equal(a.mean, Zero)

(* StrategyMappingArtifact.__post_init__, which derives the eligible       *)
(* candidates and the winner again                                         *)
IsAccepted(mapping) ==
    /\ mapping.policy.family = "kmeans" =>
         DOMAIN mapping.policy.distances = DOMAIN mapping.entries
    /\ \A x \in DOMAIN mapping.entries :
         /\ {a.candidate : a \in mapping.assessments[x]} = mapping.universe
         /\ \A a \in mapping.assessments[x] : AssessmentIsAccepted(a)
         /\ mapping.entries[x] = WeeklyDecision(mapping.assessments[x])

(* The weeks under one label: what the mapping of all weeks together says  *)
(* is the comparison candidate selected in training.                       *)
Together == [id |-> 0, family |-> "gmm", distances |-> 1, labels |-> [w \in Weeks |-> <<0, 1>>]]

BuildWeeklyMappings ==
    /\ stage = "mappings"
    /\ \E critical \in [(DOMAIN models) \X MappingConfigs -> [1..2 -> Criticals]],
          together \in Criticals :
         LET built == [f \in DOMAIN models |->
                         [b \in MappingConfigs |-> MappingOf(models[f], critical[<<f, b>>])]]
             all == MappingOf(Together, [k \in 1..2 |-> together])
         IN  IF /\ \A f \in DOMAIN built, b \in MappingConfigs : IsAccepted(built[f][b])
                /\ IsAccepted(all)
             THEN /\ mappings' = [family |-> built, trainSelected |-> all.entries[<<0, 1>>]]
                  /\ stage' = "validation"
             ELSE stage' = "aborted" /\ UNCHANGED mappings
    /\ UNCHANGED <<models, rows, frozen>>

-----------------------------------------------------------------------------
(* Validation *)

(* The policies of a model: for k-means other distance thresholds. *)
UnderPolicy(model, p) ==
    IF model.family = "kmeans" THEN [model EXCEPT !.distances = p] ELSE model

(* dataclasses.replace of what ties a mapping to its model *)
Linked(mapping, model) == [mapping EXCEPT !.model = model, !.policy = PolicyOf(model)]

(* validate_model_mapping_artifact_pair *)
PairIsValid(model, mapping) ==
    /\ mapping.model = model
    /\ DOMAIN mapping.entries = Fingerprints(model)
    /\ mapping.policy = PolicyOf(model)

(* Each family freezes its best replay and the best of these is chosen;    *)
(* the name of the configuration breaks ties: the mapping configuration,   *)
(* then the policy, those of gmm first. An option is a family, a mapping   *)
(* configuration and a policy.                                             *)
Options(f) == {f} \X MappingConfigs \X Policies
ValidationKey(score, o) ==
    LET place == [gmm |-> 1, kmeans |-> 2]
    IN  <<<<-score[o], 1>>, <<o[2], 1>>, <<place[o[1]], 1>>, <<o[3], 1>>>>
BestOption(S, score) ==
    CHOOSE o \in S : \A q \in S \ {o} : Precedes(ValidationKey(score, o), ValidationKey(score, q))

ValidateMappings ==
    /\ stage = "validation"
    /\ LET all == UNION {Options(f) : f \in DOMAIN models}
           model(o) == UnderPolicy(models[o[1]], o[3])
           mapping(o) == Linked(mappings.family[o[1]][o[2]], model(o))
       IN  IF \E o \in all : ~PairIsValid(model(o), mapping(o))
           THEN stage' = "aborted" /\ UNCHANGED frozen
           ELSE \E score \in [all -> 0..1] :
             LET winner == [f \in DOMAIN models |-> BestOption(Options(f), score)]
                 overall == BestOption(Range(winner), score)
             IN  /\ frozen' = [family |-> overall[1],
                               pair |-> [f \in DOMAIN models |-> [model |-> model(winner[f]),
                                                                  mapping |-> mapping(winner[f])]],
                               margin |-> {score[o] - score[overall] : o \in all}]
                 /\ stage' = "frozen"
    /\ UNCHANGED <<models, rows, mappings>>

WeeklyNext ==
    \/ EvaluateModels
    \/ RunWeeklyEvidence
    \/ BuildWeeklyMappings
    \/ ValidateMappings

WeeklySpec == WeeklyInit /\ [][WeeklyNext]_weeklyVars

-----------------------------------------------------------------------------
(* Properties *)

(* A cluster of a selected model in whose weeks no candidate was covered. *)
UnobservedCluster ==
    \E f \in DOMAIN models, k \in 1..2 :
        \A key \in DOMAIN rows : models[f].labels[key[2]] # <<models[f].id, k>>

(* The weeks of a candidate in a cluster of a model support a strategy:    *)
(* there are enough of them, in enough months, each beside another one,    *)
(* and what the candidate made in them is more than nothing.               *)
SupportedBy(model, x, c) ==
    LET weeks == {w \in Weeks : <<c, w>> \in DOMAIN rows /\ model.labels[w] = x}
    IN  /\ Cardinality(weeks) >= MinWeeks
        /\ Cardinality(UNION {WeekMonths[w] : w \in weeks}) >= MinWeekMonths
        /\ \A w \in weeks : {w - 1, w + 1} \intersect weeks # {}
        /\ MapThenSumSet(LAMBDA w : rows[<<c, w>>].net, weeks) > 0

(* What validation freezes is usable and justified: every frozen mapping   *)
(* belongs to the frozen model of its family, says something of each of    *)
(* its clusters and maps a cluster to a strategy only on the evidence of   *)
(* the weeks that model puts there; nothing scored better than the chosen  *)
(* family's pair; the candidate selected in training is supported by all   *)
(* weeks. Once the evidence is accepted the run breaks off only because a  *)
(* selected model has a cluster without any evidence.                      *)
FrozenPairsAreSound ==
    /\ stage = "aborted" => UnobservedCluster
    /\ stage = "frozen" =>
         /\ \A f \in DOMAIN models :
              LET pair == frozen.pair[f]
              IN  /\ PairIsValid(pair.model, pair.mapping)
                  /\ pair.model.labels = models[f].labels
                  /\ \A x \in Fingerprints(pair.model) :
                       pair.mapping.entries[x] # 0 =>
                         SupportedBy(pair.model, x, pair.mapping.entries[x])
         /\ \A d \in frozen.margin : d <= 0
         /\ mappings.trainSelected # 0 => SupportedBy(Together, <<0, 1>>, mappings.trainSelected)
=============================================================================
