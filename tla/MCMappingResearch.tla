-------------------------- MODULE MCMappingResearch --------------------------
(***************************************************************************)
(* The research that ends in a strategy mapping: the daily mapping, the    *)
(* weekly mapping, the independent audit of a published result, and the    *)
(* providers that answer with the features a candidate reads.  They share  *)
(* no state, so a behaviour is one of them while the others are still, at  *)
(* one of their initial states; which one, study says.                     *)
(***************************************************************************)
EXTENDS DailyMapping, WeeklyMapping, MappingAudit, FeatureProviders, TLC

CONSTANTS A, B, c1, c2, d1, d2

VARIABLE study

mappingVars == <<dailyVars, weeklyVars>>
researchVars == <<study, mappingVars, auditVars, providerVars>>

ResearchInit ==
    /\ study \in {"daily", "weekly", "audit", "providers"}
    /\ DailyInit /\ WeeklyInit /\ AuditInit /\ ProvidersInit
    /\ study # "daily" => calendar = "validation"
    /\ study # "audit" => /\ changes = 0
                          /\ archives = CHOOSE a \in Archives : TRUE
                          /\ code = CHOOSE c \in Codes : TRUE
    /\ study # "providers" => rowFile = [s \in Shards |-> CHOOSE c \in Contents[s] : TRUE]

ResearchNext ==
    /\ \/ study = "daily" /\ DailyNext /\ UNCHANGED <<weeklyVars, auditVars, providerVars>>
       \/ study = "weekly" /\ WeeklyNext /\ UNCHANGED <<dailyVars, auditVars, providerVars>>
       \/ study = "audit" /\ AuditNext /\ UNCHANGED <<mappingVars, providerVars>>
       \/ study = "providers" /\ ProvidersNext /\ UNCHANGED <<mappingVars, auditVars>>
    /\ UNCHANGED study

ResearchSpec == ResearchInit /\ [][ResearchNext]_researchVars

-----------------------------------------------------------------------------
(* Two candidates on two components over two mapping days, a purge day and *)
(* a validation day; three weekly candidates, one of them deferred, over   *)
(* four weeks; three archives under two versions of the code; two readers  *)
(* of two published caches, of which one holds trades and may end in a     *)
(* gap, and the other adds open interest.                                  *)

Interchangeable == Permutations(Components) \union Permutations(Readers)

Unavailable == [available |-> FALSE, net |-> 0, trades |-> <<>>]
Replay(net, trades) == [available |-> TRUE, net |-> net, trades |-> trades]

DailyReplays == {Unavailable, Replay(-1, <<-1>>), Replay(3, <<1, 2>>), Replay(2, <<1>>),
                 Replay(1, <<>>)}
BoundValues == {-1, 1}
MonthOfDay == <<1, 2, 2, 3>>

Policy(worst, shortfall, drawdown, episode, trades) ==
    [worst |-> worst, shortfall |-> shortfall, drawdown |-> drawdown,
     topEpisode |-> episode, topTrades |-> trades]

Strict == Policy(<<-1, 10>>, <<-1, 10>>, <<1, 10>>, <<3, 5>>, <<9, 10>>)
Tighter == Policy(<<0, 10>>, <<0, 10>>, <<0, 10>>, <<1, 2>>, <<8, 10>>)
Looser == Policy(<<-2, 10>>, <<-2, 10>>, <<3, 10>>, <<1, 1>>, <<1, 1>>)

Report(trades, drift) ==
    [trades |-> trades, bars |-> 2 * Len(trades), drift |-> drift]

Steady == [w \in Weeks |-> Report(<<1, 1>>, 0)]
Mixed == [w \in Weeks |-> IF w % 2 = 1 THEN Report(<<3>>, 0) ELSE Report(<<-1>>, 0)]
Late == [w \in Weeks |-> IF w <= 2 THEN Report(<<-1, -1>>, 0) ELSE Report(<<4>>, 0)]
Drifting == [w \in Weeks |-> Report(<<1, 1>>, IF w = 4 THEN 1 ELSE 0)]

MonthOfWeek == <<1, 2, 2, 3>>
MonthsOfWeek == <<{1}, {2}, {2, 3}, {3}>>
ModelConfigs == {[id |-> 1, family |-> "kmeans"], [id |-> 2, family |-> "kmeans"],
                 [id |-> 3, family |-> "gmm"]}
WeekLabels == {<<1, 1, 2, 2>>, <<1, 2, 2, 1>>, <<1, 1, 1, 2>>}
CoveredWeeks == <<{1..4, 1..2, 2..4}, {1..4, 1..2}, {{}, {1}}>>
WeekOutcomes == <<{Steady, Mixed, Drifting}, {Mixed, Late}, {Steady}>>

Feature(name, value, source, available) ==
    [name |-> name, value |-> value, source |-> source, available |-> available]
Flow(value, available) ==
    [features |-> {Feature("flow", value, "trades", available)}, unavailable |-> {}]
FlowGap == [features |-> {}, unavailable |-> {"trades"}]
TradeFlow(start, values) ==
    [start |-> start, sources |-> {"trades"},
     rows |-> [i \in DOMAIN values |->
                   IF values[i] = 0 THEN FlowGap ELSE Flow(values[i], start + Minute * i)]]
WithInterest(values, interest) ==
    [start |-> 0, sources |-> {"trades", "metrics"},
     rows |-> [i \in DOMAIN values |->
                   [features |-> {Feature("flow", values[i], "trades", 2 * i),
                                  Feature("interest", interest, "metrics", 1)},
                    unavailable |-> {}]]]
ShardContents ==
    <<{TradeFlow(0, <<1, 2, 3>>), TradeFlow(0, <<4, 2, 3>>), TradeFlow(0, <<1, 2, 0>>),
       TradeFlow(-2, <<5, 1, 2, 3>>)},
      {WithInterest(<<1, 2, 3>>, 7), WithInterest(<<1, 3, 3>>, 7)}>>
=============================================================================
