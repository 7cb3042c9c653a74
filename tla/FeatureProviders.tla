-------------------------- MODULE FeatureProviders --------------------------
(***************************************************************************)
(* Reading published feature caches: the composite provider of the regime  *)
(* experiments (plan_feature_caches, _IndexedJsonlShard,                   *)
(* IndexedCompositeFeatureProvider), which indexes only the minutes it may *)
(* see, and the provider of the scheduler backtests                        *)
(* (load_market_feature_cache, InMemoryMarketFeatureProvider), which loads *)
(* a whole cache.  A builder replaces a cache by removing its manifest,    *)
(* renaming the new rows into place and writing their manifest; readers    *)
(* take no lock.                                                           *)
(*                                                                         *)
(* Time counts parts of a minute.  Row i of a cache was measured i minutes *)
(* after its start.  A hash stands for what it was computed of.            *)
(***************************************************************************)
EXTENDS Integers, Sequences, FiniteSets, SequencesExt

CONSTANTS
    Minute,             \* parts of a minute
    Shards,             \* caches on disk, numbered as their paths are ordered
    Contents,           \* contents a build of each cache may have
    Readers,            \* composite providers
    RequiredStart, RequiredEnd,
    Capacity,           \* answers a provider keeps
    MaxBuilds           \* bound: rebuilds of caches

(* Rows are measured at the closes of one-minute candles, and the interval *)
(* begins at a whole minute, too.  A cache has rows, and no source has the *)
(* name that stands for all of them.                                       *)
ASSUME ShardsAssumption == IsFiniteSet(Shards) /\ Shards \subseteq Int
ASSUME MinuteAssumption == Minute \in Nat \ {0}
ASSUME WindowAssumption ==
    /\ RequiredStart \in Int /\ RequiredEnd \in Int
    /\ RequiredStart % Minute = 0
ASSUME ContentsAssumption ==
    \A s \in Shards : \A content \in Contents[s] :
        /\ content = [start |-> content.start, sources |-> content.sources,
                      rows |-> content.rows]
        /\ content.start \in Int /\ content.start % Minute = 0
        /\ "all" \notin content.sources
        /\ content.rows = [i \in 1..Len(content.rows) |->
                              [features |-> content.rows[i].features,
                               unavailable |-> content.rows[i].unavailable]]
        /\ Len(content.rows) \in Nat \ {0}
        /\ \A i \in 1..Len(content.rows) : \A f \in content.rows[i].features :
              f.available \in Int

VARIABLES
    rowFile, manifestFile,  \* of every cache; a manifest describes a content
    rebuilding,             \* content that is being put in place
    builds,
    reader,                 \* composite providers
    memory,                 \* the provider of a scheduler backtest
    same                    \* no rows changed since that provider was validated

providerVars == <<rowFile, manifestFile, rebuilding, builds, reader, memory, same>>

Window == RequiredStart..RequiredEnd
End(content) == content.start + Minute * Len(content.rows)
MeasuredAt(start, i) == start + Minute * i

NoContent == [start |-> 0, sources |-> {}, rows |-> <<>>]
NoReader == [state |-> "none"]

ProvidersInit ==
    /\ rowFile \in [Shards -> UNION {Contents[s] : s \in Shards}]
    /\ \A s \in Shards : rowFile[s] \in Contents[s]
    /\ manifestFile = rowFile
    /\ rebuilding = [s \in Shards |-> NoContent]
    /\ builds = 0
    /\ reader = [r \in Readers |-> NoReader]
    /\ memory = NoReader
    /\ same = TRUE

-----------------------------------------------------------------------------
(* A build: the manifest goes, the rows come, their manifest comes. *)

RemoveManifest(s) ==
    /\ rebuilding[s] = NoContent /\ builds < MaxBuilds
    /\ \E content \in Contents[s] \ {rowFile[s]} :
         rebuilding' = [rebuilding EXCEPT ![s] = content]
    /\ manifestFile' = [manifestFile EXCEPT ![s] = NoContent]
    /\ builds' = builds + 1
    /\ UNCHANGED <<rowFile, reader, memory, same>>

ReplaceShardRows(s) ==
    /\ rebuilding[s] \notin {NoContent, rowFile[s]}
    /\ rowFile' = [rowFile EXCEPT ![s] = rebuilding[s]]
    /\ same' = (same /\ ~(memory.state \in {"validated", "described"} /\ memory.shard = s))
    /\ UNCHANGED <<manifestFile, rebuilding, builds, reader, memory>>

WriteShardManifest(s) ==
    /\ rebuilding[s] # NoContent /\ rebuilding[s] = rowFile[s]
    /\ manifestFile' = [manifestFile EXCEPT ![s] = rowFile[s]]
    /\ rebuilding' = [rebuilding EXCEPT ![s] = NoContent]
    /\ UNCHANGED <<rowFile, builds, reader, memory, same>>

-----------------------------------------------------------------------------
(* The composite provider *)

(* plan_feature_caches: of the manifests that cover the window, those with *)
(* the widest coverage, in the order of their paths.                       *)
Covering(manifests) ==
    {s \in Shards : /\ manifests[s] # NoContent
                    /\ manifests[s].start <= RequiredStart
                    /\ End(manifests[s]) >= RequiredEnd}

WidestShards(manifests) ==
    LET covering == Covering(manifests)
        earliest == {s \in covering : \A t \in covering :
                        manifests[s].start <= manifests[t].start}
        widest == {s \in earliest : \A t \in earliest :
                        End(manifests[s]) >= End(manifests[t])}
    IN  widest

PlansOf(manifests) ==
    LET widest == WidestShards(manifests)
    IN  {plan \in [1..Cardinality(widest) -> widest] :
            \A i, j \in DOMAIN plan : i < j => plan[i] < plan[j]}

PlanShards(r) ==
    /\ reader[r].state = "none"
    /\ WidestShards(manifestFile) # {}
    /\ \E plan \in PlansOf(manifestFile), full \in BOOLEAN :
         reader' = [reader EXCEPT ![r] =
            [state |-> "opening", verifyFull |-> full, shards |-> <<>>,
             plan |-> [i \in DOMAIN plan |->
                         [shard |-> plan[i], manifest |-> manifestFile[plan[i]]]]]]
    /\ UNCHANGED <<rowFile, manifestFile, rebuilding, builds, memory, same>>

(* How many rows _build_index reads: those the provider may ever serve *)
TargetCount(manifest, full) ==
    IF full THEN Len(manifest.rows) ELSE (RequiredEnd - manifest.start) \div Minute

(* _build_index: every row read is where the manifest says it is, safe at  *)
(* its minute and of declared sources; a file read to its end is hashed.   *)
IndexIsValid(manifest, content, target) ==
    /\ target >= 1
    /\ Len(content.rows) >= target
    /\ content.start = manifest.start
    /\ \A i \in 1..target :
         /\ \A f \in content.rows[i].features :
              /\ f.source \in manifest.sources
              /\ f.available <= MeasuredAt(manifest.start, i)
         /\ content.rows[i].unavailable \subseteq manifest.sources
    /\ target = Len(manifest.rows) => content = manifest

(* Variant: the first minute of the window is not hashed. *)
SliceAfterStart(manifest, content, target) ==
    {<<MeasuredAt(manifest.start, i), content.rows[i]>> :
        i \in {j \in 1..target : /\ RequiredStart < MeasuredAt(manifest.start, j)
                                 /\ MeasuredAt(manifest.start, j) <= RequiredEnd}}

(* slice_hash: the rows of the window *)
SliceOf(manifest, content, target) ==
    {<<MeasuredAt(manifest.start, i), content.rows[i]>> :
        i \in {j \in 1..target : MeasuredAt(manifest.start, j) \in Window}}

(* What _IndexedJsonlShard keeps of a file *)
ShardOf(manifest, content, target) ==
    [start |-> manifest.start, count |-> Len(manifest.rows),
     sources |-> manifest.sources,
     index |-> SubSeq(content.rows, 1, target),
     slice |-> SliceOf(manifest, content, target),
     content |-> content]

(* The file is opened and mapped once; a later rename does not reach it. *)
OpenShard(r) ==
    LET next == reader[r].plan[Len(reader[r].shards) + 1]
        content == rowFile[next.shard]
        target == TargetCount(next.manifest, reader[r].verifyFull)
        shards == Append(reader[r].shards, ShardOf(next.manifest, content, target))
    IN  /\ reader[r].state = "opening"
        /\ reader' = [reader EXCEPT ![r] =
             IF ~IndexIsValid(next.manifest, content, target) THEN [state |-> "failed"]
             ELSE IF Len(shards) < Len(@.plan) THEN [@ EXCEPT !.shards = shards]
             ELSE [state |-> "open", shards |-> shards, cache |-> <<>>]]
        /\ UNCHANGED <<rowFile, manifestFile, rebuilding, builds, memory, same>>

(* feature_cache_hash: what identifies the provider in every report *)
IdentityOf(shards) ==
    [i \in DOMAIN shards |-> <<shards[i].sources, shards[i].slice>>]

NoRow == [features |-> {}, unavailable |-> {"all"}]

(* row_at *)
RowAt(shard, asOf) ==
    LET i == (asOf - shard.start) \div Minute
    IN  IF i < 1 \/ i > shard.count \/ i > Len(shard.index) THEN NoRow
        ELSE shard.index[i]

(* IndexedCompositeFeatureProvider.load_features without its cache *)
Merge(shards, asOf) ==
    LET rows == [i \in DOMAIN shards |-> RowAt(shards[i], asOf)]
        values == UNION {rows[i].features : i \in DOMAIN rows}
        missing == UNION {IF rows[i] = NoRow THEN shards[i].sources
                          ELSE rows[i].unavailable : i \in DOMAIN rows}
        conflict == \E f, g \in values : f.name = g.name /\ f # g
    IN  [conflict |-> conflict, values |-> IF conflict THEN {} ELSE values,
         unavailable |-> IF conflict THEN {} ELSE missing \ {f.source : f \in values}]

(* load_features: a kept answer moves to the end, the oldest is dropped *)
LoadFeatures(r, asOf) ==
    LET cache == reader[r].cache
        answer == Merge(reader[r].shards, asOf)
        longer == Append(cache, [asOf |-> asOf, answer |-> answer])
    IN  /\ reader[r].state = "open"
        /\ \/ \E i \in DOMAIN cache :
                 /\ cache[i].asOf = asOf
                 /\ reader' = [reader EXCEPT ![r].cache = Append(RemoveAt(cache, i), cache[i])]
           \/ /\ \A i \in DOMAIN cache : cache[i].asOf # asOf
              /\ ~answer.conflict
              /\ reader' = [reader EXCEPT ![r].cache =
                              IF Len(longer) > Capacity THEN Tail(longer) ELSE longer]
        /\ UNCHANGED <<rowFile, manifestFile, rebuilding, builds, memory, same>>

CloseProvider(r) ==
    /\ reader[r].state = "open"
    /\ reader' = [reader EXCEPT ![r] = [state |-> "closed"]]
    /\ UNCHANGED <<rowFile, manifestFile, rebuilding, builds, memory, same>>

-----------------------------------------------------------------------------
(* The provider of a scheduler backtest *)

(* validate_cache_pair *)
ValidateShard(s) ==
    /\ memory.state \in {"none", "failed"}
    /\ memory' = [state |-> IF manifestFile[s] # NoContent /\ manifestFile[s] = rowFile[s]
                            THEN "validated" ELSE "failed",
                  shard |-> s]
    /\ same' = TRUE
    /\ UNCHANGED <<rowFile, manifestFile, rebuilding, builds, reader>>

ReadManifest ==
    /\ memory.state = "validated"
    /\ memory' = IF manifestFile[memory.shard] = NoContent
                 THEN [state |-> "failed", shard |-> memory.shard]
                 ELSE [state |-> "described", shard |-> memory.shard,
                       manifest |-> manifestFile[memory.shard]]
    /\ UNCHANGED <<rowFile, manifestFile, rebuilding, builds, reader, same>>

(* source_coverage: rows with a value of a source, and rows without *)
CoverageOf(content) ==
    [source \in content.sources |->
        <<Cardinality({i \in DOMAIN content.rows :
                \E f \in content.rows[i].features : f.source = source}),
          Cardinality({i \in DOMAIN content.rows :
                source \in content.rows[i].unavailable})>>]

(* MarketFeatureSet.__post_init__ *)
FeaturesAreValid(row, measured) ==
    /\ \A f, g \in row.features : f.name = g.name => f = g
    /\ \A f \in row.features : f.available <= measured
    /\ {f.source : f \in row.features} \intersect row.unavailable = {}

(* The checks of load_market_feature_cache and of the manifest's metadata *)
RowsMatch(manifest, content) ==
    /\ Len(content.rows) = Len(manifest.rows)
    /\ CoverageOf(content) = CoverageOf(manifest)
    /\ \A i \in DOMAIN content.rows :
         FeaturesAreValid(content.rows[i], MeasuredAt(content.start, i))

ReadShardRows ==
    /\ memory.state = "described"
    /\ LET content == rowFile[memory.shard]
       IN  memory' = IF RowsMatch(memory.manifest, content)
                     THEN [state |-> "loaded", shard |-> memory.shard,
                           hash |-> memory.manifest, content |-> content]
                     ELSE [state |-> "failed", shard |-> memory.shard]
    /\ UNCHANGED <<rowFile, manifestFile, rebuilding, builds, reader, same>>

(* InMemoryMarketFeatureProvider.load_features: the last row measured at   *)
(* or before the time, however old.                                        *)
InMemory(content, asOf) ==
    LET measured == {i \in DOMAIN content.rows : MeasuredAt(content.start, i) <= asOf}
        last == CHOOSE i \in measured : \A j \in measured : j <= i
    IN  IF measured = {} THEN [values |-> {}, unavailable |-> {}]
        ELSE [values |-> content.rows[last].features,
              unavailable |-> content.rows[last].unavailable]

ProvidersNext ==
    \/ \E s \in Shards : RemoveManifest(s) \/ ReplaceShardRows(s) \/ WriteShardManifest(s)
                            \/ ValidateShard(s)
    \/ \E r \in Readers : \/ PlanShards(r) \/ OpenShard(r) \/ CloseProvider(r)
                          \/ \E asOf \in Window : LoadFeatures(r, asOf)
    \/ ReadManifest \/ ReadShardRows

ProvidersSpec == ProvidersInit /\ [][ProvidersNext]_providerVars

-----------------------------------------------------------------------------
Open == {r \in Readers : reader[r].state = "open"}

(* What the files opened by a provider hold at a time: the values of the   *)
(* last full minute.                                                       *)
HeldAt(shards, asOf) ==
    UNION {InMemory(shards[i].content, asOf).values : i \in DOMAIN shards}

(* Whenever caches are rebuilt while providers are planned, opened, loaded *)
(* or used: a composite provider answers from the last full minute of the  *)
(* files it opened and never with a value of a later time, kept answers    *)
(* are what it would answer now, two providers with one feature_cache_hash *)
(* answer alike, and a provider of one file answers as the in-memory       *)
(* provider of that file does; an in-memory provider carries the hash of   *)
(* its rows unless they were replaced while it loaded.                     *)
AnswersAreAsOf ==
    /\ \A r \in Open, asOf \in Window :
         LET answer == Merge(reader[r].shards, asOf)
         IN  answer.conflict \/
             /\ answer.values = HeldAt(reader[r].shards, asOf)
             /\ \A f \in answer.values : f.available <= asOf
    /\ \A r \in Open : \A i \in DOMAIN reader[r].cache :
         reader[r].cache[i].answer = Merge(reader[r].shards, reader[r].cache[i].asOf)
    /\ \A r, q \in Open :
         IdentityOf(reader[r].shards) = IdentityOf(reader[q].shards) =>
            \A asOf \in Window : Merge(reader[r].shards, asOf) = Merge(reader[q].shards, asOf)
    /\ memory.state = "loaded" =>
         /\ same => memory.hash = memory.content
         /\ \A r \in Open :
              Len(reader[r].shards) = 1 /\ reader[r].shards[1].content = memory.content =>
                \A asOf \in Window :
                   LET answer == Merge(reader[r].shards, asOf)
                   IN  MeasuredAt(memory.content.start, 1) <= asOf =>
                         /\ answer.values = InMemory(memory.content, asOf).values
                         /\ answer.unavailable = InMemory(memory.content, asOf).unavailable
=============================================================================
