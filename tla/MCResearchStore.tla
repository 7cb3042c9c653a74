-------------------------- MODULE MCResearchStore --------------------------
(***************************************************************************)
(* The files that research processes share: the rows file of walk-forward  *)
(* runs, the published market feature cache, the build of its rows, the    *)
(* candle caches of the searches, and the archives of a feature history.   *)
(* They share no file, so a behaviour is one of them while the others are  *)
(* still; which one, part says.                                            *)
(***************************************************************************)
EXTENDS RowsFile, FeatureCache, FeatureBuild, CandleCache, FeatureHistory, TLC

CONSTANTS p1, p2, p3

VARIABLE part

processVars == <<rowsVars, cacheVars, candleVars>>
archiveVars == <<buildVars, historyVars>>
storeVars == <<part, processVars, archiveVars>>

BuildStill ==
    /\ request = [start |-> 0, end |-> 0, now |-> 0]
    /\ published = {} /\ unavailable = {} /\ cursor = 0
    /\ fundingRequests = {} /\ merged = {}

StoreInit ==
    /\ part \in {"rows", "cache", "build", "candles", "history"}
    /\ RowsInit
    /\ CacheInit
    /\ IF part = "build" THEN BuildInit ELSE BuildStill
    /\ CandlesInit
    /\ part # "candles" => script = "combo" /\ onExchange = Months
    /\ HistoryInit
    /\ part # "history" => kline = Intact

StoreNext ==
    /\ \/ /\ part = "rows" /\ RowsNext
          /\ UNCHANGED <<cacheVars, candleVars, archiveVars>>
       \/ /\ part = "cache" /\ CacheNext
          /\ UNCHANGED <<rowsVars, candleVars, archiveVars>>
       \/ /\ part = "build" /\ BuildChunk
          /\ UNCHANGED <<historyVars, processVars>>
       \/ /\ part = "candles" /\ CandlesNext
          /\ UNCHANGED <<rowsVars, cacheVars, archiveVars>>
       \/ /\ part = "history" /\ HistoryNext
          /\ UNCHANGED <<buildVars, processVars>>
    /\ UNCHANGED part

StoreSpec == StoreInit /\ [][StoreNext]_storeVars

-----------------------------------------------------------------------------
(* Runs of one rows file, builders of one feature cache and processes that *)
(* share a candle cache are interchangeable.  Only one part moves, so they *)
(* may have the same names.                                                *)

Interchangeable == Permutations(Runs)

(* Three archives, which begin before the history and end after it *)
Bounds == <<0, 5, 9, 14>>
=============================================================================
