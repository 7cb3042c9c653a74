---------------------------- MODULE CandleCache ----------------------------
(***************************************************************************)
(* The candle caches of the search scripts.  The candles of the combo      *)
(* searches are fetched by the process that makes the lock file and are    *)
(* renamed into place, the others wait for the file; the candles of an     *)
(* external period are written in place, by every process that finds no    *)
(* file.  A month the exchange has not published yet (404) has no candles. *)
(*                                                                         *)
(* Months are published in order, so a market is its number of months.     *)
(* The buffers a period file is written with end inside a line, so it is   *)
(* written in halves of a month; what is written past the end of a file    *)
(* that was truncated leaves a hole.                                       *)
(***************************************************************************)
EXTENDS Naturals, FiniteSets

CONSTANTS
    Loaders,       \* the processes
    Months,        \* months of the market
    MaxLoads       \* bound: how many loads are begun

ASSUME MonthsAssumption == Months \in Nat \ {0} /\ MaxLoads \in Nat

NoMarket == 0
NoFile == [size |-> 0, holes |-> {}, exists |-> FALSE]

VARIABLES
    script,        \* "combo" or "period"
    onExchange,    \* months that are published
    comboFile,     \* the market in it
    comboLock,     \* the lock file exists
    periodFile,    \* halves in it, and which of them are holes
    loader,        \* where a process is, and its market
    loads,
    fetched,       \* history: markets that were fetched whole
    stopped,       \* history: a process that held the lock failed or died
    cutShort       \* history: a process died while it wrote the period file

candleVars == <<script, onExchange, comboFile, comboLock, periodFile, loader, loads,
                fetched, stopped, cutShort>>

Fresh(state) == [state |-> state, market |-> NoMarket, written |-> 0, beside |-> FALSE]

CandlesInit ==
    /\ script \in {"combo", "period"}
    /\ onExchange \in 1..Months
    /\ comboFile = NoMarket /\ comboLock = FALSE
    /\ periodFile = NoFile
    /\ loader = [l \in Loaders |-> Fresh("idle")]
    /\ loads = 0
    /\ fetched = {} /\ stopped = FALSE /\ cutShort = FALSE

In(l, states) == loader[l].state \in states
GoesTo(l, state) == loader' = [loader EXCEPT ![l].state = state]
Returns(l, market) ==
    loader' = [loader EXCEPT ![l].state = "returned", ![l].market = market]

Writing == {l \in Loaders : In(l, {"writing"})}
Owners == {l \in Loaders : In(l, {"checking", "fetching", "saving", "leaving", "failing"})}

(* load_or_fetch_market, load_period_market: is there a file? *)
BeginLoad(l) ==
    /\ loads < MaxLoads /\ In(l, {"idle", "returned", "failed", "dead"})
    /\ loads' = loads + 1
    /\ loader' = [loader EXCEPT ![l] = Fresh(
            CASE script = "combo" -> IF comboFile # NoMarket THEN "reading" ELSE "locking"
              [] script = "period" -> IF periodFile.exists THEN "reading" ELSE "fetching")]
    /\ UNCHANGED <<script, onExchange, comboFile, comboLock, periodFile, fetched, stopped, cutShort>>

(* _acquire_cache_lock *)
AcquireLock(l) ==
    /\ In(l, {"locking"})
    /\ comboLock' = TRUE
    /\ GoesTo(l, IF comboLock THEN "waiting" ELSE "checking")
    /\ UNCHANGED <<script, onExchange, comboFile, periodFile, loads, fetched, stopped, cutShort>>

(* The waiters sleep until there is a file; they never ask for the lock again. *)
WaitForFile(l) ==
    /\ In(l, {"waiting"}) /\ comboFile # NoMarket
    /\ GoesTo(l, "reading")
    /\ UNCHANGED <<script, onExchange, comboFile, comboLock, periodFile, loads, fetched, stopped, cutShort>>

(* Variant: the owner of the lock does not look again. *)
FetchAtOnce(l) ==
    /\ In(l, {"checking"})
    /\ GoesTo(l, "fetching")
    /\ UNCHANGED <<script, onExchange, comboFile, comboLock, periodFile, loads, fetched, stopped, cutShort>>

(* The owner of the lock looks for the file again. *)
CheckAgain(l) ==
    /\ In(l, {"checking"})
    /\ IF comboFile # NoMarket
       THEN loader' = [loader EXCEPT ![l].state = "leaving", ![l].market = comboFile]
       ELSE GoesTo(l, "fetching")
    /\ UNCHANGED <<script, onExchange, comboFile, comboLock, periodFile, loads, fetched, stopped, cutShort>>

(* load_public_kline_archives: month by month *)
FetchMonth(l) ==
    /\ In(l, {"fetching"})
    /\ IF loader[l].market < onExchange
       THEN loader' = [loader EXCEPT ![l].market = @ + 1] /\ UNCHANGED fetched
       ELSE GoesTo(l, "saving") /\ fetched' = fetched \union {loader[l].market}
    /\ UNCHANGED <<script, onExchange, comboFile, comboLock, periodFile, loads, stopped, cutShort>>

(* An archive cannot be downloaded or read. *)
FetchFails(l) ==
    /\ In(l, {"fetching"})
    /\ GoesTo(l, IF script = "combo" THEN "failing" ELSE "failed")
    /\ stopped' = TRUE
    /\ UNCHANGED <<script, onExchange, comboFile, comboLock, periodFile, loads, fetched, cutShort>>

(* The temporary file, which only the owner of the lock writes, is renamed *)
(* into place.                                                             *)
SaveCombo(l) ==
    /\ In(l, {"saving"}) /\ script = "combo"
    /\ comboFile' = loader[l].market
    /\ GoesTo(l, "leaving")
    /\ UNCHANGED <<script, onExchange, comboLock, periodFile, loads, fetched, stopped, cutShort>>

(* finally: the lock file is unlinked, whoever made it *)
Unlock(l) ==
    /\ In(l, {"leaving", "failing"})
    /\ comboLock' = FALSE
    /\ GoesTo(l, IF In(l, {"leaving"}) THEN "returned" ELSE "failed")
    /\ UNCHANGED <<script, onExchange, comboFile, periodFile, loads, fetched, stopped, cutShort>>

(* open("w") truncates the file. *)
OpenPeriod(l) ==
    /\ In(l, {"saving"}) /\ script = "period"
    /\ periodFile' = [size |-> 0, holes |-> {}, exists |-> TRUE]
    /\ GoesTo(l, "writing")
    /\ UNCHANGED <<script, onExchange, comboFile, comboLock, loads, fetched, stopped, cutShort>>

(* A buffer reaches the file at the writer's own offset, or the file is closed. *)
WriteHalf(l) ==
    LET next == loader[l].written + 1
    IN  /\ In(l, {"writing"})
        /\ IF next > 2 * loader[l].market
           THEN Returns(l, loader[l].market) /\ UNCHANGED periodFile
           ELSE /\ periodFile' =
                     [exists |-> TRUE,
                      size |-> IF next > periodFile.size THEN next ELSE periodFile.size,
                      holes |-> (periodFile.holes \union ((periodFile.size + 1)..next)) \ {next}]
                /\ loader' = [loader EXCEPT ![l].written = next]
        /\ UNCHANGED <<script, onExchange, comboFile, comboLock, loads, fetched, stopped, cutShort>>

(* _read_cache, read_cache: a line that is cut or a hole does not decode;  *)
(* a file without candles is no market.                                    *)
ReadCandles(l) ==
    /\ In(l, {"reading"})
    /\ IF script = "combo" THEN Returns(l, comboFile)
       ELSE IF periodFile.holes # {} \/ periodFile.size % 2 # 0 THEN GoesTo(l, "failed")
       ELSE loader' = [loader EXCEPT ![l].state = "returned",
                                     ![l].market = periodFile.size \div 2,
                                     ![l].beside = Writing # {} \/ cutShort]
    /\ UNCHANGED <<script, onExchange, comboFile, comboLock, periodFile, loads, fetched, stopped, cutShort>>

(* The process dies: a lock file stays, a file written in place stays as it is. *)
LoaderDies(l) ==
    /\ ~In(l, {"idle", "returned", "failed", "dead"})
    /\ GoesTo(l, "dead")
    /\ stopped' = (stopped \/ l \in Owners)
    /\ cutShort' = (cutShort \/ l \in Writing)
    /\ UNCHANGED <<script, onExchange, comboFile, comboLock, periodFile, loads, fetched>>

MonthIsPublished ==
    /\ onExchange < Months
    /\ onExchange' = onExchange + 1
    /\ UNCHANGED <<script, comboFile, comboLock, periodFile, loader, loads, fetched, stopped, cutShort>>

CandlesNext ==
    \/ \E l \in Loaders :
         \/ BeginLoad(l) \/ AcquireLock(l) \/ WaitForFile(l) \/ CheckAgain(l)
         \/ FetchMonth(l) \/ FetchFails(l) \/ SaveCombo(l) \/ Unlock(l)
         \/ OpenPeriod(l) \/ WriteHalf(l) \/ ReadCandles(l) \/ LoaderDies(l)
    \/ MonthIsPublished

CandlesSpec == CandlesInit /\ [][CandlesNext]_candleVars

-----------------------------------------------------------------------------
Returned == {l \in Loaders : In(l, {"returned"})}

(* The combo searches run on one market: whoever fetched it, and whenever  *)
(* a process came, it is the market of the file, which one process fetched *)
(* whole; the lock file is held by one process at a time.                  *)
ComboMarketIsOne ==
    script = "combo" =>
        /\ \A l \in Returned : loader[l].market = comboFile /\ comboFile \in fetched
        /\ Cardinality(Owners) <= 1
        /\ Owners # {} => comboLock

(* Nobody waits for a market that nobody fetches, and no lock file is left *)
(* behind, but after an owner of the lock failed or died.                  *)
WaitersAreServed ==
    script = "combo" /\ ~stopped =>
        /\ comboLock => Owners # {}
        /\ (\E l \in Loaders : In(l, {"waiting"})) => comboFile # NoMarket \/ Owners # {}

(* A period's market is one that was fetched whole, unless it was read     *)
(* while a process wrote the file or after one died writing it; once the   *)
(* writers are done the file is whole however they overlapped, provided    *)
(* that all fetched the same market (if not, a shorter one may truncate a  *)
(* longer one under its writer, and the hole stays).                       *)
PeriodMarketsAreWhole ==
    script = "period" =>
        /\ \A l \in Returned : loader[l].market \in fetched \/ loader[l].beside
        /\ periodFile.exists /\ Writing = {} /\ ~cutShort /\ Cardinality(fetched) = 1 =>
             /\ periodFile.holes = {}
             /\ \A months \in fetched : periodFile.size = 2 * months

(* A search or an external period works on all candles of its market,      *)
(* however processes share a candle cache and wherever one of them stops.  *)
CandleMarketsAreWhole == ComboMarketIsOne /\ WaitersAreServed /\ PeriodMarketsAreWhole
=============================================================================
