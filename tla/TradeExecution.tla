--------------------------- MODULE TradeExecution ---------------------------
(***************************************************************************)
(* LocalRuntime.run_trade_execution_once, started concurrently by the live *)
(* scheduler loop and by whoever calls POST /trade/execute, over one       *)
(* SQLite file and one Binance account.                                    *)
(*                                                                         *)
(* A run loads the market, generates a signal, appends it to signal_logs,  *)
(* decides, and submits three orders one after the other: the market entry *)
(* and the two protective orders.  Each submission is a REST request that  *)
(* is retried only when it surely was not executed.  The run ends by       *)
(* appending a scheduler_run record and returning or raising.  A process   *)
(* may die between any two of these steps.                                 *)
(*                                                                         *)
(* Prices, quantities and confidence are left out: what they decide (the   *)
(* direction, the risk check, a calculation that raises) is a choice.  A   *)
(* client order id is its signal id and leg.                               *)
(***************************************************************************)
EXTENDS Naturals, Sequences

CONSTANTS
    Processes,
    SignalIds,       \* the nonblank ids a caller or the scheduler may give
    Blank,           \* an id that strip() makes empty
    RetryAttempts,   \* BinanceConfig.retry_attempts
    MaxRuns          \* bound: runs started in a behaviour

ASSUME BlankAssumption == Blank \notin SignalIds
ASSUME RetryAssumption == RetryAttempts \in Nat
ASSUME RunsAssumption == MaxRuns \in Nat

VARIABLES
    signal_logs,      \* signal_logs: the rows, keyed by signal_id
    scheduler_runs,   \* runtime_records: the number of rows per id and outcome
    orders,           \* exchange: the sides of the orders under each client order id
    pc,               \* the next step of the run of each process
    signal_id,        \* the id the run was given
    direction,        \* the direction of the signal it generated
    attempt,          \* the number of the request attempt being made
    status,           \* of the run's result, "error", or "none" while it goes on
    last_status,      \* _last_trade_execution_result of the process
    started           \* how many runs were started

run == <<signal_id, direction, attempt, status>>
vars == <<signal_logs, scheduler_runs, orders, pc, run, last_status, started>>

LegNames == {"entry", "take_profit", "stop_loss"}
Directions == {"long", "short", "wait"}
Statuses == {"skipped", "risk_rejected", "order_submitted"}
Outcomes == {"succeeded", "failed"}

(* attempts = max(1, config.retry_attempts) *)
Attempts == IF RetryAttempts > 1 THEN RetryAttempts ELSE 1

(* Variant: the protective orders are sent on the side of the entry. *)
SameSide(d) == d

(* The protective orders close what the entry opens. *)
OppositeSide(d) == IF d = "long" THEN "short" ELSE "long"
Side(leg, d) == IF leg = "entry" THEN d ELSE OppositeSide(d)

TypeOK ==
    /\ signal_logs \subseteq [signal_id : SignalIds, direction : Directions]
    /\ scheduler_runs \in [SignalIds -> [Outcomes -> Nat]]
    /\ orders \in [SignalIds -> [LegNames -> Seq({"long", "short"})]]
    /\ pc \in [Processes -> {"idle", "command", "market", "append", "decide", "record"}
                            \union LegNames]
    /\ signal_id \in [Processes -> SignalIds \union {Blank}]
    /\ direction \in [Processes -> Directions]
    /\ attempt \in [Processes -> 1..Attempts]
    /\ status \in [Processes -> Statuses \union {"none", "error"}]
    /\ last_status \in [Processes -> Statuses \union {"none"}]
    /\ started \in 0..MaxRuns

Init ==
    /\ signal_logs = {}
    /\ scheduler_runs = [s \in SignalIds |-> [o \in Outcomes |-> 0]]
    /\ orders = [s \in SignalIds |-> [leg \in LegNames |-> <<>>]]
    /\ pc = [p \in Processes |-> "idle"]
    /\ signal_id = [p \in Processes |-> Blank]
    /\ direction = [p \in Processes |-> "wait"]
    /\ attempt = [p \in Processes |-> 1]
    /\ status = [p \in Processes |-> "none"]
    /\ last_status = [p \in Processes |-> "none"]
    /\ started = 0

-----------------------------------------------------------------------------
GoTo(p, step) == pc' = [pc EXCEPT ![p] = step]

(* execute returned a result, or run_trade_execution caught an exception. *)
EndWith(p, outcome) ==
    /\ GoTo(p, "record")
    /\ status' = [status EXCEPT ![p] = outcome]

(* The locals of a run that is over. *)
Forget(p) ==
    /\ GoTo(p, "idle")
    /\ signal_id' = [signal_id EXCEPT ![p] = Blank]
    /\ direction' = [direction EXCEPT ![p] = "wait"]
    /\ attempt' = [attempt EXCEPT ![p] = 1]
    /\ status' = [status EXCEPT ![p] = "none"]

Start(p, s) ==
    /\ pc[p] = "idle"
    /\ started < MaxRuns
    /\ started' = started + 1
    /\ GoTo(p, "command")
    /\ signal_id' = [signal_id EXCEPT ![p] = s]
    /\ UNCHANGED <<signal_logs, scheduler_runs, orders, direction, attempt, status, last_status>>

(* _execute_trade_command: a blank id raises, and so may the REST request    *)
(* for the candles the indicators are computed from.                         *)
BuildCommand(p) ==
    /\ pc[p] = "command"
    /\ \/ signal_id[p] # Blank /\ GoTo(p, "market") /\ UNCHANGED status
       \/ EndWith(p, "error")
    /\ UNCHANGED <<signal_logs, scheduler_runs, orders, signal_id, direction, attempt,
                   last_status, started>>

(* execute, up to generate: the market snapshot, the features, the signal. *)
GenerateSignal(p) ==
    /\ pc[p] = "market"
    /\ \/ /\ \E d \in Directions : direction' = [direction EXCEPT ![p] = d]
          /\ GoTo(p, "append")
          /\ UNCHANGED status
       \/ EndWith(p, "error") /\ UNCHANGED direction
    /\ UNCHANGED <<signal_logs, scheduler_runs, orders, signal_id, attempt, last_status, started>>

Logged(s) == \E log \in signal_logs : log.signal_id = s

(* Variant: INSERT OR REPLACE, so a known id is not refused. *)
AppendSignalReplacing(p) ==
    /\ pc[p] = "append"
    /\ signal_logs' = {log \in signal_logs : log.signal_id # signal_id[p]}
            \union {[signal_id |-> signal_id[p], direction |-> direction[p]]}
    /\ GoTo(p, "decide")
    /\ UNCHANGED <<scheduler_runs, orders, run, last_status, started>>

(* append_signal: signal_id is the primary key, so a second INSERT raises,   *)
(* and so does a database that stays locked.                                 *)
AppendSignal(p) ==
    /\ pc[p] = "append"
    /\ \/ /\ ~Logged(signal_id[p])
          /\ signal_logs' = signal_logs
                \union {[signal_id |-> signal_id[p], direction |-> direction[p]]}
          /\ GoTo(p, "decide")
          /\ UNCHANGED status
       \/ EndWith(p, "error") /\ UNCHANGED signal_logs
    /\ UNCHANGED <<scheduler_runs, orders, signal_id, direction, attempt, last_status, started>>

(* _decision_from_signal, sizing, the risk check and the protective prices:  *)
(* only an allowed entry goes on to the orders.                              *)
Decide(p) ==
    /\ pc[p] = "decide"
    /\ IF direction[p] = "wait" THEN EndWith(p, "skipped")
       ELSE \/ GoTo(p, "entry") /\ UNCHANGED status
            \/ EndWith(p, "risk_rejected")
            \/ EndWith(p, "error")
    /\ UNCHANGED <<signal_logs, scheduler_runs, orders, signal_id, direction, attempt,
                   last_status, started>>

-----------------------------------------------------------------------------
(* submit_order for one leg: request_json with its retries. *)

(* The exchange accepts the order of this leg. *)
Accept(p, leg) ==
    orders' = [orders EXCEPT ![signal_id[p]][leg] =
                    Append(@, Side(leg, direction[p]))]

(* The answer is mapped to an OrderResult, of whatever status, and execute   *)
(* goes on with the next leg.                                                *)
Proceed(p, leg) ==
    /\ CASE leg = "entry" -> GoTo(p, "take_profit") /\ UNCHANGED status
         [] leg = "take_profit" -> GoTo(p, "stop_loss") /\ UNCHANGED status
         [] leg = "stop_loss" -> EndWith(p, "order_submitted")
    /\ attempt' = [attempt EXCEPT ![p] = 1]

(* A response arrives: the order stands, or its status says that it does not *)
(* (REJECTED, EXPIRED, CANCELED).  The usecase does not tell them apart.     *)
Answered(p, leg) ==
    /\ Accept(p, leg) \/ UNCHANGED orders
    /\ Proceed(p, leg)

(* Variant: the attempts start over. *)
NotExecutedForever(p, leg) ==
    /\ attempt' = [attempt EXCEPT ![p] = (@ % Attempts) + 1]
    /\ UNCHANGED <<pc, status, orders>>

(* BinanceNetworkError (the connection or the sending failed) or a 418/429   *)
(* response: the order was not executed.  It is sent again while attempts    *)
(* are left.                                                                 *)
NotExecuted(p, leg) ==
    /\ IF attempt[p] < Attempts
       THEN /\ attempt' = [attempt EXCEPT ![p] = @ + 1]
            /\ UNCHANGED <<pc, status>>
       ELSE /\ EndWith(p, "error")
            /\ UNCHANGED attempt
    /\ UNCHANGED orders

(* Every other failure: a read that times out, invalid JSON, a 503 with      *)
(* unknown execution status, an unusable payload, a 4xx.  The order may or   *)
(* may not have been executed; the exception is not retried.                 *)
Ambiguous(p, leg) ==
    /\ Accept(p, leg) \/ UNCHANGED orders
    /\ EndWith(p, "error")
    /\ UNCHANGED attempt

SubmitOrder(p, leg) ==
    /\ pc[p] = leg
    /\ Answered(p, leg) \/ NotExecuted(p, leg) \/ Ambiguous(p, leg)
    /\ UNCHANGED <<signal_logs, scheduler_runs, signal_id, direction, last_status, started>>

-----------------------------------------------------------------------------
(* append_runtime_record, then the error is raised or the result kept and    *)
(* returned.  The append raises on a blank id and on a locked database.      *)
Record(p) ==
    LET outcome == IF status[p] = "error" THEN "failed" ELSE "succeeded" IN
    /\ pc[p] = "record"
    /\ \/ /\ signal_id[p] # Blank
          /\ scheduler_runs' = [scheduler_runs EXCEPT ![signal_id[p]][outcome] = @ + 1]
          /\ last_status' = [last_status EXCEPT
                                ![p] = IF outcome = "succeeded" THEN status[p] ELSE @]
       \/ UNCHANGED <<scheduler_runs, last_status>>
    /\ Forget(p)
    /\ UNCHANGED <<signal_logs, orders, started>>

(* The process dies; the database and the exchange keep what they have. *)
Crash(p) ==
    /\ pc[p] # "idle"
    /\ Forget(p)
    /\ last_status' = [last_status EXCEPT ![p] = "none"]
    /\ UNCHANGED <<signal_logs, scheduler_runs, orders, started>>

RunStep(p) ==
    \/ BuildCommand(p) \/ GenerateSignal(p) \/ AppendSignal(p) \/ Decide(p)
    \/ \E leg \in LegNames : SubmitOrder(p, leg)
    \/ Record(p)

Next ==
    \E p \in Processes :
        \/ \E s \in SignalIds \union {Blank} : Start(p, s)
        \/ RunStep(p)
        \/ Crash(p)

(* Every request, sleep and database access of a run has a timeout, so a run *)
(* whose process lives keeps going.                                          *)
Fairness == \A p \in Processes : WF_vars(RunStep(p))

Spec == Init /\ [][Next]_vars /\ Fairness

-----------------------------------------------------------------------------
(* Properties *)

(* No client order id is used for two accepted orders: one signal opens at    *)
(* most one position and gets at most one take profit and one stop loss,      *)
(* although requests are retried, runs repeat an id, and processes die.       *)
OneOrderPerClientId ==
    \A s \in SignalIds, leg \in LegNames : Len(orders[s][leg]) =< 1

(* At most one run of a signal is ever recorded as succeeded, and a run that  *)
(* placed or may have placed an order leaves the signal logged, so that no    *)
(* later run of the same id can trade on it.                                  *)
OneSuccessPerSignal ==
    \A s \in SignalIds :
        /\ scheduler_runs[s]["succeeded"] =< 1
        /\ (scheduler_runs[s]["succeeded"] = 1 \/ orders[s]["entry"] # <<>>) => Logged(s)

(* While a run is at its orders, no other run is at the orders of the same    *)
(* signal: the primary key of signal_logs acts as a lock that is never given  *)
(* back.                                                                      *)
OrdersAreExclusive ==
    \A p, q \in Processes :
        (p # q /\ pc[p] \in LegNames \union {"decide"} /\ pc[q] \in LegNames \union {"decide"})
        => signal_id[p] # signal_id[q]

(* What GET /status shows as the last trade execution is backed by a durable  *)
(* scheduler_run record that says succeeded.                                  *)
StatusIsRecorded ==
    \A p \in Processes :
        last_status[p] # "none" => \E s \in SignalIds : scheduler_runs[s]["succeeded"] > 0

(* However runs repeat, race and die, they neither trade at the same time on  *)
(* a signal nor leave more orders or records of success than one.             *)
RunsAreExclusive ==
    TypeOK /\ OrdersAreExclusive /\ OneOrderPerClientId /\ OneSuccessPerSignal /\ StatusIsRecorded

(* Every started run ends, whatever the exchange answers: the retries are     *)
(* bounded.                                                                   *)
RunsEnd == \A p \in Processes : pc[p] # "idle" ~> pc[p] = "idle"

(* Runs, retries and crashes included, each signal is logged once, and only   *)
(* then entered, given a take profit and given a stop loss, in this order, at *)
(* most once each and on the side of the logged direction.                    *)
Sequential == INSTANCE SignalOrders
                  WITH SignalIds <- SignalIds, Directions <- Directions,
                       signal_logs <- signal_logs, orders <- orders

SignalsAreTradedOnce == Sequential!Spec
=============================================================================
