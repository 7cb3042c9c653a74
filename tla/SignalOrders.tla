---------------------------- MODULE SignalOrders ----------------------------
(***************************************************************************)
(* What trade execution promises of a signal, however many runs are        *)
(* started for it: it is logged once, with one direction; only then may    *)
(* orders reach the exchange, each leg at most once, in the order entry,   *)
(* take profit, stop loss, all on the side the logged direction calls for. *)
(* There are no runs, no retries and no failures here.                     *)
(***************************************************************************)
EXTENDS Naturals

CONSTANTS
    SignalIds,
    Directions      \* what a signal may say: "long", "short" or "wait"

VARIABLES
    signal_logs,    \* the logged signals with their direction
    orders          \* for each leg of each signal, the sides of its orders

vars == <<signal_logs, orders>>

Legs == <<"entry", "take_profit", "stop_loss">>

(* The entry opens in the direction of the signal, the others close it. *)
Side(leg, direction) ==
    CHOOSE side \in {"long", "short"} : side = direction <=> leg = "entry"

Init ==
    /\ signal_logs = {}
    /\ orders = [s \in SignalIds |-> [leg \in {Legs[i] : i \in DOMAIN Legs} |-> <<>>]]

Log(s, direction) ==
    /\ \A log \in signal_logs : log.signal_id # s
    /\ signal_logs' = signal_logs \union {[signal_id |-> s, direction |-> direction]}
    /\ UNCHANGED orders

Place(s, i) ==
    /\ \A j \in DOMAIN Legs : j >= i => orders[s][Legs[j]] = <<>>
    /\ \E log \in signal_logs :
        /\ log.signal_id = s
        /\ log.direction # "wait"
        /\ orders' = [orders EXCEPT ![s][Legs[i]] = <<Side(Legs[i], log.direction)>>]
    /\ UNCHANGED signal_logs

Next ==
    \E s \in SignalIds :
        \/ \E direction \in Directions : Log(s, direction)
        \/ \E i \in DOMAIN Legs : Place(s, i)

Spec == Init /\ [][Next]_vars
=============================================================================
