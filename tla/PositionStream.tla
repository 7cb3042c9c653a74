--------------------------- MODULE PositionStream ---------------------------
(***************************************************************************)
(* BinanceUserDataStreamRuntime.consume driven by PositionListener.listen: *)
(* one asyncio task that starts a listen key, reads the websocket and      *)
(* applies position events, reconnects after failures and closes the key,  *)
(* and the keepalive task that it creates for each key.  The tasks switch  *)
(* only where consume awaits: connecting, reading, and sleeping before a   *)
(* reconnect.                                                              *)
(*                                                                         *)
(* Prices are left out.  A message is what the mapping reads of it, and an *)
(* exception is what it came from.                                         *)
(***************************************************************************)
EXTENDS Integers, Sequences

CONSTANTS
    Keys,            \* listen keys the exchange may hand out
    MaxReconnects,   \* max_reconnects, or Unlimited for None
    Unlimited,
    InitialDirection, InitialQuantity,   \* of the position listen is given
    Quantities,      \* quantities of a fill
    MaxUpdates       \* bound: updates the listener collects

ASSUME LimitAssumption == MaxReconnects \in Nat \union {Unlimited}

VARIABLES
    pc,           \* where consume is
    after,        \* what the finally block was entered for
    error,        \* what the exception came from that consume raised
    reconnects,
    key,          \* the listen_key of this round
    open_keys,    \* exchange: the listen keys in use
    keepalive,    \* the keepalive task: "none", "running" or "failed"
    position,     \* of the listener
    updates       \* of the listener

consume == <<pc, after, error, reconnects, key>>
listener == <<position, updates>>
vars == <<consume, open_keys, keepalive, listener>>

Directions == {"long", "short"}
Positions == [direction : Directions, quantity : Nat]

(* Position.status: a closed position is one without quantity. *)
Closed(pos) == pos.quantity = 0

(* initial_position; a closed one refuses every event. *)
InitialPosition == [direction |-> InitialDirection, quantity |-> InitialQuantity]

ASSUME QuantityAssumption ==
    /\ Quantities \subseteq Nat
    /\ InitialDirection \in Directions
    /\ InitialQuantity \in Nat

Messages ==
    [X : {"FILLED", "PARTIALLY_FILLED"}, S : {"BUY", "SELL"},
     ps : {"LONG", "SHORT", "BOTH"}, l : Quantities]

Events == [type : {"increase"}, direction : Directions, quantity : Nat]
          \union [type : {"decrease"}, quantity : Nat]

-----------------------------------------------------------------------------
(* _map_trade_event *)
TradeEvent(m) ==
    LET increase(d) == [type |-> "increase", direction |-> d, quantity |-> m.l]
    IN  IF m.S = "BUY" /\ m.ps \in {"LONG", "BOTH"} THEN increase("long")
        ELSE IF m.S = "SELL" /\ m.ps \in {"SHORT", "BOTH"} THEN increase("short")
        ELSE [type |-> "decrease", quantity |-> m.l]

(* map_user_data_stream_position_events: the events of a message. *)
MapEvents(m) == IF m.X = "FILLED" /\ m.l > 0 THEN {TradeEvent(m)} ELSE {}

(* Position.apply_event: when it does not raise, and what it returns. *)
Applies(pos, event) ==
    /\ ~Closed(pos)
    /\ event.type = "increase" => event.direction = pos.direction
    /\ event.type = "decrease" => event.quantity =< pos.quantity

ApplyEvent(pos, event) ==
    [pos EXCEPT !.quantity =
        IF event.type = "increase" THEN @ + event.quantity ELSE @ - event.quantity]

-----------------------------------------------------------------------------
TypeOK ==
    /\ pc \in {"start", "connect", "stream", "backoff", "cleanup", "close",
               "returned", "raised"}
    /\ after \in {"none", "return", "raise", "loop"}
    /\ error \in {"none", "stream", "keepalive", "rest"}
    /\ reconnects \in Nat
    /\ key \in Keys
    /\ open_keys \subseteq Keys
    /\ keepalive \in {"none", "running", "failed"}
    /\ position \in Positions
    /\ updates \in Seq([previous : Positions, event : Events, position : Positions])

Init ==
    /\ pc = "start"
    /\ after = "none"
    /\ error = "none"
    /\ reconnects = 0
    /\ key \in Keys
    /\ open_keys = {}
    /\ keepalive = "none"
    /\ position = InitialPosition
    /\ updates = <<>>

Raise(cause) ==
    /\ pc' = "raised"
    /\ error' = cause

(* start_user_data_stream_api and create_task.  The request is made outside  *)
(* the try block: when it fails, consume ends.                               *)
StartStream ==
    /\ pc = "start"
    /\ \/ /\ key' \in Keys \ open_keys
          /\ open_keys' = open_keys \union {key'}
          /\ keepalive' = "running"
          /\ pc' = "connect"
          /\ UNCHANGED error
       \/ Raise("rest") /\ UNCHANGED <<key, open_keys, keepalive>>
    /\ UNCHANGED <<after, reconnects, listener>>

(* The except block, for any exception out of _consume_once.  Without a      *)
(* limit the counter is never read.                                          *)
StreamFailed ==
    /\ IF MaxReconnects # Unlimited /\ reconnects >= MaxReconnects
       THEN /\ pc' = "cleanup" /\ after' = "raise" /\ error' = "stream"
            /\ UNCHANGED reconnects
       ELSE /\ pc' = "backoff" /\ after' = "loop"
            /\ reconnects' = IF MaxReconnects = Unlimited THEN 0 ELSE reconnects + 1
            /\ UNCHANGED error
    /\ UNCHANGED key

Connect ==
    /\ pc = "connect"
    /\ \/ pc' = "stream" /\ UNCHANGED <<after, error, reconnects, key>>
       \/ StreamFailed
    /\ UNCHANGED <<open_keys, keepalive, listener>>

(* The exchange closes the stream in order, or the connection breaks, or a   *)
(* message is not JSON.                                                      *)
Disconnect ==
    /\ pc = "stream"
    /\ \/ pc' = "cleanup" /\ after' = "return" /\ UNCHANGED <<error, reconnects, key>>
       \/ StreamFailed
    /\ UNCHANGED <<open_keys, keepalive, listener>>

(* Variant: the position is kept only after the update handler returned. *)
HandleEventLate(event) ==
    LET update == [previous |-> position, event |-> event,
                   position |-> ApplyEvent(position, event)]
    IN  IF Applies(position, event)
        THEN /\ updates' = Append(updates, update)
             /\ \/ UNCHANGED consume /\ position' = update.position
                \/ StreamFailed /\ UNCHANGED position
        ELSE StreamFailed /\ UNCHANGED listener

(* handle_event: apply_event may raise; otherwise the position is replaced   *)
(* and the update kept before update_handler is called, which may raise too. *)
HandleEvent(event) ==
    LET update == [previous |-> position, event |-> event,
                   position |-> ApplyEvent(position, event)]
    IN  IF Applies(position, event)
        THEN /\ position' = update.position
             /\ updates' = Append(updates, update)
             /\ UNCHANGED consume \/ StreamFailed
        ELSE StreamFailed /\ UNCHANGED listener

Receive(m) ==
    /\ pc = "stream"
    /\ Len(updates) < MaxUpdates
    /\ \E event \in MapEvents(m) : HandleEvent(event)
    /\ UNCHANGED <<open_keys, keepalive>>

(* The reconnect delay is over: the finally block follows. *)
Backoff ==
    /\ pc = "backoff"
    /\ pc' = "cleanup"
    /\ UNCHANGED <<after, error, reconnects, key, open_keys, keepalive, listener>>

(* Variant: the task is awaited without being cancelled. *)
CleanupUncancelled ==
    /\ pc = "cleanup"
    /\ keepalive = "failed"
    /\ keepalive' = "none"
    /\ Raise("keepalive")
    /\ UNCHANGED <<after, reconnects, key, open_keys, listener>>

(* cancel and _ignore_cancelled: awaiting a task that has failed raises its  *)
(* exception, and the key is not closed.                                     *)
Cleanup ==
    /\ pc = "cleanup"
    /\ keepalive' = "none"
    /\ IF keepalive = "failed" THEN Raise("keepalive") ELSE pc' = "close" /\ UNCHANGED error
    /\ UNCHANGED <<after, reconnects, key, open_keys, listener>>

(* Variant: the key is closed only when consume is over. *)
CloseAtEnd ==
    /\ pc = "close"
    /\ open_keys' = IF after = "loop" THEN open_keys ELSE open_keys \ {key}
    /\ pc' = CASE after = "return" -> "returned"
               [] after = "raise" -> "raised"
               [] after = "loop" -> "start"
    /\ UNCHANGED <<after, error, reconnects, key, keepalive, listener>>

(* close_user_data_stream_api, the end of the finally block.  When it fails  *)
(* the exchange may or may not have closed the key.                          *)
Close ==
    /\ pc = "close"
    /\ \/ /\ open_keys' = open_keys \ {key}
          /\ pc' = CASE after = "return" -> "returned"
                     [] after = "raise" -> "raised"
                     [] after = "loop" -> "start"
          /\ UNCHANGED error
       \/ /\ open_keys' \in {open_keys, open_keys \ {key}}
          /\ Raise("rest")
    /\ UNCHANGED <<after, reconnects, key, keepalive, listener>>

Awaiting == pc \in {"connect", "stream", "backoff"}

(* keepalive_user_data_stream_api raises: the task ends, and nobody looks at *)
(* it before the finally block.                                              *)
KeepaliveFails ==
    /\ Awaiting
    /\ keepalive = "running"
    /\ keepalive' = "failed"
    /\ UNCHANGED <<consume, open_keys, listener>>

(* exchange: a key that is not kept alive expires. *)
Expire ==
    /\ Awaiting
    /\ keepalive = "failed"
    /\ key \in open_keys
    /\ open_keys' = open_keys \ {key}
    /\ UNCHANGED <<consume, keepalive, listener>>

ConsumeStep == StartStream \/ Connect \/ Backoff \/ Cleanup \/ Close

Next ==
    \/ ConsumeStep
    \/ Disconnect
    \/ \E m \in Messages : Receive(m)
    \/ KeepaliveFails
    \/ Expire

(* The requests and the sleep end, the connection attempt has a timeout.     *)
(* Nothing forces a message or the end of the stream.                        *)
Fairness == WF_vars(ConsumeStep)

Spec == Init /\ [][Next]_vars /\ Fairness

-----------------------------------------------------------------------------
(* Properties *)

(* The updates are a replay from the initial position to the current one:     *)
(* each starts from the position the one before it left, across reconnects,   *)
(* events that do not apply and update handlers that fail, and no position on *)
(* the way but the last is a closed one.                                      *)
UpdatesReplay ==
    LET at(i) == IF i = 0 THEN InitialPosition ELSE updates[i].position IN
    /\ \A i \in DOMAIN updates : updates[i].previous = at(i - 1)
    /\ position = at(Len(updates))
    /\ \A i \in 1..(Len(updates) - 1) : ~Closed(at(i))

(* At most one listen key is in use at a time, and none is left when consume  *)
(* returns normally.                                                          *)
KeysAreClosed ==
    /\ open_keys \subseteq {key}
    /\ pc \in {"start", "returned"} => open_keys = {}

(* An exception of the stream or of a handler ends consume only when all the  *)
(* allowed reconnects were made, and never more than these are made.          *)
ReconnectsAreUsed ==
    MaxReconnects # Unlimited =>
        /\ reconnects =< MaxReconnects
        /\ pc = "raised" /\ error = "stream" => reconnects = MaxReconnects

(* A keepalive task runs only for the listen key of the round it belongs to,  *)
(* which is then in use: none outlives its round, and none is left when       *)
(* consume is over.                                                           *)
KeepaliveBelongsToRound ==
    /\ keepalive = "running" => key \in open_keys
    /\ pc \in {"start", "close", "returned", "raised"} => keepalive = "none"

(* Whatever fails in a round, it leaves neither a listen key nor a task, and  *)
(* it is repeated as often as allowed.                                        *)
RoundsAreClean == TypeOK /\ KeysAreClosed /\ ReconnectsAreUsed /\ KeepaliveBelongsToRound

(* A round that failed is always followed by another round or by the end of   *)
(* consume: the finally block waits for nothing that may never come.          *)
FailedRoundsEnd == pc = "backoff" ~> pc \in {"connect", "raised"}

(* "reconnects after stream connection failures": a round that failed, with   *)
(* reconnects left, is followed by another connection.                        *)
ReconnectsAfterFailure == pc = "backoff" ~> pc = "connect"
=============================================================================
