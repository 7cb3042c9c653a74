--------------------------- MODULE PositionKeeping ---------------------------
(***************************************************************************)
(* Closing, managing and syncing a position: use cases that are given a    *)
(* copy of the position, an immutable value, and work on it while the      *)
(* position at the exchange moves on.                                      *)
(*                                                                         *)
(* Keepers are the callers that hold copies.  Closing, and managing on an  *)
(* opposite signal, submit a reduce-only market order over the quantity of *)
(* the copy.  Syncing loads the orders created in a window of time and     *)
(* applies every fill to the copy.                                         *)
(*                                                                         *)
(* The exchange is in one-way mode: the account is one signed quantity.    *)
(* Order i was created at time i.  What an order executed is the value at  *)
(* the time of the query, and the window selects by creation time.         *)
(***************************************************************************)
EXTENDS Integers, Sequences, SequencesExt, FiniteSets

CONSTANTS
    Keepers,
    MaxOrders,      \* bound: orders at the exchange
    MaxQuantity     \* bound: of the account, and of an order

ASSUME KeepingAssumption == MaxOrders \in Nat /\ MaxQuantity \in Nat \ {0}

Sides == {1, -1}    \* LONG is BUY, SHORT is SELL
Orders == [side : Sides, executed : 0..MaxQuantity, open : 0..MaxQuantity,
           reduce_only : BOOLEAN, close_position : BOOLEAN]

VARIABLES
    account,        \* signed quantity
    orders,         \* every order, by creation time
    copy,           \* a keeper's position: direction and quantity, CLOSED when 0
    synced,         \* up to where the last sync went
    blurred,        \* history: a window overlapped, or an order behind it filled later
    reversed        \* history: a closing order turned the account around

keepingVars == <<account, orders, copy, synced, blurred, reversed>>

KeepingInit ==
    /\ account = 0
    /\ orders = <<>>
    /\ copy = [k \in Keepers |-> [direction |-> 1, quantity |-> 0]]
    /\ synced = [k \in Keepers |-> 0]
    /\ blurred = [k \in Keepers |-> FALSE]
    /\ reversed = FALSE

-----------------------------------------------------------------------------
Abs(n) == IF n < 0 THEN -n ELSE n

Submits(order) ==
    /\ Len(orders) < MaxOrders
    /\ orders' = Append(orders, order)

(* Fills order i by q more; a keeper that has its time behind it is blurred. *)
Fills(i, q) ==
    /\ orders' = [orders EXCEPT ![i].executed = @ + q, ![i].open = 0]
    /\ account' = account + orders[i].side * q
    /\ blurred' = [k \in Keepers |-> blurred[k] \/ i <= synced[k]]

(* An entry order, filled at once or in two parts. *)
EnterPosition ==
    \E side \in Sides, quantity \in 1..MaxQuantity, rest \in 0..1 :
        /\ rest < quantity
        /\ Abs(account + side * quantity) <= MaxQuantity
        /\ Submits([side |-> side, executed |-> quantity - rest, open |-> rest,
                    reduce_only |-> FALSE, close_position |-> FALSE])
        /\ account' = account + side * (quantity - rest)
        /\ UNCHANGED <<copy, synced, blurred, reversed>>

FillRest ==
    \E i \in DOMAIN orders :
        /\ orders[i].open > 0
        /\ Abs(account + orders[i].side * orders[i].open) <= MaxQuantity
        /\ Fills(i, orders[i].open)
        /\ UNCHANGED <<copy, synced, reversed>>

(* A stop or take profit order: it waits, and closes the whole position. *)
PlaceProtection ==
    /\ account # 0
    /\ Submits([side |-> IF account > 0 THEN -1 ELSE 1, executed |-> 0, open |-> 0,
                reduce_only |-> TRUE, close_position |-> TRUE])
    /\ UNCHANGED <<account, copy, synced, blurred, reversed>>

TriggerProtection ==
    \E i \in DOMAIN orders :
        /\ orders[i].close_position /\ orders[i].executed = 0
        /\ account * orders[i].side < 0
        /\ Fills(i, Abs(account))
        /\ UNCHANGED <<copy, synced, reversed>>

-----------------------------------------------------------------------------
(* The caller's copy: the position of the account. *)
TakeCopy(k) ==
    /\ account # 0
    /\ \A i \in DOMAIN orders : orders[i].open = 0
    /\ copy' = [copy EXCEPT ![k] = [direction |-> IF account > 0 THEN 1 ELSE -1,
                                    quantity |-> Abs(account)]]
    /\ synced' = [synced EXCEPT ![k] = Len(orders)]
    /\ blurred' = [blurred EXCEPT ![k] = FALSE]
    /\ UNCHANGED <<account, orders, reversed>>

(* Variant: an order that may open. *)
PlainMarketOrder(k) ==
    [side |-> -copy[k].direction, executed |-> copy[k].quantity, open |-> 0,
     reduce_only |-> FALSE, close_position |-> FALSE]

(* OrderRequest.market of a close, as the exchange executes it: no more than *)
(* the position.                                                             *)
ClosingOrder(k) ==
    [side |-> -copy[k].direction,
     executed |-> IF copy[k].quantity <= Abs(account) THEN copy[k].quantity ELSE Abs(account),
     open |-> 0, reduce_only |-> TRUE, close_position |-> FALSE]

(* A reduce-only order against the account is executed, any other is refused *)
(* and the use case raises.  The answer changes no copy.                     *)
SubmitClose(k) ==
    LET order == ClosingOrder(k) IN
    /\ order.reduce_only => account * order.side < 0
    /\ Submits(order)
    /\ account' = account + order.side * order.executed
    /\ reversed' = (reversed \/ account * account' < 0 \/ Abs(account') > Abs(account))
    /\ UNCHANGED <<copy, synced, blurred>>

ClosePosition(k) == copy[k].quantity > 0 /\ SubmitClose(k)

(* manage: a signal is generated for the copy, and an opposite one closes. *)
ManageOpenPosition(k) ==
    \E signal \in Sides \union {0} :
        /\ copy[k].quantity > 0
        /\ IF signal = -copy[k].direction THEN SubmitClose(k) ELSE UNCHANGED keepingVars

(* What Position.__post_init__ lets through *)
HeldPositions == [direction : Sides, quantity : Nat]

(* Position.apply_event of what a report executed; Broken when it raises. *)
Broken == [direction |-> 0, quantity |-> 0]

ApplyReport(position, order) ==
    IF order.executed = 0 THEN position
    ELSE IF position = Broken \/ position.quantity = 0 THEN Broken
    ELSE IF order.reduce_only
         THEN IF order.executed > position.quantity THEN Broken
              ELSE [position EXCEPT !.quantity = @ - order.executed]
    ELSE IF order.side # position.direction THEN Broken
    ELSE [position EXCEPT !.quantity = @ + order.executed]

(* sync over the window [since, until].  An exception leaves the copy. *)
SyncPosition(k) ==
    \E since \in {synced[k], synced[k] + 1}, until \in (synced[k] + 1)..Len(orders) :
        LET applied == FoldLeft(ApplyReport, copy[k], SubSeq(orders, since, until)) IN
        /\ since > 0
        /\ copy[k].quantity > 0
        /\ applied \in HeldPositions
        /\ copy' = [copy EXCEPT ![k] = applied]
        /\ synced' = [synced EXCEPT ![k] = until]
        /\ blurred' = [blurred EXCEPT ![k] = \/ @
                                             \/ since <= synced[k]
                                             \/ \E i \in since..until : orders[i].open > 0]
        /\ UNCHANGED <<account, orders, reversed>>

KeepingNext ==
    \/ EnterPosition \/ FillRest \/ PlaceProtection \/ TriggerProtection
    \/ \E k \in Keepers :
         TakeCopy(k) \/ ClosePosition(k) \/ ManageOpenPosition(k) \/ SyncPosition(k)

KeepingSpec == KeepingInit /\ [][KeepingNext]_keepingVars

-----------------------------------------------------------------------------
(* The account of the orders up to time t. *)
AccountAt(t) ==
    FoldLeft(LAMBDA sum, order : sum + order.side * order.executed, 0, SubSeq(orders, 1, t))

(* No close from a copy, however old, turns the account around or grows it. *)
ClosesOnlyReduce == ~reversed

(* A copy that was synced over windows that touch and do not overlap, while *)
(* no order behind them filled later, is the account as of its last sync,   *)
(* whatever others entered and closed in between: partial fills, closes of  *)
(* other keepers and turns of the account are applied exactly or raise.     *)
CopiesAreExact ==
    \A k \in Keepers :
       ~blurred[k] /\ synced[k] > 0 => copy[k].direction * copy[k].quantity = AccountAt(synced[k])

PositionsAreKept == ClosesOnlyReduce /\ CopiesAreExact
=============================================================================
