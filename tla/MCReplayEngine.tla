--------------------------- MODULE MCReplayEngine ---------------------------
(* Instances of ReplayEngine for TLC. *)
EXTENDS ReplayEngine, TLC

CONSTANTS a1, c1, c2, t1, t2, history

MCSnapshots ==
    [a \in {a1} |->
        [model_type |-> "gmm", mapping |-> (c1 :> t1) @@ (c2 :> t2),
         probability_min |-> 60, margin_min |-> 20, max_distance |-> <<>>]]

(* Four-hour readings carry no distance, and may be of low confidence;     *)
(* daily readings do.                                                      *)
MCAssignments ==
    {[fingerprint |-> c, dominant |-> 80, second |-> 10, distance |-> d] :
        c \in {c1, c2}, d \in {None, 1}}
    \union {[fingerprint |-> c1, dominant |-> 50, second |-> 40, distance |-> None]}

MCCandles ==
    {[low |-> 0, high |-> 0, close |-> 0], [low |-> -3, high |-> 1, close |-> 0],
     [low |-> -1, high |-> 3, close |-> 0]}

MCBoundaries == 0..3

MCMaxHolding == (t1 :> 2) @@ (t2 :> None)
=============================================================================
