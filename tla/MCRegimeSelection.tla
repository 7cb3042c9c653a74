------------------------- MODULE MCRegimeSelection -------------------------
(* Instances of RegimeSelection for TLC. *)
EXTENDS RegimeSelection, TLC

CONSTANTS a1, a2, c1, c2, c3, s1, s2

(* a1 is a GMM bundle in which c1 and c3 share a strategy and c2 is cash; a2 *)
(* is a K-Means bundle without c3 in which c1 has another strategy.           *)
Gmm == [model_type |-> "gmm", mapping |-> (c1 :> s1) @@ (c2 :> None) @@ (c3 :> s1),
        probability_min |-> 65, margin_min |-> 35, max_distance |-> <<>>]
KMeans == [model_type |-> "kmeans", mapping |-> (c1 :> s2) @@ (c2 :> None),
           probability_min |-> None, margin_min |-> None,
           max_distance |-> (c1 :> 3) @@ (c2 :> 3)]

MCSnapshots == (a1 :> Gmm) @@ (a2 :> KMeans)

Gmm_(c, dominant, second) ==
    [fingerprint |-> c, dominant |-> dominant, second |-> second, distance |-> None]
KMeans_(c, distance) ==
    [fingerprint |-> c, dominant |-> 100, second |-> 0, distance |-> distance]

(* On both sides of each threshold: exactly at both GMM thresholds, below the *)
(* margin only, below the probability only; exactly at and above the K-Means  *)
(* distance.                                                                  *)
MCAssignments ==
    {Gmm_(c1, 65, 30), Gmm_(c2, 65, 30), Gmm_(c3, 65, 30),
     Gmm_(c1, 66, 34), Gmm_(c3, 64, 20),
     KMeans_(c1, 3), KMeans_(c2, 3), KMeans_(c1, 4)}
FewAssignments == {Gmm_(c1, 65, 30), KMeans_(c1, 3)}
=============================================================================
