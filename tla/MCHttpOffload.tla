--------------------------- MODULE MCHttpOffload ---------------------------
(* Finite instances of HttpOffload: requests e1, e2 and e3 mutate, c1 does not. *)
EXTENDS HttpOffload

CONSTANTS e1, e2, e3, c1

MCLaneOf == [r \in Requests |-> IF r = c1 THEN "control" ELSE "effect"]
MCCapacity == [l \in Lanes |-> IF l = "effect" THEN 2 ELSE 1]

=============================================================================
