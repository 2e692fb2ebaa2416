--------------------------- MODULE MCControlPlane ---------------------------
(* Finite instances of ControlPlane.  n1 and n2 are two attempts under one  *)
(* idempotency key, every other attempt has a key of its own.               *)
EXTENDS ControlPlane

CONSTANTS n1, n2, n3, p1, p2, f1, c1

MCKeyOf == [o \in Native \cup Plain |-> IF o = n2 THEN n1 ELSE o]

=============================================================================
