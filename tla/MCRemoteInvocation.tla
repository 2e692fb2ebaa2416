------------------------- MODULE MCRemoteInvocation -------------------------
(* Finite instances of RemoteInvocation: the controls are one of each kind. *)
EXTENDS RemoteInvocation, TLC

CONSTANTS o1, o2, w1, w2, cancel1, observe1, reconcile1

MCActionOf ==
    [c \in Controls |-> IF c = cancel1 THEN "cancel"
                        ELSE IF c = observe1 THEN "observe" ELSE "reconcile"]

WorkerSymmetry == Permutations(Workers)

=============================================================================
