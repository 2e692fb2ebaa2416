--------------------------- MODULE ExclusiveTarget ---------------------------
(****************************************************************************)
(* What a reservation of a target promises: whoever makes an effect holds   *)
(* the target, and the target does not change hands while the effect of its *)
(* holder may still happen.  RemoteInvocation implements it with the        *)
(* reserved flag of the invocation ledger (the clients are operations), and *)
(* RuntimeEngine with its reservation of a physical target (the clients are *)
(* run contexts).                                                           *)
(****************************************************************************)

CONSTANTS Clients, Nobody

VARIABLES
    holder,  \* who holds the target
    loose    \* the clients with an effect that has begun and has not ceased

targetVars == <<holder, loose>>

TargetInit == holder = Nobody /\ loose = {}

Acquire(c) == holder = Nobody /\ holder' = c /\ UNCHANGED loose

Begin(c) == holder = c /\ loose' = loose \cup {c} /\ UNCHANGED holder

Cease(c) == loose' = loose \ {c} /\ UNCHANGED holder

\* With the end of its effect, or after it.
Release(c) ==
    /\ holder = c /\ holder' = Nobody
    /\ loose' = loose \ {c}

TargetNext ==
    \E c \in Clients : Acquire(c) \/ Begin(c) \/ Cease(c) \/ Release(c)

TargetSpec == TargetInit /\ [][TargetNext]_targetVars

=============================================================================
