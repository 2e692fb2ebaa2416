------------------------- MODULE OperationLifecycle -------------------------
(****************************************************************************)
(* What the control plane promises of one store scope, whatever happens to  *)
(* the process and to its store calls: the closed transition relation of    *)
(* raes_contracts/operation_lifecycle.py, an effect only behind a recorded  *)
(* RUNNING and at most once, and a snapshot that changes only together with *)
(* the terminal record of the operation that changed it and never loses     *)
(* what an earlier operation published.  ControlPlane implements it.        *)
(****************************************************************************)
EXTENDS Naturals

CONSTANT Ops

VARIABLES
    st,       \* OperationState of each operation, "none" when unrecorded
    invoked,  \* how often the backend was invoked for it
    snap,     \* the operations whose result the durable snapshot contains
    rev       \* SnapshotState.revision

lifecycleVars == <<st, invoked, snap, rev>>

NonTerminal == {"ACCEPTED", "RUNNING"}
Terminal == {"SUCCEEDED", "FAILED", "CANCELLED", "INDETERMINATE"}
States == {"none"} \cup NonTerminal \cup Terminal

LegalTransitions ==
    {<<"ACCEPTED", "RUNNING">>, <<"ACCEPTED", "CANCELLED">>,
     <<"ACCEPTED", "INDETERMINATE">>}
        \cup ({"RUNNING"} \X Terminal)

\* is_operation_transition_allowed, with the creation of a record
Allowed(s, t) ==
    \/ <<s, t>> \in LegalTransitions
    \/ s = "none" /\ t \in NonTerminal

LifecycleInit ==
    /\ st = [o \in Ops |-> "none"]
    /\ invoked = [o \in Ops |-> 0]
    /\ snap = {} /\ rev = 0

\* A claim, a start, or a terminal commit that leaves the snapshot alone.
Move(o, to) ==
    /\ Allowed(st[o], to)
    /\ st' = [st EXCEPT ![o] = to]
    /\ UNCHANGED <<invoked, snap, rev>>

\* A terminal commit that carries a snapshot.
Publish(o, to) ==
    /\ st[o] = "RUNNING" /\ to \in Terminal
    /\ st' = [st EXCEPT ![o] = to]
    /\ snap' \in {snap, snap \cup {o}}
    /\ rev' = rev + 1
    /\ UNCHANGED invoked

Invoke(o) ==
    /\ st[o] = "RUNNING" /\ invoked[o] = 0
    /\ invoked' = [invoked EXCEPT ![o] = 1]
    /\ UNCHANGED <<st, snap, rev>>

LifecycleNext ==
    \E o \in Ops :
        \/ Invoke(o)
        \/ Move(o, st'[o])
        \/ Publish(o, st'[o])

LifecycleSpec == LifecycleInit /\ [][LifecycleNext]_lifecycleVars

=============================================================================
