---------------------------- MODULE RuntimeEngine ----------------------------
(****************************************************************************)
(* The engine that runs several run contexts on one physical target: the    *)
(* owner's own context and the runs it opened.  Calls enter a context,      *)
(* reserve the target, claim an operation and settle it; a run is retired   *)
(* when it has left nothing behind; close drains every context and releases *)
(* or retains the process-wide claim on the backend, for which the engine   *)
(* of another ledger is waiting.                                            *)
(*                                                                          *)
(* A step is one section under the engine's lock (retire holds it across a  *)
(* store call and has two steps), the lifecycle condition of a context, the *)
(* table of claims, or one store transaction.  What a context did to the    *)
(* target is what its ledger says: an operation that has not settled, a     *)
(* callback that outlived its caller, or entries in the snapshot.           *)
(****************************************************************************)
EXTENDS Naturals, FiniteSets

CONSTANTS
    Owner,      \* the owner's context
    Runs,       \* the contexts of open_run
    Threads,    \* slots for calls
    None,
    MaxCalls,   \* bound: calls into the contexts
    MaxFaults   \* bound: closes and constructors that fail, settlements that
                \* cannot be recorded, retirements whose store call times out,
                \* engines lost or collected without close

ASSUME EngineNames ==
    Owner \notin Runs /\ None \notin Runs \cup Threads \cup {Owner, "engine", "rival"}
ASSUME EngineBounds == MaxCalls \in Nat /\ MaxFaults \in Nat

Contexts == Runs \cup {Owner}

VARIABLES
    \* durable, in the ledgers of the contexts
    opened, retired,  \* RunContextDecision
    stopped,          \* effect_admission_stopped of the owner's store
    op,               \* the operation of a context that has not settled
    entries,          \* the contexts whose snapshot has entries
    \* of the engine
    phase,            \* closing and closed
    live,             \* the contexts constructed in this process
    gone,             \* _retired
    halted,           \* _effect_admission_stopped
    poisoned,         \* _durability_poisoned
    shut,             \* _closing of a context
    reserved,         \* _reserved_run
    retiring,         \* the context that retire has found idle
    closer,           \* where close is
    callbacks,        \* contexts with a callback in the adapter without caller
    late,             \* a retirement that was given up and may still commit
    \* of the process
    claim,            \* the claim on the target's components
    job,              \* what each thread does
    \* history
    doubtful,         \* retirements that committed after they were given up
    \* bounds
    left, faults

durable == <<opened, retired, stopped, op, entries>>
engine == <<phase, live, gone, halted, poisoned, shut, reserved, retiring, closer,
            callbacks, late>>
bounds == <<left, faults>>
vars == <<durable, engine, claim, job, doubtful, bounds>>

Unclaimed == [by |-> None, closed |-> FALSE, unresolved |-> FALSE]

\* step: reserved, and not counted as an active call yet.  entered: counted.
\* gated: inside control_plane_mutation.  admitted: _effect_claim_block
\* passed.  effect: the operation is recorded and its backend is called.
Positions == {"step", "entered", "gated", "admitted", "effect"}

TypeOK ==
    /\ opened \subseteq Runs /\ retired \subseteq Contexts /\ stopped \in BOOLEAN
    /\ op \in [Contexts -> {"none", "open", "unknown"}] /\ entries \subseteq Contexts
    /\ phase \in {"absent", "open", "closing", "closed", "dropped"}
    /\ live \subseteq Contexts /\ gone \subseteq live /\ halted \subseteq live
    /\ poisoned \subseteq live /\ shut \subseteq live /\ callbacks \subseteq live
    /\ reserved \in live \cup {None} /\ retiring \in live \cup {None}
    /\ closer \in {"idle", "begun", "draining", "closing", "releasing"}
    /\ late \in Contexts \cup {None}
    /\ claim \in [by : {None, "engine", "rival"}, closed : BOOLEAN, unresolved : BOOLEAN]
    /\ job \in [Threads -> [ctx : Contexts, at : Positions, claimed : BOOLEAN] \cup {None}]
    /\ \A t \in Threads : job[t] # None /\ job[t].at = "effect" => op[job[t].ctx] = "open"
    /\ doubtful \subseteq retired
    /\ left \in 0 .. MaxCalls /\ faults \in 0 .. MaxFaults

Init ==
    /\ opened = {} /\ retired = {} /\ stopped = FALSE
    /\ op = [c \in Contexts |-> "none"] /\ entries = {}
    /\ phase = "absent" /\ live = {} /\ gone = {} /\ halted = {} /\ poisoned = {}
    /\ shut = {} /\ reserved = None /\ retiring = None /\ closer = "idle"
    /\ callbacks = {} /\ late = None
    /\ claim = Unclaimed /\ job = [t \in Threads |-> None] /\ doubtful = {}
    /\ left = MaxCalls /\ faults = MaxFaults

-----------------------------------------------------------------------------

At(c, positions) == {t \in Threads : job[t] # None /\ job[t].ctx = c /\ job[t].at \in positions}

\* _active_runtime_calls
Active(c) == At(c, Positions \ {"step"})

\* RuntimeEngineResources.unresolved
Unresolved(c) == c \in poisoned \/ op[c] # "none"

\* active_calls of the claim
ClaimedCalls == {t \in Threads : job[t] # None /\ job[t].claimed}

\* _require_other_runs_idle
OthersIdle(c) == \A d \in live \ (gone \cup {c}) : ~Unresolved(d) /\ d \notin entries

\* _require_restored_contexts
Restored(c) == (opened \ retired) \ live \subseteq {c}

\* reserve, which waits for the engine's lock
Reservable(c) ==
    /\ retiring = None /\ phase = "open"
    /\ c \notin gone /\ ~stopped
    /\ reserved \in {None, c}
    /\ Restored(c) /\ OthersIdle(c)

\* The lock of the component table is taken for every call of runtime_call.
ClaimAdmits == claim.by = "engine" /\ ~claim.closed

-----------------------------------------------------------------------------
(* Construction                                                            *)

\* Mutant: an unresolved claim is free when its owner has closed.
RivalBindableClosed == claim.by = None \/ (claim.by = "engine" /\ claim.closed)

\* RuntimeResourceClaim.__init__ by this ledger, and by another one
Bindable == claim.by = None \/ (claim.by = "engine" /\ claim.closed)
RivalBindable == claim.by = None

\* reconcile_startup_operations classifies what a lost process left.
Classified(c) == IF op[c] = "open" THEN {"none", "unknown"} ELSE {op[c]}

\* A constructed context; restore_context makes it retired as recorded.
Construct(c) ==
    /\ live' = live \cup {c}
    /\ \E s \in Classified(c) : op' = [op EXCEPT ![c] = s]
    /\ IF c \in retired THEN gone' = gone \cup {c} /\ halted' = halted \cup {c}
       ELSE /\ UNCHANGED gone
            /\ halted' = IF c = Owner /\ stopped THEN halted \cup {c} ELSE halted

\* RuntimeControlPlane.__init__: bind, then the owner's own context
OpenEngine ==
    /\ phase \in {"absent", "closed", "dropped"} /\ Bindable
    /\ claim' = [by |-> "engine", closed |-> FALSE, unresolved |-> FALSE]
    /\ phase' = "open" /\ live' = {Owner}
    /\ gone' = retired \cap {Owner}
    /\ halted' = IF stopped \/ Owner \in retired THEN {Owner} ELSE {}
    /\ \E s \in Classified(Owner) : op' = [op EXCEPT ![Owner] = s]
    /\ poisoned' = {} /\ shut' = {} /\ reserved' = None
    /\ UNCHANGED <<opened, retired, stopped, entries, retiring, closer, callbacks,
                   late, job, doubtful, bounds>>

\* open_run: the decision is recorded first; the constructor may raise.
OpenRun(c) ==
    /\ phase = "open" /\ retiring = None
    /\ Owner \notin shut \cup poisoned /\ c \notin live
    /\ opened' = opened \cup {c}
    /\ \/ Construct(c) /\ UNCHANGED faults
       \/ faults > 0 /\ faults' = faults - 1 /\ UNCHANGED <<live, op, gone, halted>>
    /\ UNCHANGED <<retired, stopped, entries, phase, poisoned, shut, reserved,
                   retiring, closer, callbacks, late, claim, job, doubtful, left>>

-----------------------------------------------------------------------------
(* Calls                                                                   *)

Go(t, at) == job' = [job EXCEPT ![t].at = at]

\* _runtime_call
Enterable(c) == c \in live /\ c \notin poisoned \cup shut /\ phase = "open"

\* runtime_owned
Enter(t, c) ==
    /\ job[t] = None /\ left > 0 /\ left' = left - 1
    /\ Enterable(c)
    /\ job' = [job EXCEPT ![t] = [ctx |-> c, at |-> "entered", claimed |-> FALSE]]
    /\ UNCHANGED <<durable, engine, claim, doubtful, faults>>

\* RuntimeTrialUnit._runtime_step reserves before it enters.
ReserveStep(t, c) ==
    /\ job[t] = None /\ left > 0 /\ left' = left - 1
    /\ c \in live /\ Reservable(c) /\ reserved' = c
    /\ job' = [job EXCEPT ![t] = [ctx |-> c, at |-> "step", claimed |-> FALSE]]
    /\ UNCHANGED <<durable, phase, live, gone, halted, poisoned, shut, retiring,
                   closer, callbacks, late, claim, doubtful, faults>>

\* One mutation of a context at a time, see MutationAuthority.
GateFree(c) == At(c, {"gated", "admitted", "effect"}) = {}

EnterStep(t) ==
    /\ job[t] # None /\ job[t].at = "step"
    /\ Enterable(job[t].ctx) /\ ClaimAdmits /\ GateFree(job[t].ctx)
    /\ job' = [job EXCEPT ![t].at = "gated", ![t].claimed = TRUE]
    /\ UNCHANGED <<durable, engine, claim, doubtful, bounds>>

\* advance_plan and the manager's calls reserve inside the call; operations
\* are submitted without.
Gate(t) ==
    /\ job[t] # None /\ job[t].at = "entered" /\ GateFree(job[t].ctx)
    /\ \/ /\ Reservable(job[t].ctx) /\ ClaimAdmits
          /\ reserved' = job[t].ctx
          /\ job' = [job EXCEPT ![t].at = "gated", ![t].claimed = TRUE]
       \/ UNCHANGED reserved /\ Go(t, "gated")
    /\ UNCHANGED <<durable, phase, live, gone, halted, poisoned, shut, retiring,
                   closer, callbacks, late, claim, doubtful, bounds>>

\* _effect_claim_block
AdmitEffect(t) ==
    /\ job[t] # None /\ job[t].at = "gated"
    /\ Reservable(job[t].ctx) /\ job[t].ctx \notin halted
    /\ op[job[t].ctx] = "none"
    /\ reserved' = job[t].ctx /\ Go(t, "admitted")
    /\ UNCHANGED <<durable, phase, live, gone, halted, poisoned, shut, retiring,
                   closer, callbacks, late, claim, doubtful, bounds>>

\* claim_record
ClaimRecord(t) ==
    /\ job[t] # None /\ job[t].at = "admitted"
    /\ op' = [op EXCEPT ![job[t].ctx] = "open"] /\ Go(t, "effect")
    /\ UNCHANGED <<opened, retired, stopped, entries, engine, claim, doubtful, bounds>>

\* The operation settles with the entries the backend reports; or it is
\* indeterminate, perhaps with its callback still at work; or it cannot be
\* recorded and the context is poisoned.
SettleEffect(t) ==
    LET c == job[t].ctx IN
    /\ job[t] # None /\ job[t].at = "effect" /\ Go(t, "gated")
    /\ \/ /\ op' = [op EXCEPT ![c] = "none"]
          /\ entries' \in {entries \cup {c}, entries \ {c}}
          /\ UNCHANGED <<callbacks, poisoned, faults>>
       \/ /\ op' = [op EXCEPT ![c] = "unknown"]
          /\ callbacks' \in {callbacks, callbacks \cup {c}}
          /\ UNCHANGED <<entries, poisoned, faults>>
       \/ /\ faults > 0 /\ faults' = faults - 1
          /\ poisoned' = poisoned \cup {c}
          /\ UNCHANGED <<op, entries, callbacks>>
    /\ UNCHANGED <<opened, retired, stopped, phase, live, gone, halted, shut, reserved,
                   retiring, closer, late, claim, doubtful, left>>

CallbackEnds(c) ==
    /\ c \in callbacks /\ callbacks' = callbacks \ {c}
    /\ UNCHANGED <<durable, phase, live, gone, halted, poisoned, shut, reserved,
                   retiring, closer, late, claim, job, doubtful, bounds>>

\* resolve_indeterminate_operation, inside a call
Resolve(t) ==
    LET c == job[t].ctx IN
    /\ job[t] # None /\ job[t].at = "gated" /\ op[c] = "unknown"
    /\ op' = [op EXCEPT ![c] = "none"]
    /\ entries' \in {entries \cup {c}, entries \ {c}}
    /\ UNCHANGED <<opened, retired, stopped, engine, claim, job, doubtful, bounds>>

\* stop_admission, inside a call
StopAdmission(t) ==
    /\ job[t] # None /\ job[t].at = "entered" /\ job[t].ctx \notin halted
    /\ stopped' = (stopped \/ job[t].ctx = Owner)
    /\ halted' = halted \cup {job[t].ctx}
    /\ UNCHANGED <<opened, retired, op, entries, phase, live, gone, poisoned, shut,
                   reserved, retiring, closer, callbacks, late, claim, job, doubtful, bounds>>

\* The call returns, or something it needs is refused.
Leave(t) ==
    /\ job[t] # None /\ job[t].at \in Positions \ {"effect"}
    /\ job' = [job EXCEPT ![t] = None]
    /\ UNCHANGED <<durable, engine, claim, doubtful, bounds>>

-----------------------------------------------------------------------------
(* Retirement                                                              *)

\* Mutant: a callback without caller is not waited for.
IdleButCallbacks(c) ==
    Active(c) = {} /\ late = None /\ ~Unresolved(c) /\ c \notin entries

\* _require_idle_context; pending_calls counts the callbacks of all contexts
Idle(c) ==
    /\ Active(c) = {} /\ callbacks = {} /\ late = None
    /\ ~Unresolved(c) /\ c \notin entries

\* retire up to its store call, by retire_run or the close of a run
RetireCheck(c) ==
    /\ c \in live \ gone /\ retiring = None /\ phase \in {"open", "closing"}
    /\ Idle(c) /\ retiring' = c
    /\ UNCHANGED <<durable, phase, live, gone, halted, poisoned, shut, reserved, closer,
                   callbacks, late, claim, job, doubtful, bounds>>

\* The decision is recorded, unless close has closed the store by now.
Retire ==
    /\ retiring # None /\ retiring' = None /\ closer # "releasing"
    /\ retired' = retired \cup {retiring}
    /\ gone' = gone \cup {retiring} /\ halted' = halted \cup {retiring}
    /\ reserved' = IF reserved = retiring THEN None ELSE reserved
    /\ doubtful' = doubtful \ {retiring}
    /\ UNCHANGED <<opened, stopped, op, entries, phase, live, poisoned, shut, closer,
                   callbacks, late, claim, job, bounds>>

\* The store call raises: nothing was written, or its budget ended and the
\* write is still under way.
RetireFails ==
    /\ retiring # None /\ retiring' = None
    /\ \/ UNCHANGED <<late, faults>>
       \/ faults > 0 /\ faults' = faults - 1 /\ late' = retiring
    /\ UNCHANGED <<durable, phase, live, gone, halted, poisoned, shut, reserved, closer,
                   callbacks, claim, job, doubtful, left>>

LateRetirement ==
    /\ late # None /\ late' = None
    /\ \/ UNCHANGED <<retired, doubtful>>
       \/ retired' = retired \cup {late} /\ doubtful' = doubtful \cup {late}
    /\ UNCHANGED <<opened, stopped, op, entries, phase, live, gone, halted, poisoned,
                   shut, reserved, retiring, closer, callbacks, claim, job, bounds>>

-----------------------------------------------------------------------------
(* Close                                                                   *)

\* close and _begin_runtime_close of the owner
BeginClose ==
    /\ phase = "open" /\ closer = "idle" /\ ClaimedCalls = {} /\ retiring = None
    /\ closer' = "begun"
    /\ shut' = shut \cup {Owner} /\ halted' = halted \cup {Owner}
    /\ UNCHANGED <<durable, phase, live, gone, poisoned, reserved, retiring, callbacks,
                   late, claim, job, doubtful, bounds>>

StartDrain ==
    /\ closer = "begun" /\ retiring = None
    /\ phase' = "closing" /\ closer' = "draining"
    /\ UNCHANGED <<durable, live, gone, halted, poisoned, shut, reserved, retiring,
                   callbacks, late, claim, job, doubtful, bounds>>

\* Every context is closed to calls and has none, and the adapter is empty.
Drained ==
    /\ \A c \in live : Active(c) = {}
    /\ callbacks = {} /\ late = None

\* _drain_contexts
ShutContext(c) ==
    /\ closer = "draining" /\ c \in live \ shut
    /\ \A d \in shut : Active(d) = {}
    /\ shut' = shut \cup {c} /\ halted' = halted \cup {c}
    /\ UNCHANGED <<durable, phase, live, gone, poisoned, reserved, retiring, closer,
                   callbacks, late, claim, job, doubtful, bounds>>

EndDrain ==
    /\ closer = "draining" /\ shut = live /\ Drained
    /\ closer' = "closing"
    /\ UNCHANGED <<durable, phase, live, gone, halted, poisoned, shut, reserved,
                   retiring, callbacks, late, claim, job, doubtful, bounds>>

\* _close_providers
CloseProviders ==
    /\ closer = "closing" /\ closer' = "releasing"
    /\ UNCHANGED <<durable, phase, live, gone, halted, poisoned, shut, reserved,
                   retiring, callbacks, late, claim, job, doubtful, bounds>>

\* RuntimeResourceClaim.release
Released ==
    IF \E c \in live : Unresolved(c)
    THEN [by |-> "engine", closed |-> TRUE, unresolved |-> TRUE]
    ELSE Unclaimed

\* _release_capacity and _finish_close
FinishClose ==
    /\ closer = "releasing" /\ Drained /\ ClaimedCalls = {} /\ retiring = None
    /\ claim' = Released
    /\ phase' = "closed" /\ closer' = "idle" /\ shut' = {}
    /\ UNCHANGED <<durable, live, gone, halted, poisoned, reserved, retiring, callbacks,
                   late, job, doubtful, bounds>>

\* _abort_close: a budget ends or a provider raises.
AbortClose ==
    /\ closer \in {"draining", "closing", "releasing"}
    /\ faults > 0 /\ faults' = faults - 1
    /\ claim' = [claim EXCEPT !.unresolved = TRUE]
    /\ closer' = "idle" /\ phase' = "open" /\ shut' = {}
    /\ poisoned' = IF closer = "draining" THEN poisoned ELSE live
    /\ UNCHANGED <<durable, live, gone, halted, reserved, retiring, callbacks, late,
                   job, doubtful, left>>

\* Nothing of the engine remains.
EngineGone ==
    /\ live' = {} /\ gone' = {} /\ halted' = {} /\ poisoned' = {}
    /\ shut' = {} /\ reserved' = None /\ retiring' = None /\ closer' = "idle"
    /\ callbacks' = {} /\ late' = None
    /\ job' = [t \in Threads |-> None]

\* The process is lost.  The rival's process is then another one, which the
\* deployment has to keep away.
Crash ==
    /\ phase # "absent" /\ claim.by = "engine"
    /\ faults > 0 /\ faults' = faults - 1
    /\ EngineGone /\ phase' = "absent" /\ claim' = Unclaimed
    /\ UNCHANGED <<durable, doubtful, left>>

\* _owner_gone: the collector takes an engine nobody uses and nobody closed.
OwnerGone ==
    /\ phase = "open" /\ closer = "idle" /\ retiring = None
    /\ callbacks = {} /\ late = None /\ \A t \in Threads : job[t] = None
    /\ faults > 0 /\ faults' = faults - 1
    /\ EngineGone /\ phase' = "dropped"
    /\ claim' = IF claim.unresolved THEN claim ELSE Unclaimed
    /\ UNCHANGED <<durable, doubtful, left>>

-----------------------------------------------------------------------------
(* The engine of another ledger in the same process                        *)

RivalOpens ==
    /\ RivalBindable /\ phase \in {"closed", "dropped"}
    /\ claim' = [by |-> "rival", closed |-> FALSE, unresolved |-> FALSE]
    /\ UNCHANGED <<durable, engine, job, doubtful, bounds>>

RivalCloses ==
    /\ claim.by = "rival" /\ claim' = Unclaimed
    /\ UNCHANGED <<durable, engine, job, doubtful, bounds>>

-----------------------------------------------------------------------------

CallStep(t) ==
    \/ \E c \in Contexts : Enter(t, c) \/ ReserveStep(t, c)
    \/ EnterStep(t) \/ Gate(t) \/ AdmitEffect(t) \/ ClaimRecord(t) \/ SettleEffect(t)
    \/ Resolve(t) \/ StopAdmission(t) \/ Leave(t)

CloseStep ==
    \/ BeginClose \/ StartDrain \/ EndDrain \/ CloseProviders \/ FinishClose \/ AbortClose
    \/ \E c \in Contexts : ShutContext(c)

Next ==
    \/ OpenEngine \/ \E c \in Runs : OpenRun(c)
    \/ \E t \in Threads : CallStep(t)
    \/ \E c \in Contexts : CallbackEnds(c) \/ RetireCheck(c)
    \/ Retire \/ RetireFails \/ LateRetirement
    \/ CloseStep \/ Crash \/ OwnerGone \/ RivalOpens \/ RivalCloses

Spec == Init /\ [][Next]_vars

-----------------------------------------------------------------------------
(* Properties                                                              *)

\* What a context has on the target, or may still do to it.
Loose == {c \in Contexts : op[c] # "none" \/ c \in entries \/ c \in callbacks}

\* Doubtful retirements are left to RetirementIsVerified.
Known == Loose \ doubtful

Holder ==
    IF reserved # None THEN reserved
    ELSE IF Known # {} THEN CHOOSE c \in Known : TRUE
    ELSE None

Target ==
    INSTANCE ExclusiveTarget
        WITH Clients <- Contexts, Nobody <- None, holder <- Holder, loose <- Known

\* reserve "retains target exclusion until verified run retirement": a run
\* touches the target only while it is reserved for it, and the target passes
\* to another run only when nothing of the first one is left; through trial
\* steps that reserved before their run was retired, callbacks that outlive
\* their operation, failed closes, and reopening of the ledger.
ImplementsTarget == Target!TargetSpec

\* A closed engine is quiet: no call is inside a context and no callback is at
\* work.  Another ledger's engine gets the backend only when no call is inside,
\* and from an engine that has closed only when no operation of a context it
\* had constructed is unresolved.  (An engine that was collected without close
\* is outside: its weak reference says nothing of its operations.)
RivalExcluded ==
    /\ phase = "closed" => callbacks = {} /\ \A c \in Contexts : Active(c) = {}
    /\ claim.by = "rival" =>
           /\ phase \in {"closed", "dropped"} /\ \A c \in Contexts : Active(c) = {}
           /\ phase = "closed" => \A c \in live : op[c] = "none"

\* "Unresolved work retains that binding": as RivalExcluded, for every run of
\* the ledger and not only those that the last engine had restored.
UnresolvedKeepsBinding ==
    claim.by = "rival" /\ phase = "closed" => \A c \in Contexts : op[c] = "none"

\* A run that its ledger calls retired has left nothing on the target and
\* begins nothing any more: restored as retired it excludes nobody.
RetirementIsVerified == \A c \in retired : c \notin Loose

=============================================================================
