-------------------------- MODULE ExecutionAdapter --------------------------
(****************************************************************************)
(* LocalExecutionAdapter, and the close of the runtime that owns it.        *)
(*                                                                          *)
(* Every call of a backend, of a store or of an evidence service runs in a  *)
(* worker thread; the caller waits for it at most as long as its budget.    *)
(* When the budget ends first the thread goes on: the call's physical slot  *)
(* and its place in the pending count stay taken until the callback exits.  *)
(* RuntimeEngineResources.close stops admission, waits for the admitted     *)
(* calls and for the callbacks, closes the store, gives up the owner lease  *)
(* and stops the portal; it may give up at any of these points and may be   *)
(* tried again.                                                             *)
(****************************************************************************)
EXTENDS Naturals, FiniteSets

CONSTANTS
    Threads,   \* callers of the control plane
    Timers,    \* invocation deadlines, by operation
    Calls,     \* bound: calls of the adapter
    Lanes,     \* lanes the threads use
    Closing,   \* lanes refused while the adapter drains (effect, resolution)
    Cap,       \* capacity of each lane
    Closer, None

Deadline == "deadline"
Store == "store"
AllLanes == Lanes \cup {Deadline, Store}
Actors == Threads \cup Timers \cup {Closer}

ASSUME ActorsAssumption ==
    /\ Threads \cap Timers = {} /\ Closer \notin Threads \cup Timers
    /\ None \notin Actors
ASSUME LanesAssumption ==
    /\ Closing \subseteq Lanes /\ Deadline \notin Lanes /\ Store \notin Closing
    /\ Cap \in [AllLanes -> Nat \ {0}]
ASSUME CallsAssumption == IsFiniteSet(Calls)

VARIABLES
    call,      \* the calls of the adapter: both of their sides
    free,      \* _slots: what is left of each semaphore
    pending,   \* _pending
    draining,  \* _draining
    shut,      \* _closed of the adapter
    timer,     \* where each deadline is
    admitted,  \* who is inside _runtime_call
    closing,   \* _closing, of the engine and its context
    closed,    \* _closed
    poisoned,  \* _durability_poisoned
    stage,     \* where close is
    lease,     \* "held", "given" up, or "forgotten" by the plane as well
    closeCall  \* the call that close is waiting for

adapter == <<call, free, pending, draining, shut>>
plane == <<admitted, closing, closed, poisoned, stage, lease, closeCall>>
vars == <<call, free, pending, draining, shut, timer, admitted, closing,
          closed, poisoned, stage, lease, closeCall>>

\* caller: "waiting" in portal.call, "leaving" in its finally clause, "giving"
\* between the two halves of release.  task: "queued" for the limiter, "handed"
\* to a thread, "running", "giving", "exited", or "skipped" without having run.
Unused == [by |-> None, lane |-> Store, caller |-> "none", task |-> "none",
           cancelled |-> FALSE, outcome |-> "none"]

CallRecords ==
    [by : Actors \cup {None}, lane : AllLanes,
     caller : {"none", "waiting", "leaving", "giving", "back"},
     task : {"none", "queued", "handed", "running", "giving", "exited", "skipped"},
     cancelled : BOOLEAN, outcome : {"none", "value", "timeout", "stopped"}]

Stages == {"none", "calls", "drain", "lease", "leasing", "redrain", "check", "stop"}

TypeOK ==
    /\ call \in [Calls -> CallRecords]
    /\ free \in [AllLanes -> Nat] /\ pending \in Nat
    /\ draining \in BOOLEAN /\ shut \in BOOLEAN
    /\ timer \in [Timers -> {"off", "armed", "fired", "calling", "dropped", "over"}]
    /\ admitted \subseteq Threads \cup Timers
    /\ closing \in BOOLEAN /\ closed \in BOOLEAN /\ poisoned \in BOOLEAN
    /\ stage \in Stages /\ lease \in {"held", "given", "forgotten"}
    /\ closeCall \in Calls \cup {None}

Init ==
    /\ call = [c \in Calls |-> Unused]
    /\ free = Cap /\ pending = 0 /\ draining = FALSE /\ shut = FALSE
    /\ timer = [t \in Timers |-> "off"]
    /\ admitted = {} /\ closing = FALSE /\ closed = FALSE /\ poisoned = FALSE
    /\ stage = "none" /\ lease = "held" /\ closeCall = None

-----------------------------------------------------------------------------
(* One call of the adapter                                                 *)

\* The actor is inside a call of the adapter.
InCall(a) ==
    \E c \in Calls : call[c].by = a /\ call[c].caller \in {"waiting", "leaving", "giving"}

\* LocalExecutionAdapter.call, its guards
Admits(l) == ~shut /\ ~(draining /\ l \in Closing) /\ free[l] > 0

\* ... and its admission
Submit(a, c, l) ==
    /\ call[c] = Unused /\ Admits(l)
    /\ call' = [call EXCEPT ![c] = [Unused EXCEPT !.by = a, !.lane = l,
                                        !.caller = "waiting", !.task = "queued"]]
    /\ free' = [free EXCEPT ![l] = @ - 1]
    /\ pending' = pending + 1
    /\ UNCHANGED <<draining, shut>>

\* The limiter's tokens are returned when the caller stops waiting, also when
\* the thread goes on.
Tokens(l) == Cardinality({c \in Calls : /\ call[c].lane = l
                                        /\ call[c].caller = "waiting"
                                        /\ call[c].task # "queued"})

Hand(c) ==
    /\ call[c].task = "queued" /\ call[c].caller = "waiting"
    /\ Tokens(call[c].lane) < Cap[call[c].lane]
    /\ call' = [call EXCEPT ![c].task = "handed"]
    /\ UNCHANGED <<free, pending, draining, shut, timer, plane>>

\* _CallSlot.invoke.  The thread pool skips a job whose caller was cancelled
\* before the thread looked.
Start(c) ==
    /\ call[c].task = "handed"
    /\ \/ ~call[c].cancelled /\ call' = [call EXCEPT ![c].task = "running"]
       \/ /\ call[c].cancelled \/ call[c].caller # "waiting"
          /\ call' = [call EXCEPT ![c].task = "skipped"]
    /\ UNCHANGED <<free, pending, draining, shut, timer, plane>>

\* What the closer calls is lease.close; a deadline callback leaves the plane.
CallbackDone(c) ==
    /\ lease' = IF call[c].by = Closer /\ lease = "held" THEN "given" ELSE lease
    /\ admitted' = IF call[c].by \in Timers THEN admitted \ {call[c].by} ELSE admitted

\* The callback returns or raises: the semaphore first, then the count.
Exit(c) ==
    /\ call[c].task = "running"
    /\ call' = [call EXCEPT ![c].task = "giving"]
    /\ free' = [free EXCEPT ![call[c].lane] = @ + 1]
    /\ CallbackDone(c)
    /\ UNCHANGED <<pending, draining, shut, timer, closing, closed, poisoned, stage,
                   closeCall>>

CountExit(c) ==
    /\ call[c].task = "giving"
    /\ call' = [call EXCEPT ![c].task = "exited"]
    /\ pending' = pending - 1
    /\ UNCHANGED <<free, draining, shut, timer, plane>>

Deliver(c) ==
    /\ call[c].task = "exited" /\ call[c].caller = "waiting"
    /\ call' = [call EXCEPT ![c].caller = "leaving", ![c].outcome = "value"]
    /\ UNCHANGED <<free, pending, draining, shut, timer, plane>>

\* The caller is let go without a result.
LetGo(c, why) ==
    [call[c] EXCEPT !.caller = "leaving", !.outcome = why,
                    !.task = IF @ = "queued" THEN "skipped" ELSE @]

\* fail_after: the budget ends
Expire(c) ==
    /\ call[c].caller = "waiting"
    /\ call' = [call EXCEPT ![c] = LetGo(c, "timeout")]
    /\ UNCHANGED <<free, pending, draining, shut, timer, plane>>

Started(c) == call[c].task \in {"running", "giving", "exited"}

\* Mutant: a started callback is abandoned too.
AbandonStarted(c) ==
    /\ call[c].caller = "leaving"
    /\ call' = [call EXCEPT ![c].caller = "giving", ![c].cancelled = TRUE]
    /\ free' = [free EXCEPT ![call[c].lane] = @ + 1]
    /\ UNCHANGED <<pending, draining, shut, timer, plane>>

\* abandon_unstarted
Abandon(c) ==
    /\ call[c].caller = "leaving"
    /\ \/ Started(c) /\ call' = [call EXCEPT ![c].caller = "back"] /\ UNCHANGED free
       \/ /\ ~Started(c)
          /\ call' = [call EXCEPT ![c].caller = "giving", ![c].cancelled = TRUE]
          /\ free' = [free EXCEPT ![call[c].lane] = @ + 1]
    /\ UNCHANGED <<pending, draining, shut, timer, plane>>

CountAbandoned(c) ==
    /\ call[c].caller = "giving"
    /\ call' = [call EXCEPT ![c].caller = "back"]
    /\ pending' = pending - 1
    /\ UNCHANGED <<free, draining, shut, timer, plane>>

-----------------------------------------------------------------------------
(* Calls of the plane, and deadlines                                       *)

\* _runtime_call
PlaneAdmits == ~poisoned /\ ~closed /\ ~closing

EnterPlane(a) ==
    /\ PlaneAdmits /\ a \notin admitted
    /\ admitted' = admitted \cup {a}
    /\ UNCHANGED <<adapter, timer, closing, closed, poisoned, stage, lease,
                   closeCall>>

ThreadCalls(a, c, l) ==
    /\ a \in admitted /\ ~InCall(a)
    /\ Submit(a, c, l)
    /\ UNCHANGED <<timer, plane>>

LeavePlane(a) ==
    /\ a \in admitted /\ ~InCall(a)
    /\ admitted' = admitted \ {a}
    /\ UNCHANGED <<adapter, timer, closing, closed, poisoned, stage, lease,
                   closeCall>>

\* arm_deadline, from inside a call of the plane
Arm(t) ==
    /\ \E a \in admitted : ~InCall(a)
    /\ timer[t] = "off" /\ ~shut /\ ~draining
    /\ timer' = [timer EXCEPT ![t] = "armed"]
    /\ UNCHANGED <<adapter, plane>>

\* cancel_deadline.  A timer that fired is cancelled, its thread goes on.
Disarm(t) ==
    /\ \E a \in admitted : ~InCall(a)
    /\ timer[t] \in {"armed", "fired"}
    /\ timer' = [timer EXCEPT ![t] = IF @ = "armed" THEN "over" ELSE "dropped"]
    /\ UNCHANGED <<adapter, plane>>

\* _deadline: the time is up, a thread is on its way into the adapter
Fire(t) ==
    /\ timer[t] = "armed"
    /\ timer' = [timer EXCEPT ![t] = "fired"]
    /\ UNCHANGED <<adapter, plane>>

\* failure_handler, unless the timer was cancelled meanwhile
TimerFails(t) ==
    /\ timer' = [timer EXCEPT ![t] = "over"]
    /\ poisoned' = (poisoned \/ timer[t] # "dropped")
    /\ UNCHANGED <<admitted, closing, closed, stage, lease, closeCall>>

TimerCalls(t, c) ==
    /\ timer[t] \in {"fired", "dropped"} /\ ~InCall(t)
    /\ \A d \in Calls : call[d].by # t
    /\ Submit(t, c, Deadline)
    /\ UNCHANGED <<timer, plane>>

TimerRefused(t) ==
    /\ timer[t] \in {"fired", "dropped"} /\ ~InCall(t)
    /\ \A d \in Calls : call[d].by # t
    /\ ~Admits(Deadline)
    /\ TimerFails(t)
    /\ UNCHANGED adapter

\* The callback is _expire_backend_invocation, a call of the plane itself.
CallbackEnters(c) ==
    /\ call[c].by \in Timers /\ call[c].task = "running"
    /\ EnterPlane(call[c].by)

TimerEnds(t) ==
    /\ timer[t] \in {"fired", "dropped"}
    /\ \E c \in Calls : call[c].by = t /\ call[c].caller = "back"
    /\ \/ TimerFails(t)
       \/ /\ \E c \in Calls : call[c].by = t /\ call[c].outcome = "value"
          /\ timer' = [timer EXCEPT ![t] = "over"]
          /\ UNCHANGED plane
    /\ UNCHANGED adapter

-----------------------------------------------------------------------------
(* Close                                                                   *)

\* _begin_runtime_close.  A second closer waits for the first one's flag.
BeginClose ==
    /\ stage = "none" /\ ~closed
    /\ closing' = TRUE /\ stage' = "calls"
    /\ UNCHANGED <<adapter, timer, admitted, closed, poisoned, lease, closeCall>>

\* drain, up to its wait: the flag, and every timer is cancelled.  (Nobody
\* drains a closed adapter: a closed runtime is not closed again.)
StartDrain ==
    /\ draining' = TRUE
    /\ timer' = [t \in Timers |-> CASE timer[t] = "armed" -> "over"
                                   [] timer[t] = "fired" -> "dropped"
                                   [] OTHER -> timer[t]]

\* _drain_runtime_calls
CallsAwaited ==
    /\ stage = "calls" /\ admitted = {}
    /\ StartDrain
    /\ stage' = "drain"
    /\ UNCHANGED <<call, free, pending, shut, admitted, closing, closed, poisoned,
                   lease, closeCall>>

\* The end of drain's wait.
Drained == pending = 0

FirstDrain ==
    /\ stage = "drain" /\ Drained
    /\ stage' = "lease"
    /\ UNCHANGED <<adapter, timer, admitted, closing, closed, poisoned, lease,
                   closeCall>>

\* _close_runtime_lease: lease.close runs in the store lane.
CallLeaseClose(c) ==
    /\ stage = "lease" /\ lease # "forgotten"
    /\ Submit(Closer, c, Store)
    /\ stage' = "leasing" /\ closeCall' = c
    /\ UNCHANGED <<timer, admitted, closing, closed, poisoned, lease>>

\* The call returned, or an earlier attempt has closed the lease already:
\* adapter.close begins, with another drain.
LeaseClosed ==
    /\ \/ stage = "lease" /\ lease = "forgotten"
       \/ /\ stage = "leasing" /\ call[closeCall].caller = "back"
          /\ call[closeCall].outcome = "value"
    /\ StartDrain
    /\ stage' = "redrain" /\ lease' = "forgotten" /\ closeCall' = None
    /\ UNCHANGED <<call, free, pending, shut, admitted, closing, closed, poisoned>>

SecondDrain ==
    /\ stage = "redrain" /\ Drained
    /\ stage' = "check"
    /\ UNCHANGED <<adapter, timer, admitted, closing, closed, poisoned, lease,
                   closeCall>>

\* Mutant: what came in since the drain is not looked at.
CloseAdapterUnchecked ==
    /\ stage = "check"
    /\ shut' = TRUE /\ stage' = "stop"
    /\ UNCHANGED <<call, free, pending, draining, timer, admitted, closing, closed,
                   poisoned, lease, closeCall>>

\* LocalExecutionAdapter.close, after its drain
CloseAdapter ==
    /\ stage = "check" /\ pending = 0
    /\ shut' = TRUE /\ stage' = "stop"
    /\ UNCHANGED <<call, free, pending, draining, timer, admitted, closing, closed,
                   poisoned, lease, closeCall>>

\* _stop_portal cancels what still runs in the portal.  Then _finish_close.
StopPortal ==
    /\ stage = "stop"
    /\ call' = [c \in Calls |-> IF call[c].caller = "waiting"
                                THEN LetGo(c, "stopped") ELSE call[c]]
    /\ stage' = "none" /\ closed' = TRUE /\ closing' = FALSE
    /\ UNCHANGED <<free, pending, draining, shut, timer, admitted, poisoned, lease,
                   closeCall>>

\* Mutant: the wait for the admitted calls has no budget.
AbortCloseUnbounded ==
    /\ \/ stage \in {"drain", "lease", "redrain"}
       \/ stage = "leasing" /\ call[closeCall].caller = "back"
       \/ stage = "check" /\ pending > 0
    /\ poisoned' = (poisoned \/ stage # "drain")
    /\ closing' = FALSE /\ stage' = "none" /\ closeCall' = None
    /\ UNCHANGED <<adapter, timer, admitted, closed, lease>>

\* A budget of close ends, or one of its calls raises: _abort_close.  Once
\* the close of the store has begun the plane is not usable again.
AbortClose ==
    /\ \/ stage \in {"calls", "drain", "lease", "redrain"}
       \/ stage = "leasing" /\ call[closeCall].caller = "back"
       \/ stage = "check" /\ pending > 0
    /\ poisoned' = (poisoned \/ stage \notin {"calls", "drain"})
    /\ closing' = FALSE /\ stage' = "none" /\ closeCall' = None
    /\ UNCHANGED <<adapter, timer, admitted, closed, lease>>

-----------------------------------------------------------------------------

CallStep(c) ==
    \/ Hand(c) \/ Start(c) \/ CountExit(c) \/ Deliver(c) \/ Expire(c)
    \/ Abandon(c) \/ CountAbandoned(c)

CloseStep ==
    \/ CallsAwaited \/ FirstDrain \/ (\E c \in Calls : CallLeaseClose(c))
    \/ LeaseClosed \/ SecondDrain \/ CloseAdapter \/ StopPortal \/ AbortClose

Next ==
    \/ \E c \in Calls : CallStep(c) \/ Exit(c) \/ CallbackEnters(c)
    \/ \E a \in Threads :
          \/ EnterPlane(a) \/ LeavePlane(a)
          \/ \E c \in Calls, l \in Lanes : ThreadCalls(a, c, l)
    \/ \E t \in Timers :
          \/ Arm(t) \/ Disarm(t) \/ Fire(t) \/ TimerRefused(t) \/ TimerEnds(t)
          \/ \E c \in Calls : TimerCalls(t, c)
    \/ BeginClose \/ CloseStep

Spec == Init /\ [][Next]_vars

\* The portal, the workers and the budgets go on; a callback need not end.
FairSpec ==
    /\ Spec
    /\ \A c \in Calls : WF_vars(CallStep(c))
    /\ WF_vars(CloseStep)

-----------------------------------------------------------------------------
(* Properties                                                              *)

\* The slot of a call is taken, or its place in the pending count.
HoldsSlot(c) ==
    /\ call[c].caller \in {"waiting", "leaving", "back"} /\ ~call[c].cancelled
    /\ call[c].task \notin {"giving", "exited"}

HoldsPlace(c) == HoldsSlot(c) \/ call[c].task = "giving" \/ call[c].caller = "giving"

\* Whichever side a call ends on, and however its timeout races the start of
\* its callback, slot and count are given back exactly once: a second release
\* would raise from the bounded semaphore, a missing one would block the lane.
\* And "repeated timeouts cannot create an unbounded worker population": no more
\* callbacks of a lane run than it has slots, abandoned ones included.
SlotsAccounted ==
    /\ \A l \in AllLanes :
          free[l] + Cardinality({c \in Calls : call[c].lane = l /\ HoldsSlot(c)})
             = Cap[l]
    /\ pending = Cardinality({c \in Calls : HoldsPlace(c)})
    /\ \A l \in AllLanes :
          Cardinality({c \in Calls : call[c].lane = l /\ call[c].task = "running"})
             <= Cap[l]

\* A runtime reports itself closed, and its portal is stopped, only when no
\* callback is running or can still start; and stopping the portal takes no
\* result away from a call of the plane or from close itself, although a
\* callback is not pending any more before its result is delivered.
ShutIsQuiet ==
    /\ shut => \A c \in Calls :
           /\ call[c].task # "running"
           /\ call[c].task \in {"queued", "handed"} => call[c].cancelled
    /\ \A c \in Calls : call[c].outcome = "stopped" => call[c].by \in Timers

\* "retain ownership until physical callbacks and close settle": once the owner
\* lease is given up nobody is inside the plane and no callback of a thread
\* runs, also when the close that gave it up failed afterwards.
LeaseOutlivesCallbacks ==
    lease # "held" =>
        /\ admitted = {}
        /\ \A c \in Calls : call[c].by \in Threads => call[c].task # "running"

\* Closing leaves nothing behind: neither the portal nor the lease is gone while
\* code of the runtime can still run.
CloseIsQuiet == ShutIsQuiet /\ LeaseOutlivesCallbacks

\* Callers and close wait for callbacks that may never end and for each other:
\* a caller comes back when its budget ends, and close ends, with success or
\* with an error.
WaitsEnd ==
    /\ \A c \in Calls : call[c].caller = "waiting" ~> call[c].caller = "back"
    /\ stage # "none" ~> stage = "none"

=============================================================================
