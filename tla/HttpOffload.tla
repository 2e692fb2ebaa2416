---------------------------- MODULE HttpOffload ----------------------------
(****************************************************************************)
(* _ControlPlaneCallExecutor: HTTP requests hand blocking calls to worker   *)
(* threads.  A call of the effect lane runs first as a probe; when it turns *)
(* out to need the mutation authority it ends without effect, its actor     *)
(* waits on the event loop for the reservation and then runs it again.      *)
(*                                                                          *)
(* The condition is never held across an await, so each of its sections is  *)
(* a step.  A worker's end and the resumption of its actor are two steps; a *)
(* caller may leave between any two.  The reservation is the first-in       *)
(* first-out lock that MutationAuthority shows the authority to be;         *)
(* Outsider stands for everyone who uses it without HTTP.                   *)
(****************************************************************************)
EXTENDS Naturals, Sequences, FiniteSets, SequencesExt

CONSTANTS
    Requests,
    LaneOf,       \* the lane of each request
    Capacity,     \* of each lane
    Outsider,
    Nobody,
    MaxCloses,    \* bound: attempts to close
    MaxCancels    \* bound: actors cancelled by the event loop

Lanes == {"effect", "control"}

ASSUME NamesAssumption == Outsider # Nobody /\ {Outsider, Nobody} \cap Requests = {}
ASSUME LanesAssumption == LaneOf \in [Requests -> Lanes] /\ Capacity \in [Lanes -> Nat \ {0}]
ASSUME BoundsAssumption == MaxCloses \in Nat /\ MaxCancels \in Nat

VARIABLES
    caller,      \* of each request: about to start, waiting, or gone
    actor,       \* where the actor task of each request is
    worker,      \* the worker thread of each actor
    active, granted, cancelled,    \* stage
    told,        \* actors that were cancelled and have not seen it
    pending,     \* _pending_lanes
    calls,       \* _active_calls
    owner,       \* of the reservation
    queue,       \* those who wait for it
    early,       \* history: callers that left before the reservation was theirs
    gate,        \* _closing, _closed
    closer,      \* the task in close
    closes, cancels

stages == <<active, granted, cancelled>>
lock == <<owner, queue>>
closing == <<gate, closer, closes>>
httpVars == <<caller, actor, worker, stages, told, pending, calls, lock, early,
              closing, cancels>>

Live == {"created", "probe", "reserve", "run"}

HttpTypeOK ==
    /\ caller \in [Requests -> {"new", "waits", "gone"}]
    /\ actor \in [Requests -> {"none", "done"} \cup Live]
    /\ worker \in [Requests -> {"none", "running", "required", "ended"}]
    /\ {active, granted, cancelled, told, early} \subseteq SUBSET Requests
    /\ pending \in [Lanes -> Nat] /\ calls \in Nat
    /\ owner \in Requests \cup {Outsider, Nobody}
    /\ queue \in Seq(Requests) /\ IsInjective(queue)
    /\ \A r \in Requests :
          actor[r] = "reserve" <=> r \in ToSet(queue) \/ (r = owner /\ r \notin granted)
    /\ gate \in {"open", "closing", "closed"} /\ closer \in {"none", "drains"}
    /\ closes \in 0 .. MaxCloses /\ cancels \in 0 .. MaxCancels

HttpInit ==
    /\ caller = [r \in Requests |-> "new"] /\ actor = [r \in Requests |-> "none"]
    /\ worker = [r \in Requests |-> "none"]
    /\ active = {} /\ granted = {} /\ cancelled = {} /\ told = {} /\ early = {}
    /\ pending = [l \in Lanes |-> 0] /\ calls = 0
    /\ owner = Nobody /\ queue = <<>>
    /\ gate = "open" /\ closer = "none" /\ closes = MaxCloses /\ cancels = MaxCancels

-----------------------------------------------------------------------------
(* The caller                                                              *)

\* _start up to wait_for: refused, or an actor is created
Start(r) ==
    /\ caller[r] = "new"
    /\ IF gate = "open" /\ pending[LaneOf[r]] < Capacity[LaneOf[r]]
       THEN /\ pending' = [pending EXCEPT ![LaneOf[r]] = @ + 1]
            /\ actor' = [actor EXCEPT ![r] = "created"]
            /\ caller' = [caller EXCEPT ![r] = "waits"]
       ELSE /\ caller' = [caller EXCEPT ![r] = "gone"]
            /\ UNCHANGED <<pending, actor>>
    /\ UNCHANGED <<worker, stages, told, calls, lock, early, closing, cancels>>

\* The budget ends or the request is cancelled.
Leave(r) ==
    /\ caller[r] = "waits"
    /\ caller' = [caller EXCEPT ![r] = "gone"]
    /\ cancelled' = cancelled \cup {r}
    /\ told' = IF r \notin active \cup granted THEN told \cup {r} ELSE told
    /\ early' = IF actor[r] = "reserve" \/ (actor[r] = "probe" /\ LaneOf[r] = "effect")
                THEN early \cup {r} ELSE early
    /\ UNCHANGED <<actor, worker, active, granted, pending, calls, lock, closing,
                   cancels>>

-----------------------------------------------------------------------------
(* The actor                                                               *)

\* With the actor its stage goes, and a caller that still waits gets its
\* result or error.
Forgotten(r) ==
    /\ caller' = [caller EXCEPT ![r] = "gone"]
    /\ active' = active \ {r} /\ granted' = granted \ {r}
    /\ cancelled' = cancelled \ {r} /\ told' = told \ {r} /\ early' = early \ {r}

\* The end of _actor, whichever way
Ended(r) ==
    /\ actor' = [actor EXCEPT ![r] = "done"]
    /\ pending' = [pending EXCEPT ![LaneOf[r]] = @ - 1]
    /\ Forgotten(r)

\* _admitted, when the actor was cancelled or close has begun
NotAdmitted(r) ==
    /\ actor[r] = "created" /\ (r \in told \/ gate # "open")
    /\ Ended(r)
    /\ UNCHANGED <<worker, calls, lock, closing, cancels>>

\* _admitted and the first _run_reserved
Admitted(r) ==
    /\ actor[r] = "created" /\ r \notin told /\ gate = "open"
    /\ calls' = calls + 1
    /\ active' = active \cup {r}
    /\ actor' = [actor EXCEPT ![r] = "probe"]
    /\ worker' = [worker EXCEPT ![r] = "running"]
    /\ UNCHANGED <<caller, granted, cancelled, told, pending, lock, early, closing,
                   cancels>>

\* The thread ends: MutationReservationRequired in a probe, or the call is
\* over, with its result or an error.
WorkerEnds(r) ==
    /\ worker[r] = "running"
    /\ \/ worker' = [worker EXCEPT ![r] = "ended"]
       \/ /\ actor[r] = "probe" /\ LaneOf[r] = "effect"
          /\ worker' = [worker EXCEPT ![r] = "required"]
    /\ UNCHANGED <<caller, actor, stages, told, pending, calls, lock, early, closing,
                   cancels>>

\* The actor leaves _admitted and ends.
Finish(r) ==
    /\ calls' = calls - 1
    /\ worker' = [worker EXCEPT ![r] = IF @ = "running" THEN @ ELSE "none"]
    /\ Ended(r)

\* Mutant: a cancelled actor does not wait for its thread.
SettledAtOnce(r) == worker[r] \in {"required", "ended"} \/ (worker[r] = "running" /\ r \in told)

\* _run_reserved, _settle_worker: the actor goes on when its worker is done,
\* also when it was cancelled.
WorkerSettled(r) == worker[r] \in {"required", "ended"}

\* A call without a reservation is over, or the cancellation propagates.
ProbeOver(r) ==
    /\ actor[r] = "probe" /\ WorkerSettled(r) /\ (worker[r] = "ended" \/ r \in told)
    /\ Finish(r)
    /\ UNCHANGED <<lock, closing, cancels>>

\* Mutant: the caller is not looked for.
AbandonedNever(r) == FALSE

Abandoned(r) == r \in cancelled

\* The probe needs the reservation, and nobody waits for the call any more.
ProbeAbandoned(r) ==
    /\ actor[r] = "probe" /\ worker[r] = "required" /\ r \notin told
    /\ Abandoned(r)
    /\ Finish(r)
    /\ UNCHANGED <<lock, closing, cancels>>

\* The worker that runs under the reservation
RunReserved(r) ==
    /\ actor' = [actor EXCEPT ![r] = "run"]
    /\ granted' = granted \cup {r}
    /\ worker' = [worker EXCEPT ![r] = "running"]

\* authority.reserve, at once or in the queue
Reserve(r) ==
    /\ actor[r] = "probe" /\ worker[r] = "required" /\ r \notin told
    /\ ~Abandoned(r)
    /\ active' = active \ {r}
    /\ IF owner = Nobody
       THEN owner' = r /\ RunReserved(r) /\ UNCHANGED queue
       ELSE /\ queue' = Append(queue, r)
            /\ actor' = [actor EXCEPT ![r] = "reserve"]
            /\ worker' = [worker EXCEPT ![r] = "none"]
            /\ UNCHANGED <<owner, granted>>
    /\ UNCHANGED <<caller, cancelled, told, pending, calls, early, closing, cancels>>

\* The actor finds that the reservation is its own.
Granted(r) ==
    /\ actor[r] = "reserve" /\ owner = r /\ r \notin told
    /\ RunReserved(r)
    /\ UNCHANGED <<caller, active, cancelled, told, pending, calls, lock, early,
                   closing, cancels>>

\* The reservation goes to the first in the queue.
HandOver ==
    /\ owner' = IF queue = <<>> THEN Nobody ELSE Head(queue)
    /\ queue' = IF queue = <<>> THEN <<>> ELSE Tail(queue)

\* deque.remove
LeavesQueue(r) ==
    /\ \E i \in DOMAIN queue : queue[i] = r /\ queue' = RemoveAt(queue, i)
    /\ UNCHANGED owner

\* Mutant: a grant that comes together with the cancellation is dropped.
WithdrawnFromQueue(r) == IF owner = r THEN UNCHANGED lock ELSE LeavesQueue(r)

\* reserve gives up the grant it was not told of or the place in the queue.
Withdrawn(r) == IF owner = r THEN HandOver ELSE LeavesQueue(r)

\* The wait for the reservation ends by cancellation or by its own deadline.
ReserveFails(r) ==
    /\ actor[r] = "reserve"
    /\ Withdrawn(r)
    /\ Finish(r)
    /\ UNCHANGED <<closing, cancels>>

\* The call under the reservation is over.
RunOver(r) ==
    /\ actor[r] = "run" /\ WorkerSettled(r)
    /\ HandOver
    /\ Finish(r)
    /\ UNCHANGED <<closing, cancels>>

\* The event loop cancels a task that has begun.
LoopCancels(r) ==
    /\ actor[r] \in {"probe", "reserve", "run"} /\ r \notin told
    /\ cancels > 0 /\ cancels' = cancels - 1
    /\ told' = told \cup {r}
    /\ UNCHANGED <<caller, actor, worker, stages, pending, calls, lock, early, closing>>

-----------------------------------------------------------------------------
(* Others                                                                  *)

OutsiderTakes ==
    /\ owner = Nobody /\ owner' = Outsider
    /\ UNCHANGED <<caller, actor, worker, stages, told, pending, calls, queue, early,
                   closing, cancels>>

OutsiderReleases ==
    /\ owner = Outsider /\ HandOver
    /\ UNCHANGED <<caller, actor, worker, stages, told, pending, calls, early,
                   closing, cancels>>

CloseBegins ==
    /\ gate = "open" /\ closer = "none" /\ closes > 0
    /\ gate' = "closing" /\ closer' = "drains" /\ closes' = closes - 1
    /\ UNCHANGED <<caller, actor, worker, stages, told, pending, calls, lock, early,
                   cancels>>

Drained == calls = 0

CloseDone ==
    /\ closer = "drains" /\ Drained
    /\ gate' = "closed" /\ closer' = "none"
    /\ UNCHANGED <<caller, actor, worker, stages, told, pending, calls, lock, early,
                   closes, cancels>>

\* The drain budget ends; the executor is in use again.
CloseFails ==
    /\ closer = "drains" /\ ~Drained
    /\ gate' = "open" /\ closer' = "none"
    /\ UNCHANGED <<caller, actor, worker, stages, told, pending, calls, lock, early,
                   closes, cancels>>

-----------------------------------------------------------------------------

ActorStep(r) ==
    \/ NotAdmitted(r) \/ Admitted(r) \/ ProbeOver(r) \/ ProbeAbandoned(r)
    \/ Reserve(r) \/ Granted(r) \/ RunOver(r)
    \/ r \in told /\ ReserveFails(r)

HttpNext ==
    \/ \E r \in Requests :
          \/ Start(r) \/ Leave(r) \/ LoopCancels(r)
          \/ ActorStep(r) \/ WorkerEnds(r) \/ ReserveFails(r)
    \/ OutsiderTakes \/ OutsiderReleases
    \/ CloseBegins \/ CloseDone \/ CloseFails

HttpSpec == HttpInit /\ [][HttpNext]_httpVars

\* The event loop runs what is ready, and calls of the control plane end (their
\* waits have budgets).  No caller is assumed to leave, no wait to time out.
HttpFairSpec ==
    /\ HttpSpec
    /\ \A r \in Requests : WF_httpVars(ActorStep(r)) /\ WF_httpVars(WorkerEnds(r))
    /\ WF_httpVars(OutsiderReleases)

-----------------------------------------------------------------------------
(* Properties                                                              *)

InLane(l, S) == {r \in Requests : LaneOf[r] = l /\ r \in S}

\* A lane's count is that of its unfinished actors, whatever became of their
\* callers, so no lane has more threads at work than its capacity, and after
\* close nothing is at work: no thread, no reservation, none waited for.
LanesAccounted ==
    /\ \A l \in Lanes :
           /\ pending[l] = Cardinality(InLane(l, {r \in Requests : actor[r] \in Live}))
           /\ Cardinality(InLane(l, {r \in Requests : worker[r] = "running"})) <= Capacity[l]
    /\ gate = "closed" =>
           /\ \A r \in Requests : worker[r] # "running"
           /\ owner \notin Requests /\ queue = <<>>

\* While a call runs under the reservation it has the reservation: a caller
\* that leaves, a cancelled actor or a failed close do not take it away.
ReservationCoversRun ==
    \A r \in Requests : actor[r] # "probe" /\ worker[r] = "running" => owner = r

\* What the offload holds and what runs agree: slots with threads, and the
\* reservation with the call that runs under it.
OffloadAccounted == LanesAccounted /\ ReservationCoversRun

\* A call whose caller left during the probe or while waiting, even with the
\* grant on its way, is not run under the reservation.
AbandonedIsNotRun == [][\A r \in early : r \notin granted']_httpVars

\* Every call ends and gives its slot back, so no grant is ever lost.
CallsEnd == \A r \in Requests : actor[r] \in Live ~> actor[r] = "done"

=============================================================================
