----------------------------- MODULE TrialUnit -----------------------------
(****************************************************************************)
(* One entry of an experiment that this engine runs itself: RuntimeTrialUnit *)
(* driven by RuntimeExperiment.advance.  A call takes the trial as far as it *)
(* goes: configure, one application phase, observe, capture, destroy,        *)
(* cleanup, the terminal decision, and then another attempt or retirement.   *)
(*                                                                          *)
(* Every step is a native operation under a key of its own (ControlPlane    *)
(* shows how one settles), and everything a call knows about earlier calls  *)
(* it reads from the decisions and records of the ledger.  Each durable     *)
(* write is a step of this module, so the process may be lost between any   *)
(* two.  The experiment lock admits one advance at a time; cancel and the   *)
(* supervisory stop do not take it.  A granted native operation that came   *)
(* to nothing known keeps its reservation: no resolution discharges it, and *)
(* it stays indeterminate.                                                  *)
(****************************************************************************)
EXTENDS Naturals, Sequences, FiniteSetsExt

CONSTANTS
    MaxAttempts,   \* retry_policy.max_attempts
    Phases,        \* how many application phases a plan has
    Domains,       \* how many domains destroy walks through
    Vacuous,       \* steps for which nothing is installed or planned
    Policies,      \* after_effect_policy, chosen when the plan is admitted
    Abort,         \* causes of interruption whose disposition is "abort"
    None,
    MaxFaults      \* bound: outcomes lost, budgets and deadlines that end,
                   \* cancellation, stop of admission, loss of the process

Configure == <<"configure", 0>>
Stop == <<"stop", 0>>
Capture == <<"capture", 0>>
Cleanup == <<"cleanup", 0>>
Retry == <<"retry", 0>>
Application == [i \in 1..Phases |-> <<"apply", i>>]
Teardown == [i \in 1..Domains |-> <<"destroy", i>>]

\* The steps that bring the trial up, and those that take it down.
Opening == <<Configure>> \o Application
Closing == Teardown \o <<Cleanup>>

ASSUME SizesAssumption == MaxAttempts \in Nat \ {0} /\ Phases \in Nat /\ Domains \in Nat
ASSUME VacuousAssumption == Vacuous \subseteq Range(Application) \cup Range(Teardown)
ASSUME PoliciesAssumption == Policies \subseteq {"prohibited", "idempotent", "reset"}   \* or compensate
ASSUME AbortAssumption == Abort \subseteq {"cancellation", "timeout"}
ASSUME BoundsAssumption == MaxFaults \in Nat

Executions == [state : {"succeeded", "failed", "cancelled", "aborted", "timed-out"},
               absent : BOOLEAN]

ASSUME NamesAssumption ==
    None \notin Executions \cup {"accepted", "running", "succeeded", "failed", "cancelled",
                                "indeterminate", "ended", "cancellation", "timeout",
                                "aborted", "timed-out", "good", "idempotent", "bad",
                                "reusable", "not-reusable"}

Attempts == 1..MaxAttempts
Modules == {Configure, Capture, Cleanup, Retry}
Steps == Modules \cup {Stop} \cup Range(Application) \cup Range(Teardown)

VARIABLES
    attempt,      \* the latest TrialAttemptDecision
    started, decided,    \* RunPhaseDecision of each step
    record,       \* the operation under the step's key
    callback,     \* the installed owner's code, in a thread of the adapter
    runs,         \* history: how often the step was handed to its owner
    seen,         \* TrialObservationDecision of the modules
    interrupted,  \* TrialInterruptionDecision
    execution,    \* the execution observation
    terminal,     \* TrialTerminalDecision
    expired,      \* the deadline of the latest attempt has passed
    cancelled,    \* ExperimentCancellationDecision
    stopped,      \* effect admission of the run
    retired,
    call,         \* the advance under way, and what it read when it began
    policy, faults

ledger == <<attempt, started, decided, interrupted, execution, terminal, retired>>
operations == <<record, callback, runs, seen>>
controls == <<expired, cancelled, stopped>>
bounds == <<policy, faults>>
vars == <<ledger, operations, controls, call, bounds>>

Observations ==
    [s \in Modules |-> CASE s \in {Configure, Capture} -> {"good"}
                         [] s = Cleanup -> {"good", "idempotent", "bad"}
                         [] s = Retry -> {"good", "bad"}]
Outcomes == {"succeeded", "failed", "cancelled"}
Idle == [at |-> "idle", step |-> None, cancelled |-> FALSE]

TypeOK ==
    /\ attempt \in 0..MaxAttempts
    /\ started \in [Attempts -> SUBSET Steps]
    /\ decided \in [Attempts -> [Steps -> Outcomes \cup {None}]]
    /\ record \in [Attempts -> [Steps ->
           {None, "accepted", "running", "succeeded", "cancelled", "indeterminate"}]]
    /\ callback \in [Attempts -> [Steps -> {None, "running", "ended"}]]
    /\ runs \in [Attempts -> [Steps -> Nat]]
    /\ \A a \in Attempts : \A s \in Modules : seen[a][s] \in Observations[s] \cup {None}
    /\ interrupted \in [Attempts -> {None, "cancellation", "timeout"}]
    /\ execution \in [Attempts -> Executions \cup {None}]
    /\ terminal \in [Attempts -> {None, "reusable", "not-reusable"}]
    /\ {expired, cancelled, stopped, retired} \subseteq BOOLEAN
    /\ call.at \in {"idle", "unit", "route", "step", "accepted", "running", "observe"}
    /\ policy \in Policies

Init ==
    /\ attempt = 0
    /\ started = [a \in Attempts |-> {}]
    /\ decided = [a \in Attempts |-> [s \in Steps |-> None]]
    /\ record = [a \in Attempts |-> [s \in Steps |-> None]]
    /\ callback = [a \in Attempts |-> [s \in Steps |-> None]]
    /\ runs = [a \in Attempts |-> [s \in Steps |-> 0]]
    /\ seen = [a \in Attempts |-> [s \in Modules |-> None]]
    /\ interrupted = [a \in Attempts |-> None]
    /\ execution = [a \in Attempts |-> None]
    /\ terminal = [a \in Attempts |-> None]
    /\ expired = FALSE /\ cancelled = FALSE /\ stopped = FALSE /\ retired = FALSE
    /\ call = Idle
    /\ policy \in Policies /\ faults = 0

----------------------------------------------------------------------------
(* What a call does next, read off the ledger.                              *)

\* The positions of a sequence of steps that have not succeeded, and the first
\* such step.
Undone(a, steps) == {i \in DOMAIN steps : decided[a][steps[i]] # "succeeded"}
FirstUndone(a, steps) == steps[Min(Undone(a, steps))]

\* What the trial's outcome will be whatever the observer reports.
Forced(a) ==
    IF interrupted[a] # None
    THEN IF interrupted[a] \in Abort THEN "aborted"
         ELSE IF interrupted[a] = "cancellation" THEN "cancelled" ELSE "timed-out"
    ELSE IF Undone(a, Opening) # {} THEN decided[a][FirstUndone(a, Opening)] ELSE None

\* Mutant: a recorded interruption does not keep the phases from going on.
ExecutionStepUninterrupted(a) ==
    IF Undone(a, Opening) # {} /\ decided[a][FirstUndone(a, Opening)] = None
    THEN FirstUndone(a, Opening) ELSE <<"observe", 0>>

ExecutionStep(a) ==
    IF interrupted[a] # None
    THEN IF decided[a][Stop] = None THEN Stop ELSE <<"observe", 0>>
    ELSE IF Undone(a, Opening) # {} /\ decided[a][FirstUndone(a, Opening)] = None
    THEN FirstUndone(a, Opening) ELSE <<"observe", 0>>

\* Mutant: teardown waits for a capture that succeeded.
AfterExecutionStepCaptured(a) ==
    LET steps == <<Capture>> \o Closing
    IN  IF Undone(a, steps) = {} THEN <<"terminal", 0>>
        ELSE IF decided[a][FirstUndone(a, steps)] = None
        THEN FirstUndone(a, steps) ELSE <<"stuck", 0>>

\* Capture is passed whatever became of it; the rest only when it succeeded.
AfterExecutionStep(a) ==
    IF decided[a][Capture] = None THEN Capture
    ELSE IF Undone(a, Closing) = {} THEN <<"terminal", 0>>
    ELSE IF decided[a][FirstUndone(a, Closing)] = None
    THEN FirstUndone(a, Closing) ELSE <<"stuck", 0>>

retry_permission(a) ==
    IF call.cancelled \/ execution[a].state # "failed" \/ a >= MaxAttempts THEN "not-permitted"
    ELSE IF execution[a].absent THEN "ready"
    ELSE IF policy = "idempotent" /\ seen[a][Cleanup] = "idempotent" THEN "ready"
    ELSE IF policy = "reset" THEN "prepare" ELSE "not-permitted"

FinishStep(a) ==
    LET permission == retry_permission(a)
        prepared == decided[a][Retry] = "succeeded" /\ seen[a][Retry] = "good"
    IN  IF terminal[a] # "reusable" THEN <<"stuck", 0>>
        ELSE IF permission = "not-permitted" THEN <<"retire", 0>>
        ELSE IF permission = "ready" \/ prepared THEN <<"again", 0>>
        ELSE IF decided[a][Retry] = None THEN Retry ELSE <<"stuck", 0>>

Todo == IF terminal[attempt] # None THEN FinishStep(attempt)
        ELSE IF execution[attempt] = None THEN ExecutionStep(attempt)
        ELSE AfterExecutionStep(attempt)

Unresolved == {p \in Attempts \X Steps : record[p[1]][p[2]] = "indeterminate"}
Alive == {p \in Attempts \X Steps : callback[p[1]][p[2]] = "running"}

----------------------------------------------------------------------------
(* advance                                                                  *)

Fault == faults < MaxFaults /\ faults' = faults + 1

At(place) == call.at = place
Go(place) == call' = [call EXCEPT !.at = place]
Return == call' = Idle

\* advance_experiment reads the cancellation once, when it begins.
Begin ==
    /\ At("idle") /\ ~retired
    /\ attempt > 0 \/ ~cancelled
    /\ attempt' = IF attempt = 0 THEN 1 ELSE attempt
    /\ call' = [at |-> IF execution[attempt'] = None THEN "unit" ELSE "route",
                step |-> None, cancelled |-> cancelled]
    /\ UNCHANGED <<started, decided, interrupted, execution, terminal, retired,
                   operations, controls, bounds>>

\* The first cause that is seen is claimed, and it stands.
Interruption ==
    /\ At("unit")
    /\ interrupted' = [interrupted EXCEPT ![attempt] =
           IF @ # None THEN @
           ELSE IF call.cancelled THEN "cancellation"
           ELSE IF expired THEN "timeout" ELSE None]
    /\ Go("route")
    /\ UNCHANGED <<attempt, started, decided, execution, terminal, retired,
                   operations, controls, bounds>>

\* advance_step claims "started" before it looks for the step's operation.
StartStep ==
    /\ At("route") /\ Todo \in Steps
    /\ started' = [started EXCEPT ![attempt] = @ \cup {Todo}]
    /\ call' = [call EXCEPT !.at = "step", !.step = Todo]
    /\ UNCHANGED <<attempt, decided, interrupted, execution, terminal, retired,
                   operations, controls, bounds>>

\* Mutant: a step without a terminal decision counts as never dispatched.
UndispatchedUndecided == At("step") /\ decided[attempt][call.step] = None

Undispatched == At("step") /\ record[attempt][call.step] = None

\* The claim of a new operation is refused while any operation of the run is
\* unknown; the refusal leaves the call.
Blocked ==
    /\ Undispatched /\ call.step \notin Vacuous /\ Unresolved # {}
    /\ Return
    /\ UNCHANGED <<ledger, operations, controls, bounds>>

\* The budget of configuration and application ends with the attempt.
OutOfBudget(s) == expired /\ s \in {Configure} \cup Range(Application)

\* Mutant: an unknown operation of the run does not refuse the claim.
AcceptOverUnknown ==
    /\ Undispatched /\ call.step \notin Vacuous
    /\ ~stopped /\ ~OutOfBudget(call.step)
    /\ record' = [record EXCEPT ![attempt][call.step] = "accepted"]
    /\ Go("accepted")
    /\ UNCHANGED <<ledger, callback, runs, seen, controls, bounds>>

Accept ==
    /\ Undispatched /\ call.step \notin Vacuous /\ Unresolved = {}
    /\ ~stopped /\ ~OutOfBudget(call.step)
    /\ record' = [record EXCEPT ![attempt][call.step] = "accepted"]
    /\ Go("accepted")
    /\ UNCHANGED <<ledger, callback, runs, seen, controls, bounds>>

\* The terminal decision of a step; one application phase ends the call.
Decide(outcome) ==
    /\ decided' = [decided EXCEPT ![attempt][call.step] = outcome]
    /\ IF outcome = "succeeded" /\ call.step \in Range(Application)
       THEN Return ELSE call' = [call EXCEPT !.at = "route", !.step = None]
    /\ UNCHANGED <<attempt, started, interrupted, execution, terminal, retired,
                   operations, controls, bounds>>

\* Nothing to dispatch, or a receipt that was rejected: no operation exists.
DecideWithoutOperation ==
    /\ Undispatched
    /\ \/ call.step \in Vacuous /\ Decide("succeeded")
       \/ /\ call.step \notin Vacuous /\ Unresolved = {}
          /\ stopped \/ OutOfBudget(call.step)
          /\ Decide("failed")

\* The record of an earlier call, or of an earlier process, decides the step.
DecideByRecord ==
    /\ At("step") /\ record[attempt][call.step] \in {"succeeded", "cancelled"}
    /\ Decide(record[attempt][call.step])

\* Unknown is a recovery cut: the step stays open.
LeaveUnknown ==
    /\ At("step") /\ record[attempt][call.step] = "indeterminate"
    /\ Return
    /\ UNCHANGED <<ledger, operations, controls, bounds>>

\* The write-ahead grant.  A cancellation may have settled the operation.
Grant ==
    /\ At("accepted") /\ record[attempt][call.step] = "accepted" /\ ~stopped
    /\ record' = [record EXCEPT ![attempt][call.step] = "running"]
    /\ callback' = [callback EXCEPT ![attempt][call.step] = "running"]
    /\ runs' = [runs EXCEPT ![attempt][call.step] = @ + 1]
    /\ Go("running")
    /\ UNCHANGED <<ledger, seen, controls, bounds>>

\* Admission has stopped, it was cancelled, or its budget has ended.
Forgo ==
    /\ At("accepted")
    /\ LET told == stopped \/ record[attempt][call.step] = "cancelled"
       IN  IF told THEN UNCHANGED faults ELSE Fault
    /\ record' = [record EXCEPT ![attempt][call.step] = "cancelled"]
    /\ Go("step")
    /\ UNCHANGED <<ledger, callback, runs, seen, controls, policy>>

Succeed ==
    /\ At("running") /\ callback[attempt][call.step] = "ended"
    /\ record' = [record EXCEPT ![attempt][call.step] = "succeeded"]
    /\ Go("step")
    /\ UNCHANGED <<ledger, callback, runs, seen, controls, bounds>>

\* It failed, raised, or was not back in time and goes on behind our back.
LoseTrack ==
    /\ At("running") /\ Fault
    /\ record' = [record EXCEPT ![attempt][call.step] = "indeterminate"]
    /\ \/ callback' = [callback EXCEPT ![attempt][call.step] = "ended"]
       \/ UNCHANGED callback
    /\ Go("step")
    /\ UNCHANGED <<ledger, runs, seen, controls, policy>>

StartObserving ==
    /\ At("route") /\ Todo = <<"observe", 0>>
    /\ Go("observe")
    /\ UNCHANGED <<ledger, operations, controls, bounds>>

\* The observer fails, or finds the trial still running.
ObserveRunning ==
    /\ At("observe")
    /\ Return
    /\ UNCHANGED <<ledger, operations, controls, bounds>>

ObserveCeased ==
    /\ At("observe")
    /\ \E state \in {"succeeded", "failed", "cancelled", "timed-out", "aborted"},
          absent \in BOOLEAN :
           execution' = [execution EXCEPT ![attempt] =
               [state |-> IF Forced(attempt) # None THEN Forced(attempt) ELSE state,
                absent |-> absent]]
    /\ Return
    /\ UNCHANGED <<attempt, started, decided, interrupted, terminal, retired,
                   operations, controls, bounds>>

RecordTerminal ==
    /\ At("route") /\ Todo = <<"terminal", 0>>
    /\ terminal' = [terminal EXCEPT ![attempt] =
           IF seen[attempt][Cleanup] = "bad" THEN "not-reusable" ELSE "reusable"]
    /\ Return
    /\ UNCHANGED <<attempt, started, decided, interrupted, execution, retired,
                   operations, controls, bounds>>

LeaveStuck ==
    /\ At("route") /\ Todo = <<"stuck", 0>>
    /\ Return
    /\ UNCHANGED <<ledger, operations, controls, bounds>>

NextAttempt ==
    /\ At("route") /\ Todo = <<"again", 0>>
    /\ attempt' = attempt + 1 /\ expired' = FALSE
    /\ Return
    /\ UNCHANGED <<started, decided, interrupted, execution, terminal, retired,
                   operations, cancelled, stopped, bounds>>

\* Mutant: a preparation that was begun for another attempt is not looked at.
require_trial_reuse_terminal == \A a \in 1..attempt : terminal[a] = "reusable"

\* What the engine demands before the target may be used by another run.
require_trial_reuse ==
    \A a \in 1..attempt :
        /\ terminal[a] = "reusable"
        /\ Retry \in started[a] => decided[a][Retry] = "succeeded" /\ seen[a][Retry] = "good"

require_idle_context == Unresolved = {} /\ Alive = {}

Retire ==
    /\ At("route") /\ Todo = <<"retire", 0>>
    /\ retired' = (require_trial_reuse /\ require_idle_context)
    /\ Return
    /\ UNCHANGED <<attempt, started, decided, interrupted, execution, terminal,
                   operations, controls, bounds>>

----------------------------------------------------------------------------
(* The installed owner's code, in its own thread; it may outlive the call.  *)

\* A module claims its observation before it returns.
CallbackObserves(a, s) ==
    /\ callback[a][s] = "running" /\ s \in Modules /\ seen[a][s] = None
    /\ \E o \in Observations[s] : seen' = [seen EXCEPT ![a][s] = o]
    /\ UNCHANGED <<ledger, record, callback, runs, controls, call, bounds>>

CallbackEnds(a, s) ==
    /\ callback[a][s] = "running"
    /\ s \in Modules => seen[a][s] # None \/ record[a][s] # "running"
    /\ callback' = [callback EXCEPT ![a][s] = "ended"]
    /\ UNCHANGED <<ledger, record, runs, seen, controls, call, bounds>>

----------------------------------------------------------------------------
(* Those who do not take the experiment lock, time, and the loss of the     *)
(* process.                                                                 *)

Cancel ==
    /\ ~cancelled /\ cancelled' = TRUE /\ Fault
    /\ UNCHANGED <<ledger, operations, expired, stopped, call, policy>>

\* What cancel does after its decision, and again whenever it is repeated: a
\* native operation is cancelled only while it is not yet granted.
CancelRun ==
    /\ cancelled
    /\ \E a \in Attempts, s \in Steps :
           /\ record[a][s] = "accepted"
           /\ record' = [record EXCEPT ![a][s] = "cancelled"]
    /\ UNCHANGED <<ledger, callback, runs, seen, controls, call, bounds>>

\* The deadline is not read any more once the execution is observed.
Expire ==
    /\ attempt > 0 /\ execution[attempt] = None /\ ~expired
    /\ expired' = TRUE /\ Fault
    /\ UNCHANGED <<ledger, operations, cancelled, stopped, call, policy>>

StopAdmission ==
    /\ ~stopped /\ stopped' = TRUE /\ Fault
    /\ UNCHANGED <<ledger, operations, expired, cancelled, call, policy>>

\* The process is lost; startup recovery classifies what it left.
Restart ==
    /\ Fault
    /\ record' = [a \in Attempts |-> [s \in Steps |->
           CASE record[a][s] = "accepted" -> "cancelled"
             [] record[a][s] = "running" -> "indeterminate"
             [] OTHER -> record[a][s]]]
    /\ callback' = [a \in Attempts |-> [s \in Steps |->
           IF callback[a][s] = "running" THEN "ended" ELSE callback[a][s]]]
    /\ call' = Idle
    /\ UNCHANGED <<ledger, runs, seen, controls, policy>>

CallbackStep(a, s) == CallbackObserves(a, s) \/ CallbackEnds(a, s)

Advance ==
    \/ Begin \/ Interruption \/ StartStep \/ Blocked \/ Accept
    \/ DecideWithoutOperation \/ DecideByRecord \/ LeaveUnknown
    \/ Grant \/ Forgo \/ Succeed \/ LoseTrack
    \/ StartObserving \/ ObserveRunning \/ ObserveCeased
    \/ RecordTerminal \/ LeaveStuck \/ NextAttempt \/ Retire

Next ==
    \/ Advance
    \/ \E a \in Attempts, s \in Steps : CallbackStep(a, s)
    \/ Cancel \/ CancelRun \/ Expire \/ StopAdmission \/ Restart

Spec == Init /\ [][Next]_vars

\* Somebody goes on calling advance, a call that has begun goes on, installed
\* code ends, and an observer that is asked again and again finds the trial
\* ceased at last.
Fairness ==
    /\ WF_vars(Advance)
    /\ WF_vars(\E a \in Attempts, s \in Steps : CallbackStep(a, s))
    /\ SF_vars(ObserveCeased)

FairSpec == Spec /\ Fairness

----------------------------------------------------------------------------
Settled(a) == \A s \in Steps :
    record[a][s] \notin {"accepted", "running", "indeterminate"} /\ callback[a][s] # "running"

\* No step of an attempt is handed to its owner twice, whatever is lost: not
\* when the process ends after "started" is claimed or between the settlement
\* of the operation and the decision of the step, and not when an outcome
\* stays unknown.  (advance_step: a missing acknowledgement never becomes
\* permission for a new operation.)
EffectsOnce == \A a \in Attempts, s \in Steps : runs[a][s] <= 1

\* Nothing is torn down before the trial was seen to have ceased, what was to
\* be captured is decided and neither capture nor application code is still
\* at work; cleanup runs only over a complete teardown; and an attempt gets
\* its terminal decision only when none of its operations is open.
LifecycleOrder ==
    \A a \in Attempts :
        /\ \A s \in Range(Teardown) : runs[a][s] > 0 =>
               /\ execution[a] # None /\ decided[a][Capture] # None
               /\ \A t \in {Configure, Stop, Capture} \cup Range(Application) :
                      callback[a][t] # "running"
        /\ runs[a][Cleanup] > 0 => Undone(a, Teardown) = {}
        /\ terminal[a] # None =>
               \A s \in Steps \ {Retry} : callback[a][s] # "running"
                                          /\ record[a][s] # "indeterminate"

\* Two attempts never overlap: a later one exists only when the earlier one
\* failed by itself, left reusable resources, has nothing open or at work, and
\* has finished any preparation it began.  (retry_permission, _prepare_retry.)
AttemptsDisjoint ==
    \A a \in Attempts : a < attempt =>
        /\ terminal[a] = "reusable"
        /\ execution[a].state = "failed" /\ interrupted[a] = None
        /\ Settled(a)
        /\ Retry \in started[a] => decided[a][Retry] = "succeeded" /\ seen[a][Retry] = "good"

\* A retired run has left the target: every attempt went through teardown and
\* cleanup, no operation is open and no code of the run is at work; and a
\* preparation for another attempt that touched the target was completed, also
\* when the experiment was cancelled while it was under way.
RetiredIsClean ==
    retired => /\ Unresolved = {} /\ Alive = {}
               /\ \A a \in 1..attempt : /\ Undone(a, Closing) = {}
                                        /\ seen[a][Cleanup] \in {"good", "idempotent"}
                                        /\ runs[a][Retry] > 0 => seen[a][Retry] = "good"

\* The target is handed on clean, to the next attempt and to the next run.
HandedOnClean == AttemptsDisjoint /\ RetiredIsClean

\* Once an interruption is recorded the attempt configures and applies nothing
\* more and cannot end as a success or as a failure that could be retried, in
\* this process or after a restart.
InterruptionSticks ==
    [][\A a \in Attempts : interrupted[a] # None =>
           /\ interrupted'[a] = interrupted[a]
           /\ \A s \in {Configure} \cup Range(Application) : runs'[a][s] = runs[a][s]
           /\ execution'[a] # execution[a] =>
                  execution'[a].state \in {"aborted", "cancelled", "timed-out"}]_vars

\* The states in which a person has to look at the target.  An unknown outcome
\* is one: the run takes no further effect and its target remains reserved.
Quarantined(a) ==
    \/ \E s \in Steps : record[a][s] = "indeterminate"
    \/ \E s \in Range(Teardown) \cup {Cleanup} : decided[a][s] \in {"failed", "cancelled"}
    \/ terminal[a] = "not-reusable"
    \/ decided[a][Retry] \in {"failed", "cancelled"} \/ seen[a][Retry] = "bad"
    \/ cancelled /\ Retry \in started[a]

\* A trial that was begun ends: its run is retired or its target is set aside
\* for a person, whatever is refused, cancelled, expires or is lost on the way.
TrialEnds == (attempt > 0) ~> (retired \/ \E a \in Attempts : Quarantined(a))
=============================================================================
