--------------------------- MODULE ParticipantClock ---------------------------
(****************************************************************************)
(* A shared clock, the participants that act by its ticks, and the thread   *)
(* that drives it.                                                          *)
(*                                                                          *)
(* A time control (advance, pause, resume, jump, reset) is one operation of *)
(* the plane; an advance, a jump or a resume is followed in the same call   *)
(* by a due pass, an operation of its own that lets each participant whose  *)
(* cadence falls on the tick act once, in overlapping batches or one after  *)
(* the other.  The driver waits for the wall time of the next cadence and   *)
(* then issues the same calls; when it ends by an exception it closes the   *)
(* service and the admission of effects under a supervisory cut.            *)
(*                                                                          *)
(* While the code of an operation is out the permit is free (supervision    *)
(* may have it) and every time control and due pass keeps the participant   *)
(* execution lock; controls of the execution service do not take the lock.  *)
(* One clock, one policy of profile v1.                                     *)
(****************************************************************************)
EXTENDS Naturals, Sequences, FiniteSets, FiniteSetsExt, SequencesExt

CONSTANTS
    Participants, \* participant_addresses of the policy, in their order
    Callers,      \* users of the time controls and of the service controls
    Driver, None,
    Cadence,      \* cadence_ticks
    MaxAttempts,  \* max_action_attempts
    MaxInFlight,  \* max_in_flight
    MaxTick, MaxSegment,   \* bounds: what callers ask of the clock
    MaxCalls, MaxFaults    \* bounds: calls of the callers, and mishaps

Roster == ToSet(Participants)

ASSUME RosterAssumption ==   \* the policy names a participant once
    /\ Participants \in Seq(Roster) /\ IsInjective(Participants)
    /\ Driver \notin Callers
ASSUME PolicyAssumption ==
    /\ Cadence \in Nat \ {0} /\ MaxAttempts \in Nat \ {0} /\ MaxInFlight \in Nat \ {0}
    /\ {MaxTick, MaxSegment, MaxCalls, MaxFaults} \subseteq Nat

VARIABLES
    policy,   \* failure_policy = "stop"; whether invocations host tool sessions
    snap,     \* the snapshot: clock, participants, service accepts work
    blocked,  \* an operation is INDETERMINATE, or RUNNING with nobody behind it
    stopped,  \* effect admission is stopped
    sess,     \* the effect session: whose call it is and where it is
    pass,     \* the due pass that runs, perhaps after its caller gave up
    drv,      \* where the driver thread is
    deadline, \* _deadlines: the one of the current key, None without
    sent,     \* history: how often each action was handed to the backend
    calls, faults

vars == <<policy, snap, blocked, stopped, sess, pass, drv, deadline, sent,
          calls, faults>>

Active == {"running", "paused"}
Actions == Roster \X (0..MaxSegment) \X (0..(MaxAttempts - 1))
TimeCalls == {"advance", "pause", "resume", "jump", "reset"}
ServiceCalls == {"open", "close"}
PassCalls == {"start", "due"}

Participant(seg, next) ==
    [life |-> "running", seg |-> seg, next |-> next, tried |-> 0]

States == [life : Active \cup {"completed", "failed"}, seg : 0..MaxSegment,
           next : Nat, tried : 0..MaxAttempts]
Snaps == [clock : [state : Active, seg : 0..MaxSegment, tick : Nat],
          part : [Roster -> States], svc : BOOLEAN]
Sessions == [who : Callers \cup {Driver}, call : TimeCalls \cup ServiceCalls \cup PassCalls,
             n : Nat, at : {"out", "back"}, res : {"none", "ok", "bad", "lost"}]
Passes == [todo : SUBSET Roster, part : [Roster -> States], owned : BOOLEAN,
           serial : BOOLEAN, end : {"none", "ok", "bad", "lost"}]
Deadlines == [key : (0..MaxSegment) \X Nat \X Nat, elapsed : BOOLEAN, crossed : BOOLEAN]

ASSUME NoneAssumption == None \notin Sessions \cup Passes \cup Deadlines

TypeOK ==
    /\ policy \in [stops : BOOLEAN, ports : BOOLEAN]
    /\ snap \in Snaps /\ blocked \in BOOLEAN /\ stopped \in BOOLEAN
    /\ sess \in Sessions \cup {None} /\ pass \in Passes \cup {None}
    /\ drv \in {"off", "poll", "wait", "serve", "busy", "failing", "cut", "failed", "ended"}
    /\ deadline \in Deadlines \cup {None}
    /\ sent \in [Actions -> Nat]

Session(who, call, n) ==
    [who |-> who, call |-> call, n |-> n, at |-> "out", res |-> "none"]

\* A due pass over snapshot s, up to the first dispatch: a service that accepts
\* no work makes it succeed with nothing done, a missed cadence fails it.
\* (_run_due_policy, _due_contexts)
PassOver(s) ==
    LET Due(p) == /\ s.part[p].life = "running" /\ s.part[p].next = s.clock.tick
                  /\ s.part[p].tried < MaxAttempts
        due == {p \in Roster : Due(p)}
        missed == \E p \in Roster : /\ s.part[p].life = "running"
                                    /\ s.part[p].next < s.clock.tick
    IN  [todo |-> due, part |-> s.part, owned |-> TRUE,
         serial |-> Cardinality(due) < 2 \/ MaxInFlight < 2,
         end |-> IF ~s.svc THEN "ok" ELSE IF missed THEN "bad"
                 ELSE IF due = {} THEN "ok" ELSE "none"]

\* The apply of a plan, from its last phase on: the scheduler's state has been
\* initialised on a clock that starts at a cadence, and the first due pass is
\* out.  The driver is started when the apply has succeeded.
Init ==
    /\ policy \in [stops : BOOLEAN, ports : BOOLEAN]
    /\ snap = [clock |-> [state |-> "running", seg |-> 0, tick |-> 0],
               part |-> [p \in Roster |-> Participant(0, 0)], svc |-> TRUE]
    /\ blocked = FALSE /\ stopped = FALSE
    /\ \E c \in Callers : sess = Session(c, "start", 0)
    /\ pass = PassOver(snap)
    /\ drv = "off" /\ deadline = None
    /\ sent = [a \in Actions |-> 0]
    /\ calls = 0 /\ faults = 0

-----------------------------------------------------------------------------
(* What a time control makes of the snapshot                               *)

\* The first cadence boundary that is not before the tick.
FirstDue(tick) == ((tick + Cadence - 1) \div Cadence) * Cadence

Advanced(s, n) == [s EXCEPT !.clock.tick = @ + n]
Jumped(s, n) == [s EXCEPT !.clock.seg = @ + 1, !.clock.tick = n]

\* set_execution_clock_lifecycle: the service follows the clock only while a
\* participant of its policy is active.
FollowClock(s, state) ==
    LET active == {p \in Roster : s.part[p].life \in Active} IN
    [clock |-> [s.clock EXCEPT !.state = state],
     part |-> [p \in Roster |-> IF p \in active THEN [s.part[p] EXCEPT !.life = state]
                                ELSE s.part[p]],
     svc |-> IF active = {} THEN s.svc ELSE state = "running"]

ResetTo(s, tick) ==
    LET seg == s.clock.seg + 1 IN
    [clock |-> [state |-> "running", seg |-> seg, tick |-> tick],
     part |-> [p \in Roster |-> Participant(seg, FirstDue(tick))], svc |-> TRUE]

\* require_participant_autonomous_runtime_snapshot
Agree(s) ==
    \A p \in Roster : /\ s.part[p].seg = s.clock.seg
                      /\ s.part[p].life \in Active => s.part[p].life = s.clock.state

\* The snapshots the call can end with: the coordinator refuses a control that
\* does not fit the state of the clock, the final check one after which the
\* participants disagree with it.  A reset keeps the tick or goes back to 0.
Results(call, n) ==
    LET running == snap.clock.state = "running"
        made == CASE call = "advance" /\ running -> {Advanced(snap, n)}
                  [] call = "pause" /\ running -> {FollowClock(snap, "paused")}
                  [] call = "resume" /\ ~running -> {FollowClock(snap, "running")}
                  [] call = "jump" -> {Jumped(snap, n)}
                  [] call = "reset" -> {ResetTo(snap, t) : t \in {0, snap.clock.tick}}
                  [] OTHER -> {}
    IN  {s \in made : Agree(s)}

\* _participant_execution_clock_preflight: no cadence lies behind the clock or
\* strictly inside the step.
CadenceKept(tick) ==
    tick > snap.clock.tick =>
        \A p \in Roster : snap.part[p].life = "running" =>
            snap.part[p].next \notin (0..(tick - 1)) \ {snap.clock.tick}

-----------------------------------------------------------------------------
(* Calls                                                                   *)

\* Mutant: commit_driver_failure does without the lock.
LockingNever == FALSE

\* Time controls and due passes hold the lock from their claim to their end.
Locking == sess # None /\ sess.call \in TimeCalls \cup {"due"}
PermitFree == drv # "cut"

\* Mutant: an unresolved operation does not close the claim.
AdmittedDespite == ~stopped

\* engine.reserve and the claim refuse nothing.
Admitted == ~stopped /\ ~blocked

Mishap == faults < MaxFaults /\ faults' = faults + 1

BeginPass(who, s) == sess' = Session(who, "due", 0) /\ pass' = PassOver(s)

Submit(c, call, n) ==
    /\ calls < MaxCalls /\ sess = None /\ PermitFree /\ Admitted
    /\ call = "advance" => CadenceKept(snap.clock.tick + n)
    /\ call = "jump" => CadenceKept(n)
    /\ calls' = calls + 1
    /\ sess' = Session(c, call, n)
    /\ UNCHANGED <<policy, snap, blocked, stopped, pass, drv, deadline, sent, faults>>

SubmitDue(c) ==
    /\ calls < MaxCalls /\ sess = None /\ PermitFree /\ Admitted
    /\ calls' = calls + 1
    /\ BeginPass(c, snap)
    /\ UNCHANGED <<policy, snap, blocked, stopped, drv, deadline, sent, faults>>

\* What the callers ask for, within the bounds of the model.
Ask(c) ==
    \/ \E call \in {"pause", "resume"} \cup ServiceCalls : Submit(c, call, 0)
    \/ \E n \in 1..MaxTick : snap.clock.tick + n <= MaxTick /\ Submit(c, "advance", n)
    \/ \E n \in 0..MaxTick : snap.clock.seg < MaxSegment /\ Submit(c, "jump", n)
    \/ snap.clock.seg < MaxSegment /\ Submit(c, "reset", 0)
    \/ SubmitDue(c)

\* The code of a time or service control returns: what it made of the snapshot
\* is only published at the end of the call.
CallReturns ==
    /\ sess # None /\ sess.at = "out" /\ pass = None
    /\ \/ /\ sess.call \in ServiceCalls \/ Results(sess.call, sess.n) # {}
          /\ sess' = [sess EXCEPT !.at = "back", !.res = "ok"]
          /\ UNCHANGED faults
       \/ /\ sess.call \in TimeCalls /\ Results(sess.call, sess.n) = {}
          /\ sess' = [sess EXCEPT !.at = "back", !.res = "lost"]
          /\ UNCHANGED faults
       \/ /\ Mishap   \* it fails, raises, or the reset is aborted
          /\ sess' = [sess EXCEPT !.at = "back", !.res = "lost"]
    /\ UNCHANGED <<policy, snap, blocked, stopped, pass, drv, deadline, sent, calls>>

PassReturns ==
    /\ sess # None /\ sess.at = "out" /\ pass # None /\ pass.owned /\ pass.end # "none"
    /\ sess' = [sess EXCEPT !.at = "back", !.res = pass.end]
    /\ pass' = IF pass.end = "lost" THEN None ELSE pass
    /\ UNCHANGED <<policy, snap, blocked, stopped, drv, deadline, sent, calls, faults>>

\* The budget of the call ends; the thread that runs the pass goes on.
CallTimesOut ==
    /\ sess # None /\ sess.at = "out" /\ Mishap
    /\ sess' = [sess EXCEPT !.at = "back", !.res = "lost"]
    /\ pass' = IF pass = None THEN None ELSE [pass EXCEPT !.owned = FALSE]
    /\ UNCHANGED <<policy, snap, blocked, stopped, drv, deadline, sent, calls>>

-----------------------------------------------------------------------------
(* The due pass                                                            *)

\* An action ends well, fails, or leaves what it did unknown: an answer that
\* breaks the protocol, a conflict of peers, a batch call that raised, was
\* cancelled or gave the wrong number of answers.
Verdicts == {"ok", "fail", "void"}
Stops(v) == v = "void" \/ (v # "ok" /\ policy.stops)

\* _next_action_state
NextActionState(st, v) ==
    [st EXCEPT !.next = @ + Cadence, !.tried = @ + 1,
               !.life = IF Stops(v) THEN "failed"
                        ELSE IF st.tried + 1 >= MaxAttempts THEN "completed" ELSE @]

Action(p) == <<p, pass.part[p].seg, pass.part[p].tried>>

\* _commit_dispatched_concurrent_peers: every peer of the batch is settled,
\* whatever became of the others.
SettlePeers(v) ==
    [p \in Roster |-> IF p \in DOMAIN v THEN NextActionState(pass.part[p], v[p])
                      ELSE pass.part[p]]

Running == pass # None /\ pass.end = "none"

\* Those due are taken in the order of the policy.
Foremost(S) ==
    \A p \in S, q \in pass.todo \ S :
        \E i, j \in DOMAIN Participants : i < j /\ Participants[i] = p /\ Participants[j] = q

\* The participants with the verdicts v leave the list.
Progress(v) ==
    LET rest == pass.todo \ DOMAIN v IN
    [pass EXCEPT !.todo = rest, !.part = SettlePeers(v),
                 !.end = IF \E p \in DOMAIN v : Stops(v[p]) THEN "bad"
                         ELSE IF rest = {} THEN "ok" ELSE "none"]

\* A batch of independent actions, as large as the capacity and the declared
\* interactions let it be.
Batch(v) ==
    LET bad == Cardinality({p \in DOMAIN v : v[p] # "ok"}) IN
    /\ Running /\ ~pass.serial /\ faults + bad <= MaxFaults
    /\ Cardinality(DOMAIN v) \in 2..MaxInFlight /\ Foremost(DOMAIN v)
    /\ faults' = faults + bad
    /\ sent' = [a \in Actions |-> sent[a] + IF \E p \in DOMAIN v : a = Action(p) THEN 1 ELSE 0]
    /\ pass' = Progress(v)
    /\ UNCHANGED <<policy, snap, blocked, stopped, sess, drv, deadline, calls>>

Dispatch(p) == sent' = [sent EXCEPT ![Action(p)] = @ + 1]

\* One action by itself; from there on the pass is serial.  Outside its window
\* an action counts as failed without having been dispatched.
Serial(p, v) ==
    /\ Running /\ Foremost({p})
    /\ \/ v = "ok" /\ Dispatch(p) /\ UNCHANGED faults
       \/ v \in {"fail", "void"} /\ Dispatch(p) /\ Mishap
       \/ v = "expired" /\ Mishap /\ UNCHANGED sent
    /\ pass' = [Progress([q \in {p} |-> v]) EXCEPT !.serial = TRUE]
    /\ UNCHANGED <<policy, snap, blocked, stopped, sess, drv, deadline, calls>>

\* A backend that raises in an action without a tool session takes the result
\* of the whole pass with it; one that is cancelled leaves what was settled
\* before.  A pass can also fail before it dispatches.
Break(end) ==
    /\ Running /\ Mishap
    /\ \/ /\ end \in {"lost", "bad"} /\ ~policy.ports
          /\ \E p \in pass.todo : Foremost({p}) /\ Dispatch(p)
       \/ /\ end = "bad" /\ UNCHANGED sent
    /\ pass' = [pass EXCEPT !.end = end]
    /\ UNCHANGED <<policy, snap, blocked, stopped, sess, drv, deadline, calls>>

\* Nobody waits any more for a pass whose call timed out.
Forget ==
    /\ pass # None /\ ~pass.owned /\ pass.end # "none"
    /\ pass' = None
    /\ UNCHANGED <<policy, snap, blocked, stopped, sess, drv, deadline, sent, calls, faults>>

WorkerStep ==
    \/ /\ Running
       /\ \/ \E S \in SUBSET pass.todo : \E v \in [S -> Verdicts] : Batch(v)
          \/ \E p \in pass.todo, v \in Verdicts \cup {"expired"} : Serial(p, v)
    \/ \E end \in {"lost", "bad"} : Break(end)
    \/ Forget

-----------------------------------------------------------------------------
(* The end of a call                                                       *)

Back == sess # None /\ sess.at = "back" /\ PermitFree

\* What becomes of the driver when the call was its own.
DriverTo(state) == drv' = IF sess.who = Driver THEN state ELSE drv

\* finalize_time_result and _synchronize_participant_clock: the new snapshot is
\* published; after an advance, a jump or a resume the due pass follows as a
\* new operation of the same call, unless admission was stopped meanwhile.
EndTime(s) ==
    /\ Back /\ sess.call \in TimeCalls /\ sess.res = "ok"
    /\ s \in Results(sess.call, sess.n)
    /\ snap' = s
    /\ deadline' = IF sess.call = "pause" /\ deadline # None
                   THEN [deadline EXCEPT !.crossed = TRUE] ELSE deadline
    /\ IF sess.call \notin {"pause", "reset"} /\ ~stopped
       THEN BeginPass(sess.who, s) /\ UNCHANGED drv
       ELSE sess' = None /\ DriverTo("failing") /\ UNCHANGED pass
    /\ UNCHANGED <<policy, blocked, stopped, sent, calls, faults>>

\* The state that the pass settled is published, also when the pass failed.  A
\* first pass that succeeded ends the apply, which starts the driver.
EndDue ==
    /\ Back /\ sess.call \in PassCalls /\ sess.res \in {"ok", "bad"}
    /\ snap' = [snap EXCEPT !.part = pass.part]
    /\ blocked' = (blocked \/ sess.res = "bad")
    /\ IF sess.call = "start" THEN drv' = IF sess.res = "ok" THEN "poll" ELSE "off"
       ELSE DriverTo(IF sess.res = "ok" THEN "poll" ELSE "ended")
    /\ sess' = None /\ pass' = None
    /\ UNCHANGED <<policy, stopped, deadline, sent, calls, faults>>

\* A dispatched operation without a result stays INDETERMINATE.
EndUnknown ==
    /\ Back /\ sess.call \notin ServiceCalls /\ sess.res = "lost"
    /\ blocked' = TRUE
    /\ DriverTo("ended")
    /\ sess' = None
    /\ UNCHANGED <<policy, snap, stopped, pass, deadline, sent, calls, faults>>

\* Mutant: a control of the service is published over a snapshot that moved.
EndServiceUnchecked ==
    /\ Back /\ sess.call \in ServiceCalls
    /\ snap' = [snap EXCEPT !.svc = IF sess.res = "ok" THEN sess.call = "open" ELSE @]
    /\ sess' = None
    /\ UNCHANGED <<policy, blocked, stopped, pass, drv, deadline, sent, calls, faults>>

\* control_participant_execution: it is a participant action, which fails
\* without blocking, but is INDETERMINATE when the snapshot has moved on.
EndService ==
    /\ Back /\ sess.call \in ServiceCalls
    /\ LET moved == drv = "failed" IN
       /\ snap' = [snap EXCEPT !.svc = IF sess.res = "ok" /\ ~moved
                                       THEN sess.call = "open" ELSE @]
       /\ blocked' = (blocked \/ moved)
    /\ sess' = None
    /\ UNCHANGED <<policy, stopped, pass, drv, deadline, sent, calls, faults>>

\* The permit is not given back in time because the cut that has it waits for
\* the lock of this call: the call ends without having published anything.
Lose ==
    /\ Locking /\ sess.at = "back" /\ drv = "cut"
    /\ blocked' = TRUE
    /\ sess' = None
    /\ pass' = IF pass # None /\ pass.owned THEN None ELSE pass
    /\ UNCHANGED <<policy, snap, stopped, drv, deadline, sent, calls, faults>>

-----------------------------------------------------------------------------
(* The driver                                                              *)

\* _next_transition: nothing to do, something due at this tick, or a wait.
Waiting == {p \in Roster : snap.part[p].life = "running"}
Idle == snap.clock.state # "running" \/ Waiting = {}
NextTick == Min({snap.part[p].next : p \in Waiting})
DueNow == ~Idle /\ NextTick <= snap.clock.tick
Key == <<snap.clock.seg, snap.clock.tick, NextTick>>

\* Mutant: every look starts a new interval.
DeadlineAnew == [key |-> Key, elapsed |-> FALSE, crossed |-> FALSE]

\* _rate_transition: the deadline of this key, a new one for another key.
Deadline ==
    IF deadline # None /\ deadline.key = Key THEN deadline
    ELSE [key |-> Key, elapsed |-> FALSE, crossed |-> FALSE]

Ready == ~Idle /\ (DueNow \/ Deadline.elapsed)

\* A look that finds nothing ready prunes the other deadlines.
Look(ready, wait, idle) ==
    \/ Ready /\ drv' = ready /\ UNCHANGED deadline
    \/ ~Ready /\ ~Idle /\ drv' = wait /\ deadline' = Deadline
    \/ Idle /\ drv' = idle /\ deadline' = None

Poll ==
    /\ drv = "poll" /\ sess = None
    /\ Look("serve", "wait", "poll")
    /\ UNCHANGED <<policy, snap, blocked, stopped, sess, pass, sent, calls, faults>>

Elapse ==
    /\ deadline # None /\ ~deadline.elapsed
    /\ deadline' = [deadline EXCEPT !.elapsed = TRUE]
    /\ UNCHANGED <<policy, snap, blocked, stopped, sess, pass, drv, sent, calls, faults>>

Wake ==
    /\ drv = "wait" /\ deadline.elapsed
    /\ drv' = "poll"
    /\ UNCHANGED <<policy, snap, blocked, stopped, sess, pass, deadline, sent, calls, faults>>

\* _service_current_transition looks again under the permit and the lock.  A
\* refused claim raises, and that ends the driver.
Serve ==
    /\ drv = "serve" /\ sess = None
    /\ Look(IF Admitted THEN "busy" ELSE "failing", "poll", "poll")
    /\ IF ~Ready \/ ~Admitted THEN UNCHANGED <<sess, pass>>
       ELSE IF DueNow THEN BeginPass(Driver, snap)
       ELSE /\ sess' = Session(Driver, "advance", NextTick - snap.clock.tick)
            /\ UNCHANGED pass
    /\ UNCHANGED <<policy, snap, blocked, stopped, sent, calls, faults>>

\* The permit does not come within the admission budget while a session is out.
DriverTimesOut ==
    /\ drv \in {"poll", "serve"} /\ sess # None /\ Mishap
    /\ drv' = "failing"
    /\ UNCHANGED <<policy, snap, blocked, stopped, sess, pass, deadline, sent, calls>>

\* commit_driver_failure: first the permit of supervision, then the lock.
Cut ==
    /\ drv = "failing"
    /\ drv' = "cut"
    /\ UNCHANGED <<policy, snap, blocked, stopped, sess, pass, deadline, sent, calls, faults>>

CommitFailure ==
    /\ drv = "cut" /\ ~Locking
    /\ stopped' = TRUE
    /\ snap' = [snap EXCEPT !.svc = FALSE]
    /\ drv' = "failed"
    /\ UNCHANGED <<policy, blocked, sess, pass, deadline, sent, calls, faults>>

StopAdmission ==
    /\ ~stopped /\ PermitFree /\ calls < MaxCalls
    /\ stopped' = TRUE /\ calls' = calls + 1
    /\ UNCHANGED <<policy, snap, blocked, sess, pass, drv, deadline, sent, faults>>

-----------------------------------------------------------------------------
DriverStep == Poll \/ Wake \/ Serve \/ Cut \/ CommitFailure
SessionStep ==
    \/ CallReturns \/ PassReturns
    \/ sess # None /\ \E s \in Results(sess.call, sess.n) : EndTime(s)
    \/ EndDue \/ EndUnknown \/ EndService \/ Lose

Next ==
    \/ DriverStep \/ SessionStep \/ WorkerStep \/ Elapse
    \/ CallTimesOut \/ DriverTimesOut \/ StopAdmission
    \/ \E c \in Callers : Ask(c)

\* The threads go on, wall time passes, and backends return.
Fairness ==
    /\ WF_vars(DriverStep) /\ WF_vars(SessionStep) /\ WF_vars(WorkerStep)
    /\ WF_vars(Elapse)

Spec == Init /\ [][Next]_vars /\ Fairness

-----------------------------------------------------------------------------
(* Properties                                                              *)

\* No action of a participant, named by its segment and its number, is handed
\* to the backend twice, whatever becomes of the pass, of its caller and of
\* the driver; and where the plane knows of no unresolved operation every
\* dispatched action is counted in the state of its participant.
ActionsOnce ==
    \A a \in Actions :
        /\ sent[a] <= 1
        /\ sess = None /\ ~blocked /\ sent[a] = 1 /\ snap.part[a[1]].seg = a[2] =>
               a[3] < snap.part[a[1]].tried

\* An action is dispatched at the coordinate its participant was due at: on the
\* running clock, in its segment, at its tick.  So nothing moves, pauses or
\* resets the clock under a pass, not even under one whose caller gave up; and
\* the service accepted work unless such a pass outlived the plane's trust.
DispatchInTurn ==
    [][\A a \in Actions : sent'[a] > sent[a] =>
           /\ snap.clock.state = "running" /\ snap.clock.seg = a[2]
           /\ snap.part[a[1]].next = snap.clock.tick
           /\ snap.svc \/ blocked]_vars

\* The closure that a failed driver publishes stands: no control of the service
\* or of the clock that was out at the time opens the service again.
PacingLossStands == drv = "failed" => ~snap.svc

\* A participant that is running gets to its end, without anyone advancing the
\* clock, unless it is paused or the service, the admission or an unresolved
\* operation keeps the work back.
DueIsServed ==
    \A p \in Roster :
        snap.part[p].life = "running" ~>
            (snap.part[p].life # "running" \/ ~snap.svc \/ blocked \/ stopped)

-----------------------------------------------------------------------------
(* What the repository says and the code does not do                       *)

\* "reject transitions that would skip a due cadence": the check lets the clock
\* leave a tick at which somebody is due and the service was closed.
CadenceNotSkipped ==
    \A p \in Roster : snap.part[p].life = "running" => snap.part[p].next >= snap.clock.tick

\* "Resuming must start a fresh interval, not reuse that deadline": a pause and
\* a resume within one wait of the driver leave the deadline as it was.
PacingHonoured ==
    [][drv = "serve" /\ drv' = "busy" /\ ~DueNow => ~deadline.crossed]_vars

\* "remains available while effects are uncertain": the cut that records the
\* failure has the permit and waits for the lock, whose holder is back and
\* waits for the permit, until its budget ends and its result is given up.
FailureNotInTheWay == ~(drv = "cut" /\ Locking /\ sess.at = "back")

=============================================================================
