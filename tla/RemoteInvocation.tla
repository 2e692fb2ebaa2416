-------------------------- MODULE RemoteInvocation --------------------------
(****************************************************************************)
(* A provider operation delivered through an engine (Temporal): the plane   *)
(* claims it, binds and submits a workflow and arms the execution deadline; *)
(* activities of the engine ask the plane for the one-use invocation grant, *)
(* start the provider, observe it and publish what it says; supervisors     *)
(* retain controls that are delivered once; an operator resolves an         *)
(* indeterminate operation from verified evidence of absence.               *)
(*                                                                          *)
(* Every request of an activity may be refused, get lost, lose its reply or *)
(* arrive after its sender gave up; the engine may run any activity again,  *)
(* at any time.  A step of the plane is one supervisory cut (see            *)
(* MutationAuthority); a cut that calls the evidence resolver gives the     *)
(* permit up and is a member of cuts meanwhile.  Failing store calls are    *)
(* the subject of ControlPlane and appear here as Poison and as lost        *)
(* replies only.                                                            *)
(****************************************************************************)
EXTENDS Naturals, FiniteSets

CONSTANTS
    Ops,         \* provider operations on one target and run
    Workers,     \* slots for activities that run at the same time
    Controls,    \* control identities
    ActionOf,    \* the action of each control
    None,
    MaxRuns,     \* bound: activities the engine runs
    MaxFaults    \* bound: replies lost, calls given up, planes poisoned or lost

ASSUME NamesAssumption == None \notin Ops \cup Workers \cup Controls
ASSUME ActionAssumption == ActionOf \in [Controls -> {"cancel", "observe", "reconcile"}]
ASSUME BoundsAssumption == MaxRuns \in Nat /\ MaxFaults \in Nat

VARIABLES
    \* durable
    rec,       \* status and InvocationLedger of each operation
    answer,    \* the reconciliation response retained for a control
    resolved,  \* the operations with a valid reconciliation child
    \* of the plane's process
    up, gen, poisoned,
    armed,     \* _admitted_backend_requests, _execution_deadlines and the timer
    budget,    \* _control_deadlines
    sess,      \* the session that delivers an operation
    cuts,      \* supervisory cuts that are out at the evidence resolver
    \* of the engine and its activities
    out,       \* submissions under way
    engine,    \* the started workflows: operations and controls
    job,       \* what each worker runs
    late,      \* a request whose sender gave up
    \* of the provider
    starts,    \* calls of start_operation
    calls,     \* calls for each control
    world,     \* what became of the effect
    \* bounds
    runs, faults

durable == <<rec, answer, resolved>>
process == <<up, gen, poisoned, armed, budget, sess, cuts>>
outside == <<out, engine, job, late>>
provider == <<starts, calls, world>>
bounds == <<runs, faults>>
vars == <<durable, process, outside, provider, bounds>>

NonTerminal == {"ACCEPTED", "RUNNING"}
Terminal == {"SUCCEEDED", "FAILED", "CANCELLED", "INDETERMINATE"}

\* What a provider answers: an acknowledgement, an outcome (the claim it makes
\* about the effect), a reconciliation, or anything that changes no state.
Acks == {"accepted", "refused"}
Outcomes == {"succeeded", "partial", "absent", "unknown"}
Recons == {"ceased", "quiet"}
Responses == Acks \cup Outcomes \cup Recons \cup {"other"}

\* heard is what the transcript of responses has come to.
Ledgers ==
    [st : {"none"} \cup NonTerminal \cup Terminal, consumed : BOOLEAN,
     reserved : BOOLEAN, gen : Nat, delivery : BOOLEAN,
     heard : {"nothing"} \cup Acks \cup Outcomes,
     controls : SUBSET Controls, delivered : SUBSET Controls]

Unrecorded ==
    [st |-> "none", consumed |-> FALSE, reserved |-> FALSE, gen |-> 0,
     delivery |-> FALSE, heard |-> "nothing", controls |-> {}, delivered |-> {}]

\* claim, publish, wait, deliver and indeterminate are requests to
\* the plane, start and call are calls of the provider.
Jobs ==
    [kind : {"invoke", "observe", "control", "indeterminate"}, op : Ops,
     ctl : Controls \cup {None},
     at : {"claim", "start", "publish", "wait", "deliver", "call", "indeterminate"},
     msg : Responses \cup {None}]

LedgerFits(r) ==
    /\ r.st = "ACCEPTED" => ~r.consumed
    /\ r.st = "RUNNING" => r.consumed
    /\ r.delivered \subseteq r.controls

TypeOK ==
    /\ rec \in [Ops -> Ledgers] /\ \A o \in Ops : LedgerFits(rec[o])
    /\ answer \in [Controls -> Recons \cup {None}]
    /\ resolved \subseteq Ops
    /\ up \in BOOLEAN /\ gen \in Nat /\ poisoned \in BOOLEAN
    /\ armed \subseteq Ops /\ budget \subseteq Controls
    /\ sess \in [op : Ops, at : {"binding", "submit"}, seen : Ledgers] \cup {None}
    /\ cuts \subseteq [op : Ops, msg : Outcomes \cup Recons, ctl : Controls \cup {None}]
    /\ out \subseteq Ops /\ engine \subseteq Ops \cup Controls
    /\ job \in [Workers -> Jobs \cup {None}] /\ late \in Jobs \cup {None}
    /\ starts \in [Ops -> Nat] /\ calls \in [Controls -> Nat]
    /\ world \in [Ops -> {"untouched", "open", "applied", "absent"}]
    /\ runs \in 0 .. MaxRuns /\ faults \in 0 .. MaxFaults

Init ==
    /\ rec = [o \in Ops |-> Unrecorded]
    /\ answer = [c \in Controls |-> None] /\ resolved = {}
    /\ up = TRUE /\ gen = 1 /\ poisoned = FALSE
    /\ armed = {} /\ budget = {} /\ sess = None /\ cuts = {}
    /\ out = {} /\ engine = {} /\ job = [w \in Workers |-> None] /\ late = None
    /\ starts = [o \in Ops |-> 0] /\ calls = [c \in Controls |-> 0]
    /\ world = [o \in Ops |-> "untouched"]
    /\ runs = MaxRuns /\ faults = MaxFaults

-----------------------------------------------------------------------------
(* Settlement                                                              *)

\* _runtime_call
Entry == up /\ ~poisoned

\* Mutant: whoever comes last decides.
SettleAnyway(o, state, release) ==
    /\ rec' = [rec EXCEPT ![o].st = state,
                          ![o].reserved = rec[o].consumed /\ ~release]
    /\ armed' = armed \ {o}

\* commit_settlement: a terminal record is left alone.
Settle(o, state, release) ==
    IF rec[o].st \in NonTerminal /\ rec[o].gen = gen
    THEN /\ rec' = [rec EXCEPT ![o].st = state,
                               ![o].reserved = rec[o].consumed /\ ~release]
         /\ armed' = armed \ {o}
    ELSE UNCHANGED <<rec, armed>>

\* What is settled when nothing is known: by consumption of the grant.
Unknown(o) == IF rec[o].consumed THEN "INDETERMINATE" ELSE "CANCELLED"

-----------------------------------------------------------------------------
(* Claim and delivery                                                      *)

\* supervised_claim_conflicts, with valid_reconciliation_child
Holds(o) == rec[o].reserved /\ o \notin resolved

\* execute_provider_operation up to the external call for the binding
ClaimAccepted(o) ==
    /\ Entry /\ sess = None
    /\ rec[o].st = "none" /\ \A p \in Ops : ~Holds(p)
    /\ \A p \in Ops : rec[p].st = "INDETERMINATE" => p \in resolved
    /\ rec' = [rec EXCEPT ![o] = [Unrecorded EXCEPT
                  !.st = "ACCEPTED", !.reserved = TRUE, !.gen = gen]]
    /\ sess' = [op |-> o, at |-> "binding", seen |-> rec'[o]]
    /\ UNCHANGED <<answer, resolved, up, gen, poisoned, armed, budget,
                   cuts, outside, provider, bounds>>

\* _deliver_provider_invocation: the binding is retained if the record is
\* still the one that was claimed, the deadline armed, the submission sent.
Deliver ==
    /\ sess # None /\ sess.at = "binding"
    /\ rec[sess.op] = sess.seen
    /\ rec' = [rec EXCEPT ![sess.op].delivery = TRUE]
    /\ armed' = armed \cup {sess.op}
    /\ out' = out \cup {sess.op}
    /\ sess' = [sess EXCEPT !.at = "submit"]
    /\ UNCHANGED <<answer, resolved, up, gen, poisoned, budget, cuts,
                   engine, job, late, provider, bounds>>

\* A submission reaches the engine, which starts a workflow once.
SubmitLands(o) ==
    /\ o \in out
    /\ out' = out \ {o} /\ engine' = engine \cup {o}
    /\ UNCHANGED <<durable, process, job, late, provider, bounds>>

SubmitReturns ==
    /\ sess # None /\ sess.at = "submit" /\ sess.op \in engine
    /\ sess' = None
    /\ UNCHANGED <<durable, up, gen, poisoned, armed, budget, cuts,
                   outside, provider, bounds>>

\* Mutant: a delivery that failed has had no effect.
ClassifyFailureCancelled ==
    /\ sess # None
    /\ Settle(sess.op, "CANCELLED", TRUE)
    /\ sess' = None
    /\ UNCHANGED <<answer, resolved, up, gen, poisoned, budget, cuts,
                   outside, provider, bounds>>

\* _classify_provider_failure: the binding, its compare-and-set or the
\* submission failed, or timed out and may still land.
ClassifyFailure ==
    /\ sess # None
    /\ IF poisoned THEN UNCHANGED <<rec, armed>>
                   ELSE Settle(sess.op, Unknown(sess.op), FALSE)
    /\ sess' = None
    /\ UNCHANGED <<answer, resolved, up, gen, poisoned, budget, cuts,
                   outside, provider, bounds>>

\* Mutant: the deadline ends an invocation nobody has claimed, and no other.
ExpireUnclaimed(o) ==
    /\ Entry /\ o \in armed /\ ~rec[o].consumed
    /\ Settle(o, Unknown(o), FALSE)
    /\ UNCHANGED <<answer, resolved, up, gen, poisoned, budget, sess,
                   cuts, outside, provider, bounds>>

\* _expire_backend_invocation
Expire(o) ==
    /\ Entry /\ o \in armed
    /\ Settle(o, Unknown(o), FALSE)
    /\ UNCHANGED <<answer, resolved, up, gen, poisoned, budget, sess,
                   cuts, outside, provider, bounds>>

-----------------------------------------------------------------------------
(* What the plane does with a request of an activity                       *)

\* Mutant: a consumed grant is handed out again.
ClaimableAgain(o) ==
    /\ rec[o].st \in NonTerminal
    /\ o \in armed /\ rec[o].gen = gen

\* _require_claimable_invocation, and the generation of authorize_worker
Claimable(o) ==
    /\ rec[o].st = "ACCEPTED" /\ ~rec[o].consumed
    /\ o \in armed /\ rec[o].gen = gen

Consumed(o) == [rec[o] EXCEPT !.st = "RUNNING", !.consumed = TRUE]

\* claim_backend_invocation with a grant
Grant(o) ==
    /\ Claimable(o)
    /\ rec' = [rec EXCEPT ![o] = Consumed(o)]
    /\ UNCHANGED <<armed, poisoned>>

\* ... the budget or the admission ended while the grant was recorded
GrantTooLate(o) ==
    /\ Claimable(o)
    /\ rec' = [rec EXCEPT ![o] = [Consumed(o) EXCEPT !.st = "INDETERMINATE"]]
    /\ armed' = armed \ {o}
    /\ UNCHANGED poisoned

\* ... the save raised: nobody has the grant, whatever was saved
GrantUnsaved(o) ==
    /\ Claimable(o) /\ faults > 0
    /\ rec' \in {rec, [rec EXCEPT ![o] = Consumed(o)]}
    /\ poisoned' = TRUE /\ faults' = faults - 1
    /\ UNCHANGED armed

\* mark_backend_indeterminate
MarkIndeterminate(o) ==
    /\ Settle(o, Unknown(o), FALSE)
    /\ UNCHANGED <<answer, cuts>>

\* append_response: one acknowledgement, then one outcome, unless repeated;
\* reconciliations and control dispositions always.
Retained(o, m) ==
    \/ m = rec[o].heard
    \/ m \in Acks /\ rec[o].heard = "nothing"
    \/ m \in Outcomes /\ rec[o].heard = "accepted"
    \/ m \in Recons \cup {"other"}

\* publish_backend_response.  An outcome of a running operation goes to the
\* resolver; without the admitted request it would settle at once.
PublishResponse(o, c, m) ==
    LET heard == [rec EXCEPT ![o].heard = IF m \in Acks \cup Outcomes THEN m ELSE @]
        running == rec[o].st = "RUNNING"
    IN  /\ Retained(o, m)
        /\ IF m = "refused" /\ running
           THEN /\ rec' = [heard EXCEPT ![o].st = "INDETERMINATE"]
                /\ armed' = armed \ {o}
           ELSE rec' = heard /\ UNCHANGED armed
        /\ cuts' = IF m \in Outcomes /\ running
                   THEN cuts \cup {[op |-> o, msg |-> m, ctl |-> None]} ELSE cuts
        /\ answer' = IF m \in Recons /\ answer[c] = None
                     THEN [answer EXCEPT ![c] = m] ELSE answer

\* claim_worker_control: once, and within the budget of this process
ControlClaimable(o, c) ==
    c \in rec[o].controls /\ c \notin rec[o].delivered /\ c \in budget

ClaimControl(o, c) ==
    /\ ControlClaimable(o, c)
    /\ rec' = [rec EXCEPT ![o].delivered = @ \cup {c}]
    /\ budget' = budget \ {c}

-----------------------------------------------------------------------------
(* The activities                                                          *)

Requests == {"claim", "publish", "wait", "deliver", "indeterminate"}

Job(kind, o, c, at) == [kind |-> kind, op |-> o, ctl |-> c, at |-> at, msg |-> None]

\* The engine runs an activity, for the first time or again.  _invoke has
\* read the request and checked the provider when it asks for the grant; the
\* observation that _observe records is claimed in the same cut and leaves
\* nothing behind, so the activity begins with its call of the provider.
RunActivity(w) ==
    /\ job[w] = None /\ runs > 0 /\ runs' = runs - 1
    /\ \/ \E o \in engine \cap Ops :
             \/ job' = [job EXCEPT ![w] = Job("invoke", o, None, "claim")]
             \/ job' = [job EXCEPT ![w] = Job("observe", o, None, "call")]
             \/ job' = [job EXCEPT ![w] = Job("indeterminate", o, None, "indeterminate")]
       \/ \E c \in engine \cap Controls, o \in Ops :
             /\ c \in rec[o].controls
             /\ job' = [job EXCEPT ![w] = Job("control", o, c, "deliver")]
    /\ UNCHANGED <<durable, process, out, engine, late, provider, faults>>

\* An activity that fails marks its operation indeterminate, except for a
\* control, and except when that request is the one that failed.
AfterFailure(j) ==
    IF j.kind = "control" \/ j.at = "indeterminate" THEN None
    ELSE [j EXCEPT !.at = "indeterminate", !.msg = None]

\* The plane would do something with the request.
Servable(j) ==
    CASE j.at = "claim"   -> Claimable(j.op)
      [] j.at = "deliver" -> ControlClaimable(j.op, j.ctl)
      [] j.at = "publish" -> Retained(j.op, j.msg)
      [] OTHER            -> j.at # "wait"

\* It refuses the request, or there is no plane to serve it.
Refuse(w) ==
    /\ job[w] # None /\ job[w].at \in Requests
    /\ Entry => ~Servable(job[w]) /\ job[w].at # "wait"
    /\ job' = [job EXCEPT ![w] = AfterFailure(job[w])]
    /\ UNCHANGED <<durable, process, out, engine, late, provider, bounds>>

\* The budget of a call ends; a request may still arrive.
GiveUp(w) ==
    /\ job[w] # None /\ faults > 0 /\ faults' = faults - 1
    /\ job' = [job EXCEPT ![w] = AfterFailure(job[w])]
    /\ late' \in IF late = None /\ job[w].at \in Requests \ {"wait"}
                 THEN {None, job[w]} ELSE {late}
    /\ UNCHANGED <<durable, process, out, engine, provider, runs>>

\* The reply to a request that was served arrives or is lost.
Reply(done, failed) ==
    \/ job' = done /\ UNCHANGED faults
    \/ job' = failed /\ faults > 0 /\ faults' = faults - 1

\* The plane serves a claim of an invocation.
ServeClaim(j, done, failed) ==
    /\ j.at = "claim"
    /\ \/ Grant(j.op) /\ Reply(done, failed)
       \/ GrantTooLate(j.op) /\ job' = failed /\ UNCHANGED faults
       \/ GrantUnsaved(j.op) /\ job' = failed
    /\ UNCHANGED <<answer, resolved, up, gen, budget, sess, cuts, out, engine,
                   provider, runs>>

ServeControl(j, done, failed) ==
    /\ j.at = "deliver"
    /\ ClaimControl(j.op, j.ctl) /\ Reply(done, failed)
    /\ UNCHANGED <<answer, resolved, up, gen, poisoned, armed, sess, cuts, out,
                   engine, provider, runs>>

ServePublish(j, done, failed) ==
    /\ j.at = "publish"
    /\ PublishResponse(j.op, j.ctl, j.msg) /\ Reply(done, failed)
    /\ UNCHANGED <<resolved, up, gen, poisoned, budget, sess, out, engine,
                   provider, runs>>

ServeIndeterminate(j, done) ==
    /\ j.at = "indeterminate"
    /\ MarkIndeterminate(j.op) /\ job' = done
    /\ UNCHANGED <<resolved, up, gen, poisoned, budget, sess, out, engine,
                   provider, bounds>>

\* Where an activity goes on after its request was served.
NextStop(j) ==
    CASE j.at = "claim"   -> [j EXCEPT !.at = "start"]
      [] j.at = "deliver" -> [j EXCEPT !.at = "call"]
      [] j.at = "publish" /\ j.msg \in Outcomes /\ rec[j.op].st = "RUNNING"
                          -> [j EXCEPT !.at = "wait"]
      [] OTHER            -> None

Serve(w) ==
    LET done == [job EXCEPT ![w] = NextStop(job[w])]
        failed == [job EXCEPT ![w] = AfterFailure(job[w])]
    IN  /\ Entry /\ job[w] # None
        /\ \/ ServeClaim(job[w], done, failed)
           \/ ServeControl(job[w], done, failed)
           \/ ServePublish(job[w], done, failed)
           \/ ServeIndeterminate(job[w], done)
        /\ UNCHANGED late

\* The same for a request that nobody waits for.
ServeLate ==
    /\ Entry /\ late # None
    /\ \/ ServeClaim(late, job, job) \/ ServeControl(late, job, job)
       \/ ServePublish(late, job, job) \/ ServeIndeterminate(late, job)
    /\ late' = None

-----------------------------------------------------------------------------
(* The provider and the evidence resolver                                  *)

\* A provider that is called may make sure that there will be no effect.
Ceasing(o) ==
    IF world[o] \in {"untouched", "open"} THEN {world, [world EXCEPT ![o] = "absent"]}
                                         ELSE {world}

Answer(w, m) == job' = [job EXCEPT ![w] = [@ EXCEPT !.at = "publish", !.msg = m]]

\* start_operation.  A provider that has established cessation refuses.
Start(w) ==
    /\ job[w] # None /\ job[w].at = "start"
    /\ starts' = [starts EXCEPT ![job[w].op] = @ + 1]
    /\ \/ /\ world[job[w].op] = "untouched" /\ Answer(w, "accepted")
          /\ world' = [world EXCEPT ![job[w].op] = "open"]
       \/ /\ world' \in Ceasing(job[w].op) /\ Answer(w, "refused")
    /\ UNCHANGED <<durable, process, out, engine, late, calls, bounds>>

\* observe_operation, cancel_operation and reconcile_operation: the provider
\* may say anything.
Call(w) ==
    /\ job[w] # None /\ job[w].at = "call"
    /\ LET c == job[w].ctl
           action == IF c = None THEN "observe" ELSE ActionOf[c]
       IN  /\ calls' = IF c = None THEN calls ELSE [calls EXCEPT ![c] = @ + 1]
           /\ world' \in Ceasing(job[w].op)
           /\ \E m \in (IF action = "observe" THEN Outcomes ELSE {})
                          \cup (IF action = "reconcile" THEN Recons ELSE {"other"}) :
                Answer(w, m)
    /\ UNCHANGED <<durable, process, out, engine, late, starts, bounds>>

\* The effect takes place.
Apply(o) ==
    /\ world[o] = "open" /\ world' = [world EXCEPT ![o] = "applied"]
    /\ UNCHANGED <<durable, process, outside, starts, calls, bounds>>

\* validate_effects establishes what is true: an outcome claims cessation
\* too, a reconciliation may leave it out.
Established(o, m) ==
    CASE m \in {"succeeded", "partial"} -> world[o] = "applied"
      [] m \in {"absent", "ceased"}     -> world[o] = "absent"
      [] m = "quiet"                    -> world[o] # "applied"
      [] OTHER                          -> TRUE

\* The activities that wait for a published outcome get their reply.
Answered(k) ==
    [w \in Workers |->
        IF job[w] # None /\ job[w].at = "wait" /\ job[w].op = k.op /\ job[w].msg = k.msg
        THEN None ELSE job[w]]

\* _settle_worker_outcome after the external call.  The state is the one that
\* the provider proposes: a known effect that is no success has failed or was
\* cancelled.  Evidence that cannot be established, and a result for a snapshot
\* that moved on, leave the operation unknown.
FinishOutcome(k) ==
    /\ k \in cuts /\ k.msg \in Outcomes
    /\ \/ k.msg = "succeeded" /\ Established(k.op, k.msg)
          /\ Settle(k.op, "SUCCEEDED", TRUE)
       \/ k.msg \in {"partial", "absent"} /\ Established(k.op, k.msg)
          /\ \E proposed \in {"FAILED", "CANCELLED"} : Settle(k.op, proposed, TRUE)
       \/ Settle(k.op, "INDETERMINATE", FALSE)
    /\ cuts' = cuts \ {k}
    /\ job' = Answered(k)
    /\ UNCHANGED <<answer, resolved, up, gen, poisoned, budget, sess,
                   out, engine, late, provider, bounds>>

-----------------------------------------------------------------------------
(* Supervision and resolution                                              *)

\* supervise_operation: the control is retained; an operation that was not
\* granted is cancelled at once, a granted one gets a supervision workflow,
\* if the engine can be reached.
Supervise(o, c) ==
    /\ Entry /\ rec[o].st # "none" /\ \A p \in Ops : c \notin rec[p].controls
    /\ budget' = budget \cup {c}
    /\ LET retained == [rec EXCEPT ![o].controls = @ \cup {c}]
       IN  IF ActionOf[c] = "cancel" /\ rec[o].st = "ACCEPTED"
           THEN /\ rec' = [retained EXCEPT ![o].st = "CANCELLED",
                                           ![o].reserved = FALSE]
                /\ armed' = armed \ {o}
           ELSE rec' = retained /\ UNCHANGED armed
    /\ engine' \in IF rec[o].consumed /\ rec[o].reserved
                   THEN {engine, engine \cup {c}} ELSE {engine}
    /\ UNCHANGED <<answer, resolved, up, gen, poisoned, sess, cuts,
                   out, job, late, provider, bounds>>

\* Mutant: absence without cessation resolves.
AbsenceReported(c) == answer[c] \in Recons

\* InvocationReconciliation._absence
Absence(c) == answer[c] = "ceased"

\* resolve_backend_absence up to the resolver
ResolveAbsence(o, c) ==
    /\ Entry /\ c \in rec[o].controls /\ Absence(c)
    /\ rec[o].st = "INDETERMINATE" /\ o \notin resolved
    /\ cuts' = cuts \cup {[op |-> o, msg |-> answer[c], ctl |-> c]}
    /\ UNCHANGED <<durable, up, gen, poisoned, armed, budget, sess,
                   outside, provider, bounds>>

\* ... and after it: verified and the cut unchanged, or refused.
FinishResolve(k) ==
    /\ k \in cuts /\ k.msg \in Recons
    /\ \/ /\ Established(k.op, k.msg)
          /\ rec[k.op].st = "INDETERMINATE" /\ answer[k.ctl] = k.msg
          /\ resolved' = resolved \cup {k.op}
       \/ UNCHANGED resolved
    /\ cuts' = cuts \ {k}
    /\ UNCHANGED <<rec, answer, up, gen, poisoned, armed, budget, sess,
                   outside, provider, bounds>>

-----------------------------------------------------------------------------
(* Loss of the process                                                     *)

\* A store call that could not be read back, a deadline handler that failed,
\* or a cut that could not get its permit back.
Poison ==
    /\ Entry /\ faults > 0
    /\ poisoned' = TRUE /\ faults' = faults - 1
    /\ \/ sess' = None /\ UNCHANGED cuts
       \/ \E k \in cuts : cuts' = cuts \ {k} /\ UNCHANGED sess
       \/ UNCHANGED <<sess, cuts>>
    /\ UNCHANGED <<durable, up, gen, armed, budget, outside, provider,
                   runs>>

\* reconcile_startup_operations
Classify(r) ==
    IF r.st = "ACCEPTED" THEN [r EXCEPT !.st = "CANCELLED", !.reserved = FALSE]
    ELSE IF r.st = "RUNNING" THEN [r EXCEPT !.st = "INDETERMINATE"] ELSE r

\* Whatever the process remembered is gone; submissions under way are lost.
ProcessGone ==
    /\ up' = FALSE /\ poisoned' = FALSE
    /\ armed' = {} /\ budget' = {} /\ sess' = None /\ cuts' = {} /\ out' = {}

Crash ==
    /\ up /\ faults > 0 /\ faults' = faults - 1
    /\ ProcessGone
    /\ UNCHANGED <<durable, gen, engine, job, late, provider, runs>>

\* _settle_shutdown_invocations, when the calls of the runtime have drained
Shutdown ==
    /\ Entry /\ sess = None /\ cuts = {} /\ faults > 0 /\ faults' = faults - 1
    /\ rec' = [o \in Ops |-> Classify(rec[o])]
    /\ ProcessGone
    /\ UNCHANGED <<answer, resolved, gen, engine, job, late, provider,
                   runs>>

Restart ==
    /\ ~up /\ up' = TRUE /\ gen' = gen + 1
    /\ rec' = [o \in Ops |-> Classify(rec[o])]
    /\ UNCHANGED <<answer, resolved, poisoned, armed, budget, sess,
                   cuts, outside, provider, bounds>>

-----------------------------------------------------------------------------

PlaneStep ==
    \/ \E o \in Ops : ClaimAccepted(o) \/ Expire(o)
    \/ Deliver \/ SubmitReturns \/ ClassifyFailure
    \/ \E k \in cuts : FinishOutcome(k) \/ FinishResolve(k)
    \/ \E o \in Ops, c \in Controls : Supervise(o, c) \/ ResolveAbsence(o, c)
    \/ Poison \/ Crash \/ Shutdown \/ Restart

ActivityStep ==
    \/ \E w \in Workers :
          RunActivity(w) \/ Serve(w) \/ Refuse(w) \/ GiveUp(w)
             \/ Start(w) \/ Call(w)
    \/ ServeLate

OutsideStep == \E o \in Ops : SubmitLands(o) \/ Apply(o)

Next == PlaneStep \/ ActivityStep \/ OutsideStep

Spec == Init /\ [][Next]_vars

\* Every call of the session has a budget, the deadline timer fires, and a
\* lost process is started again.  Nothing is assumed of engine and provider.
FairSpec ==
    /\ Spec
    /\ WF_vars(ClassifyFailure)
    /\ \A o \in Ops : WF_vars(Expire(o))
    /\ WF_vars(Restart)

-----------------------------------------------------------------------------
(* Properties                                                              *)

\* start_operation is called at most once for an operation, and a control
\* identity reaches the provider at most once, however often the engine
\* delivers them, replies get lost, claims arrive late, or the plane restarts.
DeliveredOnce ==
    /\ \A o \in Ops : starts[o] <= 1
    /\ \A c \in Controls : calls[c] <= 1

\* Terminal records are true: a success took place, after a failure nothing is
\* left to happen, and neither is after a cancellation: the provider was never
\* started nor can be, or it had the grant and the effect is known to have
\* ceased.  The deadline, a late outcome, a cancellation and a failed delivery
\* race here.
TerminalIsTrue ==
    \A o \in Ops :
        /\ rec[o].st = "SUCCEEDED" => world[o] = "applied"
        /\ rec[o].st = "FAILED" => world[o] \in {"applied", "absent"}
        /\ rec[o].st = "CANCELLED" /\ rec[o].consumed => world[o] \in {"applied", "absent"}
        /\ rec[o].st = "CANCELLED" /\ ~rec[o].consumed => starts[o] = 0

\* The first terminal record stands: no outcome, expiry, cancellation or
\* activity that comes later rewrites it, and a consumed grant stays consumed.
FirstVerdictStands ==
    [][\A o \in Ops :
          /\ rec[o].st \in Terminal => rec'[o].st = rec[o].st
          /\ rec[o].consumed => rec'[o].consumed]_vars

Target ==
    INSTANCE ExclusiveTarget
        WITH Clients <- Ops, Nobody <- None,
             holder <- IF \E o \in Ops : Holds(o) THEN CHOOSE o \in Ops : Holds(o)
                       ELSE None,
             loose <- {o \in Ops : world[o] = "open"}

\* The reservation in the ledger is a lock on the target: an effect begins
\* only under it, and it is given up (by settlement, cancellation, recovery or
\* resolution) only when the effect can no longer happen.
ImplementsTarget == Target!TargetSpec

\* Every recorded operation is settled, or the plane asks for its restart.
EverySettles ==
    \A o \in Ops :
        rec[o].st \in NonTerminal ~> rec[o].st \in Terminal \/ poisoned

=============================================================================
