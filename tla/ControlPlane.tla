---------------------------- MODULE ControlPlane ----------------------------
(****************************************************************************)
(* RuntimeControlPlane over one durable store scope: how an operation is    *)
(* claimed, dispatched, invoked, settled, cancelled, recovered and resolved *)
(* when the process may be lost at any point and every store write may be   *)
(* lost, acknowledged badly, or land after its caller gave up on it.        *)
(*                                                                          *)
(* A step is one state cut: what a holder of the permit does between two    *)
(* external calls.  That cuts exclude each other, that one session at a     *)
(* time owns the effect, and that supervisory cuts run during its external  *)
(* calls, is what MutationAuthority establishes.                            *)
(*                                                                          *)
(* The plane's caches (_operations, _snapshot_state) are not variables:     *)
(* every cut below reloads them, and a commit that was not read back        *)
(* poisons the plane.                                                       *)
(****************************************************************************)
EXTENDS Naturals

CONSTANTS
    Native,       \* supervised operations: plans run by the native backend
    Plain,        \* participant actions: no invocation ledger
    Core,         \* composition-phase facts of the runtime itself
    Resolutions,  \* linked resolutions of an indeterminate parent
    KeyOf,        \* the scoped idempotency key of each Native / Plain attempt
    None,
    MaxFaults,    \* bound: store calls that fail in some way
    MaxCrashes    \* bound: process losses

Effects == Native \cup Plain
Ops == Effects \cup Core \cup Resolutions

ASSUME OpsAssumption ==
    /\ Native \cap Plain = {} /\ Effects \cap (Core \cup Resolutions) = {}
    /\ Core \cap Resolutions = {}
    /\ None \notin Ops
ASSUME KeyAssumption == DOMAIN KeyOf = Effects
ASSUME BudgetAssumption == MaxFaults \in Nat /\ MaxCrashes \in Nat

VARIABLES
    \* durable
    rec,           \* ControlPlaneOperationRecord of each operation
    snap,          \* the operations whose result the snapshot contains
    rev,           \* SnapshotState.revision
    storeStopped,  \* the store's effect-admission stop
    storeGen,      \* the store's execution generation
    late,          \* a write whose caller timed out and that may still commit
    \* of the process
    up,            \* "down", "recovering" (constructor), "ready"
    gen,           \* _execution_generation
    poisoned,      \* _durability_poisoned
    stopped,       \* _effect_admission_stopped
    sess,          \* the session that owns the effect, if any
    sup,           \* the supervisory cut between its two writes, if any
    \* of the world outside
    invoked,       \* backend invocations made for each operation
    world,         \* what became of its effect
    \* bounds
    faults, crashes

store == <<rec, snap, rev, late, faults>>
process == <<up, gen, poisoned, stopped, sess, sup>>
outside == <<invoked, world>>
vars == <<rec, snap, rev, storeStopped, storeGen, late, up, gen, poisoned,
          stopped, sess, sup, invoked, world, faults, crashes>>

Lifecycle == INSTANCE OperationLifecycle
                 WITH st <- [o \in Ops |-> rec[o].st]

NonTerminal == {"ACCEPTED", "RUNNING"}
Terminal == {"SUCCEEDED", "FAILED", "CANCELLED", "INDETERMINATE"}

\* consumed, reserved, gen, base and control are the InvocationLedger's.
Records ==
    [st : {"none"} \cup NonTerminal \cup Terminal, consumed : BOOLEAN,
     reserved : BOOLEAN, gen : Nat, base : Nat, control : BOOLEAN,
     parent : Ops \cup {None}]

Unrecorded ==
    [st |-> "none", consumed |-> FALSE, reserved |-> FALSE, gen |-> 0,
     base |-> 0, control |-> FALSE, parent |-> None]

Writes ==
    [kind : {"claim", "save", "control", "terminal"}, op : Ops, to : Records,
     expected : Records, revision : Nat, bearing : BOOLEAN, content : SUBSET Ops]

\* Where a session is: "claimed" and "commit" are inside its cut, the others
\* are external calls, during which supervisory cuts run.
Sessions ==
    [op : Ops, at : {"validate", "granted", "claimed", "call", "commit"},
     view : SUBSET Ops, base : Nat]

\* require_record_invocation: only a native operation has a ledger and waits
\* ACCEPTED, and RUNNING goes with the consumed grant.
LedgerFits(o, r) ==
    /\ r.st = "ACCEPTED" => o \in Native /\ ~r.consumed
    /\ r.st = "RUNNING" /\ o \in Native => r.consumed
    /\ o \notin Native => ~r.consumed /\ ~r.reserved /\ ~r.control

TypeOK ==
    /\ rec \in [Ops -> Records]
    /\ \A o \in Ops : LedgerFits(o, rec[o])
    /\ snap \in SUBSET Ops /\ rev \in Nat
    /\ storeStopped \in BOOLEAN /\ storeGen \in Nat
    /\ late \in Writes \cup {None}
    /\ up \in {"down", "recovering", "ready"}
    /\ gen \in Nat /\ poisoned \in BOOLEAN /\ stopped \in BOOLEAN
    /\ sess \in Sessions \cup {None}
    /\ sup \in [op : Ops, at : {"cancel", "driver"}] \cup {None}
    /\ invoked \in [Ops -> Nat]
    /\ world \in [Ops -> {"untouched", "open", "applied", "absent"}]
    /\ faults \in 0 .. MaxFaults /\ crashes \in 0 .. MaxCrashes

\* The first plane on a fresh store.
Init ==
    /\ rec = [o \in Ops |-> Unrecorded]
    /\ snap = {} /\ rev = 0
    /\ storeStopped = FALSE /\ storeGen = 1 /\ late = None
    /\ up = "ready" /\ gen = 1 /\ poisoned = FALSE /\ stopped = FALSE
    /\ sess = None /\ sup = None
    /\ invoked = [o \in Ops |-> 0]
    /\ world = [o \in Ops |-> "untouched"]
    /\ faults = MaxFaults /\ crashes = MaxCrashes

-----------------------------------------------------------------------------
(* The store                                                               *)

\* Mutant: a retry under a claimed key is a new claim.
KeyFreeAlways(o) == TRUE

\* claim_record returns the incumbent of the key instead of a second claim.
KeyFree(o) ==
    o \in Effects => \A p \in Effects :
                        KeyOf[p] = KeyOf[o] => rec[p].st = "none"

\* supervised_claim_conflicts
Reserved(o) == \E p \in Native \ {o} : rec[p].reserved

\* _require_monotonic_invocation_authority, _require_append_only_...
LedgerKept(from, to) ==
    /\ from.consumed => to.consumed
    /\ from.st # "none" => (to.reserved => from.reserved)
    /\ from.control => to.control

\* Mutant: the expected revision is not compared.
RevisionHoldsAlways(w) == TRUE

\* _require_expected_revision
RevisionHolds(w) == rev = w.revision

StoreAccepts(w) ==
    /\ w.kind = "claim" =>
         KeyFree(w.op) /\ (w.op \in Effects => ~storeStopped /\ ~Reserved(w.op))
    /\ w.kind = "control" => rec[w.op] = w.expected
    /\ w.kind # "control" => Lifecycle!Allowed(rec[w.op].st, w.to.st)
    /\ LedgerKept(rec[w.op], w.to)
    /\ w.kind = "terminal" => RevisionHolds(w)

StoreApply(w) ==
    /\ rec' = [rec EXCEPT ![w.op] = w.to]
    /\ snap' = IF w.bearing THEN w.content ELSE snap
    /\ rev' = IF w.bearing THEN rev + 1 ELSE rev

\* A write of operation o, as the plane issues it now.
Request(kind, o, to) ==
    [kind |-> kind, op |-> o, to |-> to, expected |-> rec[o],
     revision |-> rev, bearing |-> FALSE, content |-> {}]

\* ... that carries a snapshot (TerminalCommitMode.SNAPSHOT_BEARING)
Bearing(o, to, content) ==
    [Request("terminal", o, to) EXCEPT !.bearing = TRUE, !.content = content]

\* ack: confirmed.  lost: committed, the caller sees an error.  drop: not
\* committed, error.  late: the caller's budget ended first.
Outcomes == {"ack", "lost", "drop", "late"}

Write(w, res) ==
    /\ faults' = IF res = "ack" THEN faults ELSE faults - 1
    /\ res # "ack" => faults > 0
    /\ \/ /\ res \in {"ack", "lost"} /\ StoreAccepts(w)
          /\ StoreApply(w)
          /\ UNCHANGED late
       \/ res = "drop" /\ UNCHANGED <<rec, snap, rev, late>>
       \/ res = "late" /\ late = None /\ late' = w /\ UNCHANGED <<rec, snap, rev>>

\* A timed-out write reaches the store: its guards hold now, or it is refused.
LateWriteLands ==
    /\ late # None
    /\ \/ StoreAccepts(late) /\ StoreApply(late)
       \/ ~StoreAccepts(late) /\ UNCHANGED <<rec, snap, rev>>
    /\ late' = None
    /\ UNCHANGED <<storeStopped, storeGen, process, outside, faults, crashes>>

\* _resynchronize_after_store_error: the readback fails, or shows no terminal
\* cut where one is needed.
Poisons(res, readable, terminalCut) ==
    res # "ack" /\ (~readable \/ (terminalCut /\ res # "lost"))

\* _commit_terminal_operation
CommitTerminal(w, res, readable) ==
    /\ Write(w, res)
    /\ poisoned' = (poisoned \/ Poisons(res, readable, TRUE))

-----------------------------------------------------------------------------
(* Who may enter                                                           *)

External == {"validate", "granted", "call"}

\* _runtime_call and control_plane_mutation
Entry == up = "ready" /\ ~poisoned

\* The permit is free: no cut is open, the session is in an external call.
PermitFree == sup = None /\ (sess # None => sess.at \in External)

\* unresolved_indeterminate_operation_ids: a parent whose invocation is still
\* reserved is not discharged by an administrative resolution.
Unresolved(o) ==
    /\ rec[o].st = "INDETERMINATE"
    /\ \/ rec[o].reserved
       \/ ~\E c \in Resolutions : rec[c].parent = o /\ rec[c].st = "SUCCEEDED"

\* Mutant: an unresolved operation does not close admission.
AdmissionOpenDespite == ~stopped /\ ~storeStopped

\* _admission_claim_options, _effect_claim_block
AdmissionOpen ==
    /\ ~stopped /\ ~storeStopped
    /\ \A o \in Ops : ~Unresolved(o)

\* An attempt has a fresh operation id, even when an earlier one got lost.
Fresh(o) == rec[o].st = "none" /\ (late # None => late.op # o)

Session(o, at) == [op |-> o, at |-> at, view |-> snap, base |-> rev]

-----------------------------------------------------------------------------
(* Supervised native operations                                            *)

\* claim_accepted.  A claim that raises has no session; it may be recorded.
ClaimAccepted(o, res) ==
    /\ Entry /\ sess = None /\ sup = None /\ AdmissionOpen
    /\ Fresh(o) /\ KeyFree(o) /\ ~Reserved(o)
    /\ Write(Request("claim", o,
                     [Unrecorded EXCEPT !.st = "ACCEPTED", !.reserved = TRUE,
                                        !.gen = gen, !.base = rev]), res)
    /\ sess' = IF res = "ack" THEN Session(o, "validate") ELSE None
    /\ UNCHANGED <<storeStopped, storeGen, up, gen, poisoned, stopped, sup,
                   outside, crashes>>

\* Mutant: settlement always releases the reservation.
SettledReleased(o, state) == [rec[o] EXCEPT !.st = state, !.reserved = FALSE]

\* The record that settlement writes: a consumed invocation stays reserved
\* unless its success released it.
Settled(o, state) ==
    [rec[o] EXCEPT !.st = state,
                   !.reserved = rec[o].consumed /\ state # "SUCCEEDED"]

\* commit_settlement: somebody else's terminal record, or one of another
\* generation, is left alone.
Settle(w, res, readable) ==
    LET mine == rec[w.op].st \in NonTerminal /\ rec[w.op].gen = gen
    IN  \/ mine /\ CommitTerminal(w, res, readable)
        \/ ~mine /\ UNCHANGED <<store, poisoned>>

\* The session is the native one at this point and can have the permit back.
NativeAt(at) == sess # None /\ sess.op \in Native /\ sess.at = at /\ sup = None

\* Validation reports an error or raises.  When it raises on a poisoned plane
\* nothing is settled.
ValidationFails(res, readable) ==
    /\ NativeAt("validate")
    /\ \/ Settle(Request("terminal", sess.op, Settled(sess.op, "CANCELLED")),
                 res, readable)
       \/ poisoned /\ UNCHANGED <<store, poisoned>>
    /\ sess' = None
    /\ UNCHANGED <<storeStopped, storeGen, up, gen, stopped, sup, outside,
                   crashes>>

\* Mutant: what the store says after a failed write decides about the call.
DispatchOnReadback(res, readable) ==
    /\ NativeAt("validate")
    /\ rec[sess.op].st = "ACCEPTED"
    /\ Write(Request("save", sess.op, [rec[sess.op] EXCEPT !.st = "RUNNING",
                                                        !.consumed = TRUE]), res)
    /\ sess' = [sess EXCEPT !.at = "granted"]
    /\ UNCHANGED <<storeStopped, storeGen, up, gen, poisoned, stopped, sup,
                   outside, crashes>>

\* _dispatch_native_invocation: only a confirmed write-ahead cut is a grant.
Dispatch(res, readable) ==
    /\ NativeAt("validate")
    /\ \/ /\ rec[sess.op].st # "ACCEPTED"
          /\ sess' = None
          /\ UNCHANGED <<store, poisoned>>
       \/ /\ rec[sess.op].st = "ACCEPTED" /\ (stopped \/ storeStopped)
          /\ Settle(Request("terminal", sess.op, Settled(sess.op, "CANCELLED")),
                    res, readable)
          /\ sess' = None
       \/ /\ rec[sess.op].st = "ACCEPTED" /\ ~stopped /\ ~storeStopped
          /\ Write(Request("save", sess.op,
                           [rec[sess.op] EXCEPT !.st = "RUNNING",
                                                !.consumed = TRUE]), res)
          /\ poisoned' = (poisoned \/ res # "ack")
          /\ sess' = IF res = "ack" THEN [sess EXCEPT !.at = "granted"] ELSE None
    /\ UNCHANGED <<storeStopped, storeGen, up, gen, stopped, sup, outside,
                   crashes>>

\* What settlement writes for a result: nothing of it when the snapshot moved
\* on since the claim, the result's snapshot when it succeeded or differs.
ResultWrite(state, published) ==
    IF rev # rec[sess.op].base
    THEN Request("terminal", sess.op, Settled(sess.op, "INDETERMINATE"))
    ELSE IF published
    THEN Bearing(sess.op, Settled(sess.op, state), sess.view \cup {sess.op})
    ELSE Request("terminal", sess.op, Settled(sess.op, state))

\* _complete_native_invocation with a result
ReturnResult(state, res, readable) ==
    /\ NativeAt("call")
    /\ \/ state = "SUCCEEDED" /\ world[sess.op] = "applied"
          /\ Settle(ResultWrite(state, TRUE), res, readable)
       \/ state = "INDETERMINATE"
          /\ \E changed \in BOOLEAN :
                /\ changed => world[sess.op] = "applied"
                /\ Settle(ResultWrite(state, changed), res, readable)
    /\ sess' = None
    /\ UNCHANGED <<storeStopped, storeGen, up, gen, stopped, sup, outside,
                   crashes>>

\* The call raises, times out or is never made: INDETERMINATE, for the grant
\* is consumed; on a poisoned plane nothing is settled.
ReturnRaised(res, readable) ==
    /\ NativeAt("granted") \/ NativeAt("call")
    /\ \/ ~poisoned /\ Settle(Request("terminal", sess.op,
                                      Settled(sess.op, "INDETERMINATE")),
                              res, readable)
       \/ poisoned /\ UNCHANGED <<store, poisoned>>
    /\ sess' = None
    /\ UNCHANGED <<storeStopped, storeGen, up, gen, stopped, sup, outside,
                   crashes>>

-----------------------------------------------------------------------------
(* The world, and what any external call can end in                        *)

\* The backend method is entered.
Invoke(o) ==
    /\ sess # None /\ sess.op = o /\ sess.at \in {"granted", "claimed"}
    /\ invoked' = [invoked EXCEPT ![o] = @ + 1]
    /\ world' = [world EXCEPT ![o] = "open"]
    /\ sess' = [sess EXCEPT !.at = "call"]
    /\ UNCHANGED <<store, storeStopped, storeGen, up, gen, poisoned, stopped,
                   sup, crashes>>

\* Its effect happens: during the call, or after it was abandoned.
Apply(o) ==
    /\ world[o] = "open"
    /\ world' = [world EXCEPT ![o] = "applied"]
    /\ UNCHANGED <<store, storeStopped, storeGen, process, invoked, crashes>>

\* The permit cannot be reacquired in time.  Only settlement insists on being
\* the state writer and poisons; a participant action just unwinds.
LoseCut ==
    /\ sess # None /\ sess.at \in External
    /\ sess' = None
    /\ poisoned' = (poisoned \/ sess.op \in Native)
    /\ UNCHANGED <<store, storeStopped, storeGen, up, gen, stopped, sup,
                   outside, crashes>>

\* The store cannot be read when the session comes back: it raises.
ReadFails ==
    /\ sess # None /\ sess.at \in External /\ sup = None /\ faults > 0
    /\ faults' = faults - 1
    /\ sess' = None
    /\ UNCHANGED <<rec, snap, rev, late, storeStopped, storeGen, up, gen,
                   poisoned, stopped, sup, outside, crashes>>

-----------------------------------------------------------------------------
(* Participant actions: RUNNING from the claim on, no invocation ledger    *)

\* _execute_participant_action_locked, up to the backend call
ClaimAction(o, res) ==
    /\ Entry /\ sess = None /\ sup = None /\ AdmissionOpen
    /\ Fresh(o) /\ KeyFree(o) /\ ~Reserved(o)
    /\ Write(Request("claim", o, [Unrecorded EXCEPT !.st = "RUNNING"]), res)
    /\ sess' = IF res = "ack" THEN Session(o, "claimed") ELSE None
    /\ UNCHANGED <<storeStopped, storeGen, up, gen, poisoned, stopped, sup,
                   outside, crashes>>

EndAction(state, content, res, readable) ==
    /\ CommitTerminal(Bearing(sess.op, [rec[sess.op] EXCEPT !.st = state],
                              content), res, readable)
    /\ sess' = None
    /\ UNCHANGED <<storeStopped, storeGen, up, gen, stopped, sup, outside,
                   crashes>>

\* The control cut refuses before the backend is called.
RefuseAction(res, readable) ==
    /\ sess # None /\ sess.op \in Plain /\ sess.at = "claimed"
    /\ EndAction("FAILED", snap, res, readable)

PlainReturn == sess # None /\ sess.op \in Plain /\ sess.at = "call" /\ sup = None

\* Mutant: the result is committed over whatever the snapshot is by now.
ReturnActionUnchecked(res, readable) ==
    /\ PlainReturn
    /\ world[sess.op] = "applied"
    /\ EndAction("SUCCEEDED", sess.view \cup {sess.op}, res, readable)

\* _execute_prepared_policy_call: the snapshot moved on, the call failed or
\* raised, or it succeeded and its admissions are retained or not.
ReturnAction(res, readable) ==
    /\ PlainReturn
    /\ \/ /\ rev # sess.base
          /\ EndAction("INDETERMINATE", snap, res, readable)
       \/ /\ rev = sess.base
          /\ EndAction("FAILED", sess.view, res, readable)
       \/ /\ rev = sess.base /\ world[sess.op] = "applied"
          /\ \/ EndAction("FAILED", sess.view \cup {sess.op}, res, readable)
             \/ EndAction("SUCCEEDED", sess.view \cup {sess.op}, res, readable)
             \/ EndAction("INDETERMINATE", snap, res, readable)

-----------------------------------------------------------------------------
(* Resolution of an indeterminate parent                                   *)

\* resolve_indeterminate_operation: open to any admission block but one, that
\* the parent is already resolved.
ClaimResolution(c, o, res) ==
    /\ Entry /\ sess = None /\ sup = None
    /\ Fresh(c) /\ Unresolved(o)
    /\ Write(Request("claim", c, [Unrecorded EXCEPT !.st = "RUNNING",
                                                    !.parent = o]), res)
    /\ sess' = IF res = "ack" THEN Session(c, "commit") ELSE None
    /\ UNCHANGED <<storeStopped, storeGen, up, gen, poisoned, stopped, sup,
                   outside, crashes>>

CommitResolution(res, readable) ==
    /\ sess # None /\ sess.at = "commit"
    /\ CommitTerminal(Request("terminal", sess.op,
                              [rec[sess.op] EXCEPT !.st = "SUCCEEDED"]),
                      res, readable)
    /\ sess' = None
    /\ UNCHANGED <<storeStopped, storeGen, up, gen, stopped, sup, outside,
                   crashes>>

-----------------------------------------------------------------------------
(* Supervision                                                             *)

\* supervise_operation("cancel"), first write: the control joins the ledger.
\* A repeated control returns the recorded one and changes nothing.
Cancel(o, res, readable) ==
    /\ Entry /\ PermitFree
    /\ rec[o].st # "none" /\ ~rec[o].control
    /\ Write(Request("control", o, [rec[o] EXCEPT !.control = TRUE]), res)
    /\ poisoned' = Poisons(res, readable, rec[o].st \in Terminal)
    /\ sup' = IF res = "ack" /\ rec[o].st = "ACCEPTED"
              THEN [op |-> o, at |-> "cancel"] ELSE None
    /\ UNCHANGED <<storeStopped, storeGen, up, gen, stopped, sess, outside,
                   crashes>>

\* Second write: an operation that was not dispatched is cancelled.
SettleCancelled(res, readable) ==
    /\ sup # None /\ sup.at = "cancel"
    /\ Settle(Request("terminal", sup.op, Settled(sup.op, "CANCELLED")),
              res, readable)
    /\ sup' = None
    /\ UNCHANGED <<storeStopped, storeGen, up, gen, stopped, sess, outside,
                   crashes>>

\* stop_admission: the store's flag, then the plane's.  When the write raises
\* the plane's flag is not set, whether or not the store's is.
StopAdmission(res) ==
    /\ Entry /\ PermitFree
    /\ faults' = IF res = "ack" THEN faults ELSE faults - 1
    /\ res \in {"lost", "drop"} => faults > 0
    /\ storeStopped' = (storeStopped \/ res # "drop")
    /\ stopped' = (stopped \/ res = "ack")
    /\ UNCHANGED <<rec, snap, rev, storeGen, late, up, gen, poisoned, sess, sup,
                   outside, crashes>>

\* commit_driver_failure: stops admission, records a fact of the runtime's own
\* and publishes it although an effect may be out.
DriverFailure(f, res) ==
    /\ Entry /\ PermitFree /\ Fresh(f)
    /\ storeStopped' = TRUE /\ stopped' = TRUE
    /\ Write(Request("save", f, [Unrecorded EXCEPT !.st = "RUNNING"]), res)
    /\ sup' = IF res = "ack" THEN [op |-> f, at |-> "driver"] ELSE None
    /\ UNCHANGED <<storeGen, up, gen, poisoned, sess, outside, crashes>>

CommitDriverFailure(res, readable) ==
    /\ sup # None /\ sup.at = "driver"
    /\ CommitTerminal(Bearing(sup.op, [rec[sup.op] EXCEPT !.st = "FAILED"],
                              snap \cup {sup.op}), res, readable)
    /\ sup' = None
    /\ UNCHANGED <<storeStopped, storeGen, up, gen, stopped, sess, outside,
                   crashes>>

-----------------------------------------------------------------------------
(* Process loss and startup                                                *)

ProcessGone ==
    /\ up' = "down" /\ sess' = None /\ sup' = None
    /\ poisoned' = FALSE /\ stopped' = FALSE
    /\ UNCHANGED gen

\* A write still under way is lost with the process, or landed before.
Crash ==
    /\ up # "down" /\ crashes > 0
    /\ crashes' = crashes - 1
    /\ late' = None
    /\ ProcessGone
    /\ UNCHANGED <<rec, snap, rev, storeStopped, storeGen, outside, faults>>

\* The constructor, up to reconcile_startup_operations: bind_execution_store
\* admits a new generation and reads the stop.
Restart ==
    /\ up = "down"
    /\ up' = "recovering"
    /\ storeGen' = storeGen + 1 /\ gen' = storeGen + 1
    /\ stopped' = storeStopped
    /\ UNCHANGED <<store, storeStopped, poisoned, sess, sup, outside, crashes>>

\* What recovery may find about an interrupted operation.
Classified(o) ==
    IF rec[o].st = "ACCEPTED" THEN {"CANCELLED"}
    ELSE IF o \in Native THEN {"INDETERMINATE"}
    ELSE IF o \in Core THEN {"FAILED"}
    ELSE {"INDETERMINATE"}
           \cup (IF world[o] = "applied" THEN {"SUCCEEDED"} ELSE {"FAILED"})

\* _reconcile_record.  FAILED of an effect means that the recovery observer
\* found it absent, SUCCEEDED that it found it applied and gave its snapshot.
\* Any error of the commit ends the constructor.
ReconcileRecord(o, res) ==
    /\ up = "recovering" /\ rec[o].st \in NonTerminal
    /\ \E state \in Classified(o) :
         LET to == [rec[o] EXCEPT !.st = state,
                                  !.reserved = @ /\ rec[o].consumed]
         IN  /\ Write(IF state = "SUCCEEDED" THEN Bearing(o, to, snap \cup {o})
                                             ELSE Request("terminal", o, to), res)
             /\ world' = IF state = "FAILED" /\ o \in Plain
                         THEN [world EXCEPT ![o] = "absent"] ELSE world
    /\ IF res = "ack" THEN UNCHANGED process ELSE ProcessGone
    /\ UNCHANGED <<storeStopped, storeGen, invoked, crashes>>

\* Mutant: the plane is ready before everything is classified.
BecomeReadyEarly ==
    /\ up = "recovering"
    /\ up' = "ready"
    /\ UNCHANGED <<store, storeStopped, storeGen, gen, poisoned, stopped, sess,
                   sup, outside, crashes>>

BecomeReady ==
    /\ up = "recovering"
    /\ \A o \in Ops : rec[o].st \notin NonTerminal
    /\ up' = "ready"
    /\ UNCHANGED <<store, storeStopped, storeGen, gen, poisoned, stopped, sess,
                   sup, outside, crashes>>

-----------------------------------------------------------------------------

\* What the session does when it has the permit, given how its store calls end.
SessionStep(res, readable) ==
    \/ ValidationFails(res, readable) \/ Dispatch(res, readable)
    \/ \E state \in {"SUCCEEDED", "INDETERMINATE"} :
          ReturnResult(state, res, readable)
    \/ ReturnRaised(res, readable)
    \/ RefuseAction(res, readable) \/ ReturnAction(res, readable)
    \/ CommitResolution(res, readable)

SupervisorStep(res, readable) ==
    \/ \E o \in Native : Cancel(o, res, readable)
    \/ SettleCancelled(res, readable)
    \/ CommitDriverFailure(res, readable)

ClaimStep(res) ==
    \/ \E o \in Native : ClaimAccepted(o, res)
    \/ \E o \in Plain : ClaimAction(o, res)
    \/ \E c \in Resolutions, o \in Ops : ClaimResolution(c, o, res)
    \/ \E f \in Core : DriverFailure(f, res)

ProcessStep ==
    \/ Crash \/ Restart \/ BecomeReady
    \/ \E o \in Ops, res \in Outcomes : ReconcileRecord(o, res)

OutsideStep ==
    \/ \E o \in Effects : Invoke(o) \/ Apply(o)
    \/ LateWriteLands \/ LoseCut \/ ReadFails

Next ==
    \/ \E res \in Outcomes, readable \in BOOLEAN :
          SessionStep(res, readable) \/ SupervisorStep(res, readable)
    \/ \E res \in Outcomes : ClaimStep(res)
    \/ \E res \in {"ack", "lost", "drop"} : StopAdmission(res)
    \/ ProcessStep
    \/ OutsideStep

Spec == Init /\ [][Next]_vars

\* A native session and a supervisory cut proceed (each of their calls has a
\* budget), a lost process is started again and its startup goes on.  A
\* participant action has no budget: nothing is assumed of its call.
FairSpec ==
    /\ Spec
    /\ WF_vars(ReturnRaised("ack", TRUE) \/ Dispatch("ack", TRUE)
                  \/ SettleCancelled("ack", TRUE)
                  \/ CommitDriverFailure("ack", TRUE))
    /\ WF_vars(Restart \/ BecomeReady \/ \E o \in Ops : ReconcileRecord(o, "ack"))

-----------------------------------------------------------------------------
(* Properties                                                              *)

\* The backend was invoked only for an operation that is durably RUNNING or
\* was: no crash, failed acknowledgement, late write or cancellation that
\* races the dispatch leaves an invoked operation unrecorded, ACCEPTED or
\* CANCELLED.
WriteAhead ==
    \A o \in Effects :
        invoked[o] > 0 => rec[o].st \notin {"none", "ACCEPTED", "CANCELLED"}

\* An idempotency key stands for at most one invocation, over all attempts
\* made under it, retries after a lost claim acknowledgement included.
AtMostOncePerKey ==
    \A o, p \in Effects :
        KeyOf[o] = KeyOf[p] /\ invoked[o] > 0 =>
            invoked[o] = 1 /\ (p # o => invoked[p] = 0)

\* A native effect that was let loose is either recorded as succeeded or its
\* reservation is kept, also after a crash at any point and after a late
\* write: nothing else ever releases the quarantine.
QuarantineKept ==
    \A o \in Native : invoked[o] > 0 => rec[o].st = "SUCCEEDED" \/ rec[o].reserved

\* No effect begins while an earlier native effect is not known to have
\* succeeded, or an earlier effect of any kind is indeterminate and unresolved;
\* and none is claimed RUNNING behind the stop boundary, also one that was
\* accepted before and waited in validation.
EffectsAdmitted ==
    [][\A o \in Effects :
          /\ invoked'[o] # invoked[o] =>
                 \A p \in Effects \ {o} : invoked[p] > 0 =>
                     (p \in Native => rec[p].st = "SUCCEEDED") /\ ~Unresolved(p)
          /\ storeStopped /\ rec'[o].st = "RUNNING" => rec[o].st = "RUNNING"]_vars

\* A recorded success is true and its result is in the current snapshot,
\* whatever was published by others in between.
SuccessIsPublished ==
    \A o \in Effects :
        rec[o].st = "SUCCEEDED" => o \in snap /\ world[o] = "applied"

\* The plane implements the abstract lifecycle: legal transitions, write-ahead
\* and no replay, terminal record and snapshot in one step, no lost update.
ImplementsLifecycle == Lifecycle!LifecycleSpec

\* What a lost process left unfinished is classified after a restart, however
\* often startup itself fails and the process is lost again.
InterruptedIsClassified ==
    up = "down" ~> \A o \in Ops : rec[o].st \notin NonTerminal

\* "poison readiness and refuse new effect work": a plane that could not
\* reconcile its store dispatches no operation.
PoisonRefusesEffects ==
    [][\A o \in Native :
          rec[o].st = "ACCEPTED" /\ rec'[o].st = "RUNNING" /\ late' = late
              => ~poisoned]_vars

\* "A generic backend exception or success=false with the predecessor snapshot
\* proves neither absence nor known failure": an operation whose effect took
\* place is not recorded as FAILED or CANCELLED with nothing of it published.
FailureIsEstablished ==
    \A o \in Effects :
        world[o] = "applied" /\ rec[o].st \in {"FAILED", "CANCELLED"} => o \in snap

\* "retaining an execution reservation that excludes conflicting effects": no
\* effect begins while an earlier one is still RUNNING.
EffectsExcludeEachOther ==
    [][\A o, p \in Effects :
          invoked'[o] # invoked[o] /\ p # o /\ invoked[p] > 0 =>
              rec[p].st # "RUNNING"]_vars

=============================================================================
