-------------------------- MODULE MutationAuthority --------------------------
(****************************************************************************)
(* RuntimeMutationAuthority (raes_runtime/control_plane_mutation.py): the   *)
(* one state permit of a control plane.                                     *)
(*                                                                          *)
(* A caller holds the PERMIT only for a short state cut.  Work outside the  *)
(* process (external_call) gives the permit back and keeps the EFFECT, so   *)
(* supervisory cuts can run while conflicting effects stay excluded.        *)
(*   - Threads call mutation() and supervision() directly and block on a    *)
(*     Condition;                                                           *)
(*   - Requests are asynchronous callers of reserve(); they queue;          *)
(*   - Children are worker threads that run the child handlers of an        *)
(*     invocation whose effect owner is out in an external call.            *)
(*                                                                          *)
(* Every wait is bounded by admission_ms.  A timeout is an action that may  *)
(* happen whenever its caller waits; no fairness is assumed of it, so what  *)
(* is live below is live without any timeout rescuing it.                   *)
(****************************************************************************)
EXTENDS Naturals, Sequences

CONSTANTS
    Threads,      \* threads that call mutation() / supervision()
    Requests,     \* asynchronous reservations
    Children,     \* threads that run invocation child handlers
    None,         \* Python's None
    MaxSessions,  \* bound: cuts each caller begins
    MaxCalls      \* bound: nested mutations and external calls of one cut

ASSUME CallersAssumption ==
    /\ Threads \cap Requests = {}
    /\ Threads \cap Children = {}
    /\ Requests \cap Children = {}
    /\ None \notin Threads \cup Requests \cup Children
ASSUME BoundsAssumption == MaxSessions \in Nat /\ MaxCalls \in Nat

VARIABLES
    owner,        \* _owner_thread
    reservation,  \* _reservation
    effect,       \* _effect_owner
    depth,        \* _depth
    waiters,      \* _async_waiters
    asleep,       \* threads blocked inside Condition.wait
    pc,           \* where each caller is
    sup,          \* the thread's cut is supervisory (_SUPERVISORY_CUT)
    saved,        \* state_depth kept by external_call, then abandoned_depth
    scopeOpen,    \* effect owners whose InvocationChildScope is active
    childOf,      \* the scope a child handler was called through
    outcome,      \* what the last reserve() of a request raised
    left,         \* sessions a caller may still begin
    calls         \* nested / external calls the current cut may still make

vars == <<owner, reservation, effect, depth, waiters, asleep, pc, sup, saved,
          scopeOpen, childOf, outcome, left, calls>>

EffectCallers == Threads \cup Requests
Callers == EffectCallers \cup Children

Queued == {waiters[i] : i \in DOMAIN waiters}

\* An InvocationChildScope object: the admission it was created under.
Scopes == EffectCallers \X Nat

TypeOK ==
    /\ owner \in Threads \cup Children \cup {None}
    /\ reservation \in Requests \cup {None}
    /\ effect \in EffectCallers \cup {None}
    /\ depth \in Nat
    /\ waiters \in Seq(Requests)
    /\ asleep \in SUBSET Callers
    /\ pc \in [Callers -> {"idle", "wait", "queued", "expired", "granted",
                           "cut", "checked", "ext", "back", "lost"}]
    /\ sup \in [Callers -> BOOLEAN]
    /\ saved \in [Callers -> Nat]
    /\ scopeOpen \in SUBSET EffectCallers
    /\ childOf \in [Children -> Scopes \cup {None}]
    /\ outcome \in [Requests -> {"none", "served", "deadline", "value_error"}]
    /\ left \in [Callers -> Nat]
    /\ calls \in [Callers -> Nat]

Init ==
    /\ owner = None /\ reservation = None /\ effect = None
    /\ depth = 0 /\ waiters = <<>> /\ asleep = {}
    /\ pc = [c \in Callers |-> "idle"]
    /\ sup = [c \in Callers |-> FALSE]
    /\ saved = [c \in Callers |-> 0]
    /\ scopeOpen = {}
    /\ childOf = [k \in Children |-> None]
    /\ outcome = [r \in Requests |-> "none"]
    /\ left = [c \in Callers |-> MaxSessions]
    /\ calls = [c \in Callers |-> 0]

-----------------------------------------------------------------------------
(* Predicates the waits are on                                             *)

PermitIsFree == owner = None /\ reservation = None

\* The scope is the one of its owner's current admission and still active;
\* effect owners are compared by identity, so a later admission is another.
ScopeActive(k) ==
    childOf[k] # None /\ childOf[k][1] \in scopeOpen
                      /\ childOf[k][2] = left[childOf[k][1]]

ScopeLive(k) == ScopeActive(k) /\ effect = childOf[k][1]

\* Mutant: the supervisory exemption is given to everyone.
MutationReadyAlways(t) == PermitIsFree

\* Mutant: a queued reservation does not hold back a synchronous caller.
MutationReadyBarging(t) == PermitIsFree /\ (sup[t] \/ effect = None)

MutationReady(t) ==
    PermitIsFree /\ (sup[t] \/ (effect = None /\ waiters = <<>>))

\* Mutant: the permit is taken back without waiting for it.
CanReacquireAlways(c) == TRUE

CanReacquire(c) == PermitIsFree

CanProceed(c) ==
    \/ pc[c] = "back" /\ CanReacquire(c)
    \/ pc[c] = "wait" /\ c \in Threads /\ MutationReady(c)
    \/ pc[c] = "wait" /\ c \in Children /\ (~ScopeActive(c) \/ PermitIsFree)

\* Mutant: a release keeps the effect.
EffectKept(c) == effect

\* What is left of the effect when its owner releases.
EffectWithout(c) == IF effect = c THEN None ELSE effect

-----------------------------------------------------------------------------
(* _grant_next_waiter_locked, run with owner, reservation, effect and the   *)
(* callers' positions as the caller left them (o, r, e, p)                  *)

\* Mutant: the waiting threads are notified, the queue is never served.
GrantNextNever(o, r, e, p) ==
    /\ owner' = o /\ reservation' = r /\ effect' = e /\ pc' = p
    /\ asleep' = {}
    /\ UNCHANGED waiters

\* Mutant: a release does not notify the Condition.
GrantNextSilent(o, r, e, p) ==
    /\ owner' = o /\ reservation' = r /\ effect' = e /\ pc' = p
    /\ UNCHANGED <<waiters, asleep>>

\* Mutant: any waiter may be served.
AnyLive(i, p) == p[waiters[i]] = "queued"

\* popleft() skips the waiters whose future is cancelled.
OldestLive(i, p) ==
    /\ p[waiters[i]] = "queued"
    /\ \A j \in 1 .. i - 1 : p[waiters[j]] = "expired"

GrantNext(o, r, e, p) ==
    /\ owner' = o
    /\ \/ /\ o # None \/ r # None \/ e # None
          /\ reservation' = r /\ effect' = e /\ pc' = p
          /\ asleep' = {}
          /\ UNCHANGED waiters
       \/ /\ o = None /\ r = None /\ e = None
          /\ \E i \in DOMAIN waiters :
                /\ OldestLive(i, p)
                /\ reservation' = waiters[i]
                /\ effect' = waiters[i]
                /\ pc' = [p EXCEPT ![waiters[i]] = "granted"]
                /\ waiters' = SubSeq(waiters, i + 1, Len(waiters))
          /\ UNCHANGED asleep
       \/ /\ o = None /\ r = None /\ e = None
          /\ \A i \in DOMAIN waiters : p[waiters[i]] = "expired"
          /\ reservation' = None /\ effect' = None /\ pc' = p
          /\ waiters' = <<>>
          /\ asleep' = {}

-----------------------------------------------------------------------------
(* mutation(kind) and supervision() on a thread                            *)

Goto(c, to) == [pc EXCEPT ![c] = to]

\* The caller reaches mutation() (s: inside supervision()).
EnterMutation(t, s) ==
    /\ pc[t] = "idle" /\ left[t] > 0
    /\ pc' = Goto(t, "wait")
    /\ sup' = [sup EXCEPT ![t] = s]
    /\ left' = [left EXCEPT ![t] = @ - 1]
    /\ calls' = [calls EXCEPT ![t] = MaxCalls]
    /\ UNCHANGED <<owner, reservation, effect, depth, waiters, asleep, saved,
                   scopeOpen, childOf, outcome>>

\* wait_for finds its predicate false and blocks.
Sleep(c) ==
    /\ pc[c] \in {"wait", "back"} /\ c \notin asleep
    /\ ~CanProceed(c)
    /\ asleep' = asleep \cup {c}
    /\ UNCHANGED <<owner, reservation, effect, depth, waiters, pc, sup, saved,
                   scopeOpen, childOf, outcome, left, calls>>

AdmitMutation(t) ==
    /\ pc[t] = "wait" /\ CanProceed(t)
    /\ owner' = t /\ depth' = 1
    /\ effect' = IF sup[t] THEN effect ELSE t
    /\ pc' = Goto(t, "cut")
    /\ asleep' = asleep \ {t}
    /\ UNCHANGED <<reservation, waiters, sup, saved, scopeOpen, childOf,
                   outcome, left, calls>>

\* RuntimeBudgetExhaustedError("state admission budget exhausted")
TimeoutMutation(t) ==
    /\ pc[t] = "wait" /\ t \in asleep /\ ~CanProceed(t)
    /\ pc' = Goto(t, "idle")
    /\ asleep' = asleep \ {t}
    /\ UNCHANGED <<owner, reservation, effect, depth, waiters, sup, saved,
                   scopeOpen, childOf, outcome, left, calls>>

\* mutation() re-entered by the thread that owns the permit
NestMutation(c) ==
    /\ pc[c] = "cut" /\ owner = c /\ calls[c] > 0
    /\ depth' = depth + 1
    /\ calls' = [calls EXCEPT ![c] = @ - 1]
    /\ UNCHANGED <<owner, reservation, effect, waiters, asleep, pc, sup, saved,
                   scopeOpen, childOf, outcome, left>>

\* _release_mutation_locked of a nested cut
UnnestMutation(c) ==
    /\ pc[c] = "cut" /\ owner = c /\ depth > 1
    /\ depth' = depth - 1
    /\ UNCHANGED <<owner, reservation, effect, waiters, asleep, pc, sup, saved,
                   scopeOpen, childOf, outcome, left, calls>>

\* _release_mutation_locked of the outermost cut
ReleaseMutation(t) ==
    /\ pc[t] = "cut" /\ depth = 1 /\ t \notin scopeOpen
    /\ depth' = 0
    /\ GrantNext(None, reservation, EffectWithout(t),
                 Goto(t, "idle"))
    /\ UNCHANGED <<sup, saved, scopeOpen, childOf, outcome, left, calls>>

\* _release_abandoned_mutation_locked: the permit was never taken back, so
\* unwinding only counts down, and the last level gives up the effect.
UnwindAbandoned(t) ==
    /\ pc[t] = "lost" /\ t \notin scopeOpen
    /\ saved' = [saved EXCEPT ![t] = @ - 1]
    /\ \/ /\ saved[t] > 1
          /\ UNCHANGED <<owner, reservation, effect, waiters, asleep, pc>>
       \/ /\ saved[t] = 1 /\ effect = t
          /\ GrantNext(owner, reservation, None, Goto(t, "idle"))
       \/ /\ saved[t] = 1 /\ effect # t
          /\ pc' = Goto(t, "idle")
          /\ UNCHANGED <<owner, reservation, effect, waiters, asleep>>
    /\ UNCHANGED <<depth, sup, scopeOpen, childOf, outcome, left, calls>>

-----------------------------------------------------------------------------
(* reserve(kind) in an event loop                                          *)

EnterReserve(r) ==
    /\ pc[r] = "idle" /\ left[r] > 0
    /\ left' = [left EXCEPT ![r] = @ - 1]
    /\ calls' = [calls EXCEPT ![r] = MaxCalls]
    /\ outcome' = [outcome EXCEPT ![r] = "none"]
    /\ \/ /\ PermitIsFree /\ effect = None /\ waiters = <<>>
          /\ reservation' = r /\ effect' = r
          /\ pc' = Goto(r, "cut")
          /\ UNCHANGED waiters
       \/ /\ ~(PermitIsFree /\ effect = None /\ waiters = <<>>)
          /\ waiters' = Append(waiters, r)
          /\ pc' = Goto(r, "queued")
          /\ UNCHANGED <<reservation, effect>>
    /\ UNCHANGED <<owner, depth, asleep, sup, saved, scopeOpen, childOf>>

\* The granted future completes and the coroutine resumes.
ResumeGranted(r) ==
    /\ pc[r] = "granted"
    /\ pc' = Goto(r, "cut")
    /\ UNCHANGED <<owner, reservation, effect, depth, waiters, asleep, sup,
                   saved, scopeOpen, childOf, outcome, left, calls>>

\* wait_for's deadline, or the caller's cancellation, cancels the future; the
\* coroutine sees it only when the loop runs it again.
ExpireWaiter(r) ==
    /\ pc[r] = "queued"
    /\ pc' = Goto(r, "expired")
    /\ UNCHANGED <<owner, reservation, effect, depth, waiters, asleep, sup,
                   saved, scopeOpen, childOf, outcome, left, calls>>

\* The except clause of a waiter that was not granted: it leaves the queue.
\* deque.remove raises ValueError when a release already dropped it.
RemoveExpired(r) ==
    /\ pc[r] = "expired"
    /\ \/ \E i \in DOMAIN waiters :
             /\ waiters[i] = r
             /\ waiters' = SubSeq(waiters, 1, i - 1)
                              \o SubSeq(waiters, i + 1, Len(waiters))
             /\ outcome' = [outcome EXCEPT ![r] = "deadline"]
       \/ /\ r \notin Queued
          /\ outcome' = [outcome EXCEPT ![r] = "value_error"]
          /\ UNCHANGED waiters
    /\ pc' = Goto(r, "idle")
    /\ UNCHANGED <<owner, reservation, effect, depth, asleep, sup, saved,
                   scopeOpen, childOf, left, calls>>

\* The except clause of a waiter granted after its deadline had passed.
CancelGranted(r) ==
    /\ pc[r] = "granted"
    /\ GrantNext(owner, None, None, Goto(r, "idle"))
    /\ outcome' = [outcome EXCEPT ![r] = "deadline"]
    /\ UNCHANGED <<depth, sup, saved, scopeOpen, childOf, left, calls>>

\* _release_reservation_locked at the end of the async context
ReleaseReservation(r) ==
    /\ pc[r] \in {"cut", "lost"} /\ r \notin scopeOpen
    /\ GrantNext(owner, IF reservation = r THEN None ELSE reservation,
                 EffectWithout(r), Goto(r, "idle"))
    /\ outcome' = [outcome EXCEPT ![r] = "served"]
    /\ UNCHANGED <<depth, sup, saved, scopeOpen, childOf, left, calls>>

-----------------------------------------------------------------------------
(* external_call(), from any cut                                           *)

LeaveForExternal(c) ==
    /\ pc[c] = "cut" /\ calls[c] > 0
    /\ saved' = [saved EXCEPT ![c] = depth]
    /\ owner' = None /\ reservation' = None /\ depth' = 0
    /\ asleep' = {}
    /\ pc' = Goto(c, "ext")
    /\ calls' = [calls EXCEPT ![c] = @ - 1]
    /\ UNCHANGED <<effect, waiters, sup, scopeOpen, childOf, outcome, left>>

\* The external work returns or raises; either way the permit is needed.
ReturnFromExternal(c) ==
    /\ pc[c] = "ext"
    /\ pc' = Goto(c, "back")
    /\ UNCHANGED <<owner, reservation, effect, depth, waiters, asleep, sup,
                   saved, scopeOpen, childOf, outcome, left, calls>>

Reacquire(c) ==
    /\ pc[c] = "back" /\ CanProceed(c)
    /\ IF c \in Requests THEN reservation' = c /\ UNCHANGED owner
                         ELSE owner' = c /\ UNCHANGED reservation
    /\ depth' = saved[c]
    /\ pc' = Goto(c, "cut")
    /\ asleep' = asleep \ {c}
    /\ UNCHANGED <<effect, waiters, sup, saved, scopeOpen, childOf, outcome,
                   left, calls>>

\* RuntimeBudgetExhaustedError("state reacquisition budget exhausted"): the
\* cut is abandoned and its frames unwind without the permit.
TimeoutReacquire(c) ==
    /\ pc[c] = "back" /\ c \in asleep /\ ~CanProceed(c)
    /\ pc' = Goto(c, "lost")
    /\ asleep' = asleep \ {c}
    /\ UNCHANGED <<owner, reservation, effect, depth, waiters, sup, saved,
                   scopeOpen, childOf, outcome, left, calls>>

-----------------------------------------------------------------------------
(* Invocation child scopes                                                 *)

\* invocation_child_scope(), by the state writer that will go external
OpenScope(c) ==
    /\ pc[c] = "cut" /\ effect = c /\ calls[c] > 0 /\ c \notin scopeOpen
    /\ scopeOpen' = scopeOpen \cup {c}
    /\ calls' = [calls EXCEPT ![c] = @ - 1]
    /\ UNCHANGED <<owner, reservation, effect, depth, waiters, asleep, pc, sup,
                   saved, childOf, outcome, left>>

\* close_invocation_child(), in the finally of the invocation
CloseScope(c) ==
    /\ c \in scopeOpen /\ pc[c] \in {"cut", "lost"}
    /\ scopeOpen' = scopeOpen \ {c}
    /\ asleep' = {}
    /\ UNCHANGED <<owner, reservation, effect, depth, waiters, pc, sup, saved,
                   childOf, outcome, left, calls>>

\* run_invocation_child(): the callback calls a tool of an open scope.
EnterChild(k, c) ==
    /\ pc[k] = "idle" /\ left[k] > 0
    /\ c \in scopeOpen /\ effect = c /\ pc[c] \in {"ext", "back", "lost"}
    /\ pc' = Goto(k, "wait")
    /\ childOf' = [childOf EXCEPT ![k] = <<c, left[c]>>]
    /\ left' = [left EXCEPT ![k] = @ - 1]
    /\ calls' = [calls EXCEPT ![k] = MaxCalls]
    /\ UNCHANGED <<owner, reservation, effect, depth, waiters, asleep, sup,
                   saved, scopeOpen, outcome>>

\* The wait ended: with a live scope the child becomes the state writer,
\* otherwise ConflictError("invocation child authority is closed").
AdmitChild(k) ==
    /\ pc[k] = "wait" /\ CanProceed(k)
    /\ \/ /\ ScopeLive(k)
          /\ owner' = k /\ depth' = 1
          /\ pc' = Goto(k, "cut")
       \/ /\ ~ScopeLive(k)
          /\ pc' = Goto(k, "idle")
          /\ UNCHANGED <<owner, depth>>
    /\ asleep' = asleep \ {k}
    /\ UNCHANGED <<reservation, effect, waiters, sup, saved, scopeOpen,
                   childOf, outcome, left, calls>>

TimeoutChild(k) ==
    /\ pc[k] = "wait" /\ k \in asleep /\ ~CanProceed(k)
    /\ pc' = Goto(k, "idle")
    /\ asleep' = asleep \ {k}
    /\ UNCHANGED <<owner, reservation, effect, depth, waiters, sup, saved,
                   scopeOpen, childOf, outcome, left, calls>>

\* require_live_child_scope() passes; what it guards comes after it.
CheckChild(k) ==
    /\ pc[k] = "cut" /\ ScopeLive(k) /\ calls[k] > 0
    /\ pc' = Goto(k, "checked")
    /\ calls' = [calls EXCEPT ![k] = @ - 1]
    /\ UNCHANGED <<owner, reservation, effect, depth, waiters, asleep, sup,
                   saved, scopeOpen, childOf, outcome, left>>

\* The store write the check guarded.
PublishChild(k) ==
    /\ pc[k] = "checked"
    /\ pc' = Goto(k, "cut")
    /\ UNCHANGED <<owner, reservation, effect, depth, waiters, asleep, sup,
                   saved, scopeOpen, childOf, outcome, left, calls>>

\* The finally of run_invocation_child.
FinishChild(k) ==
    /\ \/ pc[k] = "cut" /\ depth = 1 /\ depth' = 0
       \/ pc[k] = "lost" /\ UNCHANGED depth
    /\ GrantNext(IF owner = k THEN None ELSE owner, reservation, effect,
                 Goto(k, "idle"))
    /\ saved' = [saved EXCEPT ![k] = 0]
    /\ UNCHANGED <<sup, scopeOpen, childOf, outcome, left, calls>>

-----------------------------------------------------------------------------

ThreadStep(t) ==
    \/ \E s \in BOOLEAN : EnterMutation(t, s)
    \/ AdmitMutation(t) \/ TimeoutMutation(t)
    \/ ReleaseMutation(t) \/ UnwindAbandoned(t)

RequestStep(r) ==
    \/ EnterReserve(r) \/ ResumeGranted(r)
    \/ ExpireWaiter(r) \/ RemoveExpired(r) \/ CancelGranted(r)
    \/ ReleaseReservation(r)

ChildStep(k) ==
    \/ \E c \in EffectCallers : EnterChild(k, c)
    \/ AdmitChild(k) \/ TimeoutChild(k)
    \/ CheckChild(k) \/ PublishChild(k) \/ FinishChild(k)

CallerStep(c) ==
    \/ Sleep(c)
    \/ NestMutation(c) \/ UnnestMutation(c)
    \/ LeaveForExternal(c) \/ ReturnFromExternal(c)
    \/ Reacquire(c) \/ TimeoutReacquire(c)
    \/ OpenScope(c) \/ CloseScope(c)

\* Every caller has begun all its sessions and left the authority.
Finished ==
    /\ \A c \in Callers : pc[c] = "idle"
    /\ \A c \in EffectCallers : left[c] = 0
    /\ UNCHANGED vars

Next ==
    \/ \E t \in Threads : ThreadStep(t)
    \/ \E r \in Requests : RequestStep(r)
    \/ \E k \in Children : ChildStep(k)
    \/ \E c \in Callers : CallerStep(c)
    \/ Finished

Spec == Init /\ [][Next]_vars

\* A caller that is awake proceeds, external work returns (every external
\* call has a budget), a cut ends.  Nothing is assumed of timeouts, of
\* cancellations, or of a caller that is asleep: only a notification or a
\* grant gets it going again.
AwakeStep(c) ==
    \/ ReturnFromExternal(c)
    \/ c \notin asleep /\ Reacquire(c)
    \/ UnnestMutation(c) \/ CloseScope(c)
    \/ c \in Threads /\ (ReleaseMutation(c) \/ UnwindAbandoned(c)
                            \/ (c \notin asleep /\ AdmitMutation(c)))
    \/ c \in Requests /\ (ResumeGranted(c) \/ ReleaseReservation(c)
                             \/ RemoveExpired(c))
    \/ c \in Children /\ (PublishChild(c) \/ FinishChild(c)
                             \/ (c \notin asleep /\ AdmitChild(c)))

FairSpec == Spec /\ \A c \in Callers : WF_vars(AwakeStep(c))

-----------------------------------------------------------------------------
(* Properties                                                              *)
InCut == {c \in Callers : pc[c] \in {"granted", "cut", "checked"}}

InEffect ==
    {c \in EffectCallers : /\ pc[c] \in {"granted", "cut", "ext", "back", "lost"}
                           /\ ~sup[c]}

\* At no time do two callers act as the state writer, although every external
\* call gives the permit up and takes it back, a queued reservation receives
\* it from another thread, and cuts are abandoned on a timeout.
SingleWriter == \A c, d \in InCut : c = d

\* At no time do two callers own an effect: external_call retains the effect
\* while the permit changes hands, and an abandoned cut keeps it until its
\* last frame has unwound.
EffectExclusion == \A c, d \in InEffect : c = d

\* The permit and the effect are held only by a caller that will release
\* them: an aborted, cancelled or abandoned cut leaks neither.
NothingLeaked ==
    /\ owner # None => owner \in InCut
    /\ reservation # None => reservation \in InCut
    /\ effect # None => effect \in InEffect

\* A reservation in the queue is never forgotten: while one waits, some other
\* caller is due to come through _grant_next_waiter_locked.  It holds the
\* effect, or it is in a cut or out in an external call; a supervisory cut
\* that was abandoned unwinds without serving the queue and does not count.
QueueNotStranded ==
    (\E i \in DOMAIN waiters : pc[waiters[i]] = "queued")
        => \/ effect # None
           \/ \E c \in Callers : pc[c] \in {"granted", "cut", "checked", "ext",
                                            "back"}

\* A new effect goes to the oldest reservation that still waits, before any
\* later one and before any thread; and an effect ends only when its owner's
\* session does, never by being handed on from under it.
EffectHandoff ==
    [][effect' # effect =>
         /\ effect # None => pc'[effect] = "idle"
         /\ effect' # None =>
              \A i \in DOMAIN waiters :
                 pc[waiters[i]] = "queued" =>
                    \E j \in 1 .. i : waiters[j] = effect']_vars

\* Nobody waits forever, with no timeout to end the wait: each waiting thread,
\* child and queued reservation eventually leaves the wait, so no notification
\* or grant is lost.
EveryWaitEnds ==
    \A c \in Callers :
        pc[c] \in {"wait", "queued", "back"}
            ~> pc[c] \notin {"wait", "queued", "back"}

\* "Fence a late handler before it publishes state after closure"
\* (require_live_child_scope): what a child handler publishes is published
\* while its scope is live.
LateHandlerFenced ==
    [][\A k \in Children : pc[k] = "checked" /\ pc'[k] = "cut" =>
           ScopeLive(k)]_vars

\* A reservation whose wait ran out ends with the deadline error that the HTTP
\* layer turns into its deadline response, whatever ran in the meantime.
ExpiredWaiterKeepsDeadline == \A r \in Requests : outcome[r] # "value_error"

-----------------------------------------------------------------------------
(* The inductive invariant behind the theorems of MutationAuthority_proofs: *)
(* the three fields of the authority, related to where its callers are.     *)

Busy == {"granted", "cut", "checked", "ext", "back", "lost"}

Positions(p) ==
    /\ \A t \in Threads : p[t] \notin {"queued", "expired", "granted", "checked"}
    /\ \A r \in Requests : p[r] \notin {"wait", "checked"} /\ ~sup[r]
    /\ \A k \in Children : p[k] \notin {"queued", "expired", "granted"}

Ownership(o, r, e, p) ==
    /\ \A c \in Threads \cup Children : o = c <=> p[c] \in {"cut", "checked"}
    /\ \A c \in Requests : r = c <=> p[c] \in {"granted", "cut"}
    /\ o = None \/ r = None
    /\ \A c \in EffectCallers : e = c <=> p[c] \in Busy /\ ~sup[c]

\* Someone will come through _grant_next_waiter_locked.
Served(e, p) ==
    \/ e # None
    \/ \E c \in Callers : p[c] \in Busy \ {"lost"}

IInv ==
    /\ TypeOK
    /\ Positions(pc)
    /\ Ownership(owner, reservation, effect, pc)
    /\ waiters # <<>> => Served(effect, pc)

=============================================================================
