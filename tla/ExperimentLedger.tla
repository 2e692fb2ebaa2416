-------------------------- MODULE ExperimentLedger --------------------------
(****************************************************************************)
(* RuntimeExperiment as a ledger of decisions that several callers extend:   *)
(* the allocator assigns entries to remote owners, their reports come in by  *)
(* ingest (late, repeated or out of order), advance runs what nobody was     *)
(* assigned, advance_selected goes on with an assigned entry, and cancel.    *)
(*                                                                          *)
(* A call reads the decisions once and acts on what it read.  assign and the *)
(* retention of an outcome commit only if no decision was added since        *)
(* (claim_runtime_decisions with expected_ids); every other decision is      *)
(* claimed by identity: the first one stands, a second one that differs is   *)
(* refused.  Only advance takes the experiment lock.                         *)
(*                                                                          *)
(* What happens inside a trial that this engine runs is TrialUnit; here it   *)
(* is one step that leaves it going or ends it.                              *)
(****************************************************************************)
EXTENDS Naturals, FiniteSets

CONSTANTS
    Callers,       \* threads of the coordinator
    Owners,        \* remote execution owners
    NumEntries,    \* entries of the schedule, in dispatch order
    MaxAttempts,   \* retry_policy.max_attempts
    Floor, Ceiling,    \* admitted parallelism
    None

ASSUME SizesAssumption == NumEntries \in Nat \ {0} /\ MaxAttempts \in Nat \ {0}
ASSUME ParallelismAssumption == Floor \in Nat \ {0} /\ Ceiling \in Nat /\ Floor <= Ceiling
ASSUME OwnersAssumption ==
    "runtime" \notin Owners /\ None \notin Owners \cup {"ready", "bad"}

Entries == 1..NumEntries
Ordinals == 1..MaxAttempts
Grants == Floor..Ceiling

\* What a finished attempt amounts to: over; over, with an operation whose
\* status stays unknown; failed without effects; failed with effects that a
\* preparation has to undo; or resources that may not be reused.
\* The failure of the last attempt the policy allows is final.
Verdicts(p) == {"done", "lingering", "unusable"}
               \cup (IF p[2] < MaxAttempts THEN {"retry", "prepare"} ELSE {})

VARIABLES
    attempts,    \* TrialAttemptDecision: how many of the entry
    assigned,    \* TrialAssignmentDecision: owner of the attempt
    outcome,     \* latest TrialOutcomeDecision: 2 completed, 3 retry prepared
    terminal,    \* TrialTerminalDecision
    retired,     \* RunContextDecision of the entry's run
    cancelled,   \* ExperimentCancellationDecision
    stage,       \* where the attempt runs: 1 begun, 2 completed, 3 retry prepared
    verdict, prepared,   \* facts it has established there
    executors,   \* history: who began the attempt
    call         \* what each caller is doing, and what it read when it began

decisions == <<attempts, assigned, outcome, terminal, retired, cancelled>>
facts == <<stage, verdict, prepared, executors>>
vars == <<decisions, facts, call>>

Idle == [at |-> "idle"]
Pairs == Entries \X Ordinals

TypeOK ==
    /\ attempts \in [Entries -> 0..MaxAttempts]
    /\ assigned \in [Pairs -> Owners \cup {None}]
    /\ outcome \in [Pairs -> {0, 2, 3}] /\ stage \in [Pairs -> 0..3]
    /\ terminal \subseteq Pairs
    /\ retired \subseteq Entries /\ cancelled \in BOOLEAN
    /\ \A p \in Pairs : verdict[p] \in Verdicts(p) \cup {None}
    /\ prepared \in [Pairs -> {None, "ready", "bad"}]
    /\ executors \in [Pairs -> SUBSET (Owners \cup {"runtime"})]
    /\ \A t \in Callers : call[t].at \in
           {"idle", "assign", "retain", "terminal", "visit", "claimed", "unit", "finish"}

Init ==
    /\ attempts = [e \in Entries |-> 0]
    /\ assigned = [p \in Pairs |-> None]
    /\ outcome = [p \in Pairs |-> 0] /\ stage = [p \in Pairs |-> 0]
    /\ terminal = {} /\ retired = {} /\ cancelled = FALSE
    /\ verdict = [p \in Pairs |-> None] /\ prepared = [p \in Pairs |-> None]
    /\ executors = [p \in Pairs |-> {}]
    /\ call = [t \in Callers |-> Idle]

----------------------------------------------------------------------------
(* Reading and extending the set of decisions.                              *)

At(t, place) == call[t].at = place

\* Every caller's cut is out of date once a decision is added.
Stale(c) == IF "fresh" \in DOMAIN c THEN [c EXCEPT !.fresh = FALSE] ELSE c
Added(t, next) == call' = [u \in Callers |-> IF u = t THEN next ELSE Stale(call[u])]
Same(t, next) == call' = [call EXCEPT ![t] = next]

EntryAssigned(e) == \E k \in Ordinals : assigned[<<e, k>>] # None

\* retry_permission, for a caller that takes the experiment as cancelled or not.
Permission(p, stop) ==
    IF stop \/ verdict[p] \notin {"retry", "prepare"}
    THEN "not-permitted" ELSE IF verdict[p] = "retry" THEN "ready" ELSE "prepare"

AttemptOccupied(p) ==
    \/ p \notin terminal \/ verdict[p] \in {"unusable", "lingering"}
    \/ Permission(p, cancelled) # "not-permitted"

OccupiedEntries(excluding) ==
    {e \in Entries \ {excluding} : attempts[e] > 0 /\ AttemptOccupied(<<e, attempts[e]>>)}

----------------------------------------------------------------------------
(* assign                                                                   *)

AssignmentAttempt(e) ==
    IF attempts[e] > 0 THEN EntryAssigned(e)
    ELSE \A f \in Entries : f < e => attempts[f] > 0

BeginAssign(t, e, o) ==
    /\ At(t, "idle") /\ ~cancelled
    /\ attempts[e] > 0 => assigned[<<e, attempts[e]>>] = None
    /\ AssignmentAttempt(e)
    /\ \E grant \in Grants : Cardinality(OccupiedEntries(e)) < grant
    /\ Same(t, [at |-> "assign", fresh |-> TRUE, owner |-> o,
                pair |-> <<e, IF attempts[e] = 0 THEN 1 ELSE attempts[e]>>])
    /\ UNCHANGED <<decisions, facts>>

\* Mutant: decisions added since the reading do not matter.
CommitAssignAnyway(t) ==
    /\ At(t, "assign")
    /\ LET p == call[t].pair IN
           /\ assigned' = [assigned EXCEPT ![p] = call[t].owner]
           /\ attempts' = [attempts EXCEPT ![p[1]] = p[2]]
    /\ Added(t, Idle)
    /\ UNCHANGED <<outcome, terminal, retired, cancelled, facts>>

\* The attempt, if it is new, and its assignment are added together.
CommitAssign(t) ==
    /\ At(t, "assign") /\ call[t].fresh
    /\ LET p == call[t].pair IN
           /\ assigned' = [assigned EXCEPT ![p] = call[t].owner]
           /\ attempts' = [attempts EXCEPT ![p[1]] = p[2]]
    /\ Added(t, Idle)
    /\ UNCHANGED <<outcome, terminal, retired, cancelled, facts>>

----------------------------------------------------------------------------
(* ingest: j is how far the attempt was when the report was made.  A report  *)
(* of one that still goes on adds a decision and nothing else; other cuts    *)
(* then fail, as Refused lets them at any time.                              *)

BeginIngest(t, p, j) ==
    LET due == p \notin terminal IN
    /\ At(t, "idle")
    /\ assigned[p] # None /\ j <= stage[p] /\ j >= outcome[p]
    /\ Same(t, IF j = outcome[p] THEN [at |-> "terminal", pair |-> p, due |-> due]
               ELSE [at |-> "retain", fresh |-> TRUE, pair |-> p, report |-> j, due |-> due])
    /\ UNCHANGED <<decisions, facts>>

\* The installed verifier is asked between the reading and the commit.
CommitOutcome(t) ==
    /\ At(t, "retain") /\ call[t].fresh
    /\ outcome' = [outcome EXCEPT ![call[t].pair] = call[t].report]
    /\ Added(t, [at |-> "terminal", pair |-> call[t].pair, due |-> call[t].due])
    /\ UNCHANGED <<attempts, assigned, terminal, retired, cancelled, facts>>

RecordIngested(t) ==
    /\ At(t, "terminal")
    /\ IF call[t].due /\ call[t].pair \notin terminal
       THEN terminal' = terminal \cup {call[t].pair} /\ Added(t, Idle)
       ELSE UNCHANGED terminal /\ Same(t, Idle)
    /\ UNCHANGED <<attempts, assigned, outcome, retired, cancelled, facts>>

----------------------------------------------------------------------------
(* advance and advance_selected                                             *)

\* What a call reads of the entries it may come to.
View(S) == [e \in S |-> [last |-> attempts[e], ended |-> <<e, attempts[e]>> \in terminal,
                         assigned |-> EntryAssigned(e), retired |-> e \in retired]]

BeginAdvance(t) ==
    /\ At(t, "idle")
    /\ \A u \in Callers : ~At(u, "idle") => ~("lease" \in DOMAIN call[u] /\ call[u].lease)
    /\ Same(t, [at |-> "visit", lease |-> TRUE, entry |-> 1,
                view |-> View(Entries), cancelled |-> cancelled])
    /\ UNCHANGED <<decisions, facts>>

BeginSelected(t, e) ==
    /\ At(t, "idle") /\ EntryAssigned(e)
    /\ Same(t, [at |-> "visit", lease |-> FALSE, entry |-> e,
                view |-> View({e}), cancelled |-> cancelled])
    /\ UNCHANGED <<decisions, facts>>

Pair(t) == <<call[t].entry, call[t].ordinal>>

\* The slot has nothing left to do: the next one, if this call has one.
NextSlot(t) ==
    IF call[t].lease /\ call[t].entry < NumEntries
    THEN [at |-> "visit", lease |-> TRUE, entry |-> call[t].entry + 1,
          view |-> [e \in (call[t].entry + 1)..NumEntries |-> call[t].view[e]],
          cancelled |-> call[t].cancelled]
    ELSE Idle

SkipRetired(t) ==
    /\ At(t, "visit") /\ call[t].lease /\ call[t].view[call[t].entry].retired
    /\ Same(t, NextSlot(t))
    /\ UNCHANGED <<decisions, facts>>

Claimed(t, k) == [at |-> "claimed", lease |-> call[t].lease, entry |-> call[t].entry,
                  view |-> call[t].view, cancelled |-> call[t].cancelled, ordinal |-> k]

\* The latest attempt in the view; or the first, if nothing forbids to begin.
Visit(t) ==
    LET e == call[t].entry  v == call[t].view[e] IN
    /\ At(t, "visit") /\ ~(call[t].lease /\ v.retired)
    /\ IF v.last > 0
       THEN Same(t, Claimed(t, v.last)) /\ UNCHANGED attempts
       ELSE IF call[t].cancelled \/ Floor > 1 THEN Same(t, Idle) /\ UNCHANGED attempts
       ELSE IF attempts[e] = 0
       THEN Added(t, Claimed(t, 1)) /\ attempts' = [attempts EXCEPT ![e] = 1]
       ELSE \* somebody else was first: another decision, or by the clock the same
            (Same(t, Claimed(t, 1)) \/ Same(t, Idle)) /\ UNCHANGED attempts
    /\ UNCHANGED <<assigned, outcome, terminal, retired, cancelled, facts>>

\* Mutant: whether the attempt is assigned is told from the old view.
ReloadFromView(t) ==
    LET p == Pair(t)  v == call[t].view[p[1]]
        next == IF v.assigned /\ ~v.ended THEN "idle"
                ELSE IF v.ended THEN "finish" ELSE "unit"
    IN  /\ At(t, "claimed")
        /\ Same(t, IF next = "idle" THEN Idle ELSE [call[t] EXCEPT !.at = next])
        /\ UNCHANGED <<decisions, facts>>

\* The assignment is read again, the rest is not.
Reload(t) ==
    LET p == Pair(t)  v == call[t].view[p[1]]
        next == IF assigned[p] # None /\ ~v.ended THEN "idle"
                ELSE IF assigned[p] = None /\ v.assigned THEN "idle"
                ELSE IF v.ended THEN "finish" ELSE "unit"
    IN  /\ At(t, "claimed")
        /\ Same(t, IF next = "idle" THEN Idle ELSE [call[t] EXCEPT !.at = next])
        /\ UNCHANGED <<decisions, facts>>

\* The trial that this engine runs itself goes on, or ends with a verdict.
AdvanceUnit(t) ==
    LET p == Pair(t) IN
    /\ At(t, "unit")
    /\ executors' = [executors EXCEPT ![p] = @ \cup {"runtime"}]
    /\ \/ stage[p] < 2 /\ stage' = [stage EXCEPT ![p] = 1]
          /\ Same(t, Idle) /\ UNCHANGED <<verdict, terminal>>
       \/ /\ p \notin terminal
          /\ \E w \in Verdicts(p) \ {"lingering"} : verdict' = [verdict EXCEPT ![p] = w]
          /\ stage' = [stage EXCEPT ![p] = 2]
          /\ terminal' = terminal \cup {p} /\ Added(t, Idle)
    /\ UNCHANGED <<attempts, assigned, outcome, retired, cancelled, prepared>>

\* Mutant: that a preparation was reported is taken for its success.
PreparationReported(p) ==
    IF prepared[p] = None \/ (assigned[p] # None /\ outcome[p] < 3) THEN None ELSE "ready"

\* What is known of the preparation: an owner's by its retained report only.
PreparationKnown(p) ==
    IF assigned[p] # None /\ outcome[p] < 3 THEN None ELSE prepared[p]

MayRetry(t) ==
    LET p == Pair(t)  permission == Permission(p, call[t].cancelled)
    IN  /\ verdict[p] # "unusable"
        /\ \/ permission = "ready"
           \/ permission = "prepare" /\ PreparationKnown(p) = "ready"

\* _finish_attempt over unusable resources, an open or a failed preparation.
FinishWaits(t) ==
    LET p == Pair(t) IN
    /\ At(t, "finish")
    /\ \/ verdict[p] = "unusable"
       \/ /\ Permission(p, call[t].cancelled) = "prepare"
          /\ PreparationKnown(p) = "bad" \/ (PreparationKnown(p) = None /\ assigned[p] # None)
    /\ Same(t, Idle)
    /\ UNCHANGED <<decisions, facts>>

\* This engine prepares the retry of its own attempt.
PrepareRetry(t) ==
    LET p == Pair(t) IN
    /\ At(t, "finish") /\ assigned[p] = None /\ PreparationKnown(p) = None
    /\ Permission(p, call[t].cancelled) = "prepare"
    /\ \E r \in {"ready", "bad"} : prepared' = [prepared EXCEPT ![p] = r]
    /\ stage' = [stage EXCEPT ![p] = 3]
    /\ UNCHANGED <<decisions, verdict, executors, call>>

NewAttempt(t) ==
    LET p == Pair(t) IN
    /\ At(t, "finish") /\ MayRetry(t)
    /\ IF attempts[p[1]] = p[2]
       THEN attempts' = [attempts EXCEPT ![p[1]] = p[2] + 1] /\ Added(t, Idle)
       ELSE UNCHANGED attempts /\ Same(t, Idle)
    /\ UNCHANGED <<assigned, outcome, terminal, retired, cancelled, facts>>

\* A run of this engine is retired if all its attempts permit it (or the call
\* fails); an owner's run is the owner's business.
Retire(t) ==
    LET p == Pair(t) IN
    /\ At(t, "finish") /\ verdict[p] # "unusable"
    /\ Permission(p, call[t].cancelled) = "not-permitted"
    /\ IF assigned[p] # None THEN Same(t, NextSlot(t)) /\ UNCHANGED retired
       ELSE IF <<p[1], attempts[p[1]]>> \in terminal /\ prepared[p] \in {None, "ready"}
       THEN retired' = retired \cup {p[1]} /\ Added(t, NextSlot(t))
       ELSE UNCHANGED retired /\ Same(t, Idle)
    /\ UNCHANGED <<attempts, assigned, outcome, terminal, cancelled, facts>>

----------------------------------------------------------------------------
(* cancel, refusals                                                         *)

Cancel ==
    /\ ~cancelled /\ cancelled' = TRUE
    /\ call' = [u \in Callers |-> Stale(call[u])]
    /\ UNCHANGED <<attempts, assigned, outcome, terminal, retired, facts>>

\* A cut that is out of date, a verifier or a store that fails; all calls at
\* once when the process is lost, for whatever counts is on the ledger.
Refused(t) ==
    /\ ~At(t, "idle") /\ Same(t, Idle)
    /\ UNCHANGED <<decisions, facts>>

----------------------------------------------------------------------------
(* The remote owners: AssignedTrial.                                        *)

OwnerBegins(p) ==
    /\ assigned[p] # None /\ stage[p] = 0
    /\ stage' = [stage EXCEPT ![p] = 1]
    /\ executors' = [executors EXCEPT ![p] = @ \cup {assigned[p]}]
    /\ UNCHANGED <<decisions, verdict, prepared, call>>

OwnerCompletes(p) ==
    /\ assigned[p] # None /\ stage[p] = 1
    /\ stage' = [stage EXCEPT ![p] = 2]
    /\ \E w \in Verdicts(p) : verdict' = [verdict EXCEPT ![p] = w]
    /\ UNCHANGED <<decisions, prepared, executors, call>>

\* The owner is told by assignment_control.  When it acts on that is not to be
\* seen here before its report comes, and that may be late.
OwnerPrepares(p) ==
    /\ assigned[p] # None /\ p \in terminal /\ Permission(p, cancelled) = "prepare"
    /\ stage[p] = 2
    /\ stage' = [stage EXCEPT ![p] = 3]
    /\ \E r \in {"ready", "bad"} : prepared' = [prepared EXCEPT ![p] = r]
    /\ UNCHANGED <<decisions, verdict, executors, call>>

Next ==
    \/ \E t \in Callers :
           \/ \E e \in Entries, o \in Owners : BeginAssign(t, e, o)
           \/ CommitAssign(t)
           \/ \E p \in Pairs, j \in 2..3 : BeginIngest(t, p, j)
           \/ CommitOutcome(t) \/ RecordIngested(t)
           \/ BeginAdvance(t) \/ \E e \in Entries : BeginSelected(t, e)
           \/ SkipRetired(t) \/ Visit(t) \/ Reload(t) \/ AdvanceUnit(t)
           \/ FinishWaits(t) \/ PrepareRetry(t) \/ NewAttempt(t) \/ Retire(t)
           \/ Refused(t)
    \/ Cancel
    \/ \E p \in Pairs :
           OwnerBegins(p) \/ OwnerCompletes(p) \/ OwnerPrepares(p)

Spec == Init /\ [][Next]_vars

----------------------------------------------------------------------------
\* No attempt is executed by two: not by this engine and a remote owner, nor
\* by two owners, however advance, assign and a restart meet.  (The runtime
\* owns an attempt it claimed; an assignment joins the attempt in one commit.)
OneExecutor == \A p \in Pairs : Cardinality(executors[p]) <= 1

\* An entry that is not finished: its attempt goes on, waits for a retry that
\* is permitted, or holds resources nobody may reuse.
InFlight(e) ==
    /\ attempts[e] > 0
    /\ LET p == <<e, attempts[e]>> IN
           \/ p \notin terminal \/ verdict[p] = "unusable"
           \/ Permission(p, cancelled) # "not-permitted"

\* No more entries are in flight than the admitted parallelism allows, also
\* when an entry that ended comes back for another attempt.
WithinCapacity == Cardinality({e \in Entries : InFlight(e)}) <= Ceiling

\* Each attempt has one executor, and no more of them are under way than admitted.
ExecutionBounded == OneExecutor /\ WithinCapacity

\* An entry gets another attempt only over a recorded failure whose effects
\* are absent or undone by a preparation the coordinator has on record, and
\* the entries begin in the order of the schedule.
AttemptsJustified ==
    \A e \in Entries :
        /\ \A k \in Ordinals : k < attempts[e] =>
               LET p == <<e, k>> IN
               /\ p \in terminal /\ verdict[p] \in {"retry", "prepare"}
               /\ verdict[p] = "prepare" =>
                      prepared[p] = "ready" /\ (assigned[p] # None => outcome[p] = 3)
        /\ attempts[e] > 0 => \A f \in 1..(e - 1) : attempts[f] > 0

\* Once a cancellation is on the ledger nothing is assigned any more, although
\* a call may have read the ledger before it.
CancelFencesAssignment == [][cancelled => assigned' = assigned]_vars
=============================================================================
