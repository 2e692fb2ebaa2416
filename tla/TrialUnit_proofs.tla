-------------------------- MODULE TrialUnit_proofs --------------------------
(****************************************************************************)
(* What holds of a trial unit for every number of attempts, application     *)
(* phases and domains, every choice of vacuous steps, policies and aborting *)
(* causes, and however often the process is lost.                           *)
(*                                                                          *)
(* The code never asks "did this step run already?" of the trial: it reads  *)
(* the ledger of decisions and the operation under the step's key, both of  *)
(* which outlive the process.  The inductive invariant says what those two  *)
(* say of each other (StepHolds), what the later steps of an attempt say    *)
(* about its earlier ones (AttemptHolds), and what a call may rely on of    *)
(* what it read when it chose its step (CallHolds), however much those who  *)
(* do not take the experiment lock have done since.                         *)
(****************************************************************************)
EXTENDS TrialUnit, WellFoundedInduction, SequenceTheorems, TLAPS

Upward == {Configure} \cup Range(Application)
Early == Upward \cup {Stop}
Downward == Range(Teardown) \cup {Cleanup}

OpenRecords == {"accepted", "running", "indeterminate"}
Records == OpenRecords \cup {"succeeded", "cancelled"}
AllObservations == {"good", "idempotent", "bad"}
Places == {"idle", "unit", "route", "step", "accepted", "running", "observe"}
AtAStep == {"step", "accepted", "running"}

Typed ==
    /\ attempt \in 0..MaxAttempts
    /\ started \in [Attempts -> SUBSET Steps]
    /\ decided \in [Attempts -> [Steps -> Outcomes \cup {None}]]
    /\ record \in [Attempts -> [Steps -> Records \cup {None}]]
    /\ callback \in [Attempts -> [Steps -> {None, "running", "ended"}]]
    /\ runs \in [Attempts -> [Steps -> Nat]]
    /\ seen \in [Attempts -> [Modules -> AllObservations \cup {None}]]
    /\ \A a \in Attempts : \A s \in Modules : seen[a][s] \in Observations[s] \cup {None}
    /\ interrupted \in [Attempts -> {None, "cancellation", "timeout"}]
    /\ execution \in [Attempts -> Executions \cup {None}]
    /\ terminal \in [Attempts -> {None, "reusable", "not-reusable"}]
    /\ expired \in BOOLEAN /\ cancelled \in BOOLEAN /\ stopped \in BOOLEAN
    /\ retired \in BOOLEAN /\ policy \in Policies
    /\ call \in [at : Places, step : Steps \cup {None}, cancelled : BOOLEAN]

\* One step of one attempt: its operation, its code and its decision.  Only
\* the step a call is at has an operation that is accepted or running.
StepHolds(a, s) ==
    /\ runs[a][s] = IF record[a][s] \in {None, "accepted", "cancelled"} THEN 0 ELSE 1
    /\ callback[a][s] = "running" => record[a][s] \in {"running", "indeterminate"}
    /\ record[a][s] # None => s \in started[a]
    /\ decided[a][s] # None => record[a][s] \notin OpenRecords
    /\ decided[a][s] = "succeeded" /\ s \notin Vacuous => record[a][s] = "succeeded"
    /\ record[a][s] = "accepted" => a = attempt /\ call.at = "accepted" /\ call.step = s
    /\ record[a][s] = "running" => a = attempt /\ call.at = "running" /\ call.step = s
    /\ s \in Modules /\ record[a][s] \in {"running", "succeeded"} /\ callback[a][s] # "running" =>
           seen[a][s] \in Observations[s]

\* A retry has to be prepared only over a failure that left effects.
NeedsPreparation(a) ==
    /\ terminal[a] = "reusable"
    /\ execution[a] \in Executions /\ execution[a].state = "failed" /\ ~execution[a].absent
    /\ policy = "reset"

Succeeded(a, steps) == \A s \in steps : decided[a][s] = "succeeded"

\* One attempt: what its later steps say about its earlier ones.
AttemptHolds(a) ==
    /\ a > attempt => /\ started[a] = {} /\ interrupted[a] = None
                      /\ execution[a] = None /\ terminal[a] = None
    /\ Retry \in started[a] => NeedsPreparation(a)
    /\ \A s \in Downward : record[a][s] # None =>
           /\ execution[a] # None /\ decided[a][Capture] # None
           /\ \A t \in Early : record[a][t] \notin OpenRecords
    /\ record[a][Cleanup] # None => Succeeded(a, Range(Teardown))
    /\ terminal[a] # None => execution[a] # None /\ decided[a][Capture] # None
                             /\ Succeeded(a, Downward)
    /\ terminal[a] = "reusable" => seen[a][Cleanup] # "bad"
    /\ interrupted[a] # None /\ execution[a] # None =>
           execution[a].state \in {"aborted", "cancelled", "timed-out"}

\* What a call relies on of what it read.
CallHolds ==
    /\ call.at # "idle" => attempt > 0 /\ ~retired
    /\ call.at \in {"unit", "observe"} => execution[attempt] = None
    /\ call.at \in AtAStep =>
           /\ call.step \in started[attempt] /\ decided[attempt][call.step] = None
           /\ call.at = "step" => record[attempt][call.step] \notin {"accepted", "running"}
           /\ call.at = "accepted" => record[attempt][call.step] \in {"accepted", "cancelled"}
           /\ call.at = "running" => record[attempt][call.step] = "running"
           /\ call.step \in Upward => interrupted[attempt] = None
           /\ call.step \in Early <=> execution[attempt] = None
           /\ call.step # Retry => terminal[attempt] = None
           /\ call.step \in Downward => decided[attempt][Capture] # None
           /\ call.step = Cleanup => Succeeded(attempt, Range(Teardown))

\* RetiredIsClean in terms of single steps.
RetiredHolds ==
    retired =>
        /\ \A a \in Attempts, s \in Steps :
               record[a][s] # "indeterminate" /\ callback[a][s] # "running"
        /\ \A a \in 1..attempt : /\ Succeeded(a, Downward)
                                 /\ seen[a][Cleanup] \in {"good", "idempotent"}
                                 /\ runs[a][Retry] > 0 => seen[a][Retry] = "good"

Single == \A a \in Attempts : AttemptHolds(a) /\ \A s \in Steps : StepHolds(a, s)

IInv == Typed /\ Single /\ CallHolds /\ AttemptsDisjoint /\ RetiredHolds

----------------------------------------------------------------------------
(* Steps and sequences of steps.                                            *)

\* The kinds of step are apart from each other and from what else a call may
\* be told to do.
LEMMA Kinds ==
    /\ Steps = Early \cup {Capture, Retry} \cup Downward
    /\ Modules \subseteq Steps /\ Modules = {Configure, Capture, Cleanup, Retry}
    /\ Range(Application) \subseteq Upward /\ Configure \in Upward
    /\ Upward \subseteq Early /\ Stop \in Early /\ Stop \notin Upward
    /\ Range(Teardown) \subseteq Downward /\ Cleanup \in Downward
    /\ Cleanup \notin Range(Teardown)
    /\ Early \cap Downward = {} /\ {Capture, Retry} \cap (Early \cup Downward) = {}
    /\ Capture # Retry
    /\ Vacuous \cap (Modules \cup {Stop}) = {}
<1>1. \A s \in Range(Application) : s[1] = "apply"
    BY DEF Range, Application
<1>2. \A s \in Range(Teardown) : s[1] = "destroy"
    BY DEF Range, Teardown
<1>3. /\ Configure[1] = "configure" /\ Stop[1] = "stop" /\ Capture[1] = "capture"
      /\ Cleanup[1] = "cleanup" /\ Retry[1] = "retry"
    BY DEF Configure, Stop, Capture, Cleanup, Retry
<1>4. Vacuous \subseteq Range(Application) \cup Range(Teardown)
    BY VacuousAssumption
<1>5. Steps = Early \cup {Capture, Retry} \cup Downward
    BY DEF Steps, Modules, Early, Upward, Downward
<1> QED BY <1>1, <1>2, <1>3, <1>4, <1>5 DEF Steps, Modules, Early, Upward, Downward

Other == {<<"observe", 0>>, <<"terminal", 0>>, <<"stuck", 0>>, <<"retire", 0>>, <<"again", 0>>}

LEMMA OtherIsNoStep == Other \cap Steps = {}
<1>1. \A s \in Range(Application) : s[1] = "apply"
    BY DEF Range, Application
<1>2. \A s \in Range(Teardown) : s[1] = "destroy"
    BY DEF Range, Teardown
<1>3. /\ Configure[1] = "configure" /\ Stop[1] = "stop" /\ Capture[1] = "capture"
      /\ Cleanup[1] = "cleanup" /\ Retry[1] = "retry"
    BY DEF Configure, Stop, Capture, Cleanup, Retry
<1>4. \A s \in Steps : s[1] \in {"apply", "destroy", "configure", "stop", "capture", "cleanup", "retry"}
    BY <1>1, <1>2, <1>3 DEF Steps, Modules
<1>5. \A s \in Other : s[1] \in {"observe", "terminal", "stuck", "retire", "again"}
    BY DEF Other
<1> QED BY <1>4, <1>5

LEMMA ObservationKinds ==
    /\ \A s \in Modules : Observations[s] \subseteq AllObservations /\ None \notin Observations[s]
    /\ Observations[Cleanup] = {"good", "idempotent", "bad"}
<1>1. Cleanup \notin {Configure, Capture} /\ Retry \notin {Configure, Capture, Cleanup}
    BY DEF Configure, Capture, Cleanup, Retry
<1>2. /\ Observations[Configure] = {"good"} /\ Observations[Capture] = {"good"}
      /\ Observations[Cleanup] = {"good", "idempotent", "bad"}
      /\ Observations[Retry] = {"good", "bad"}
    BY <1>1 DEF Observations, Modules
<1>3. None \notin AllObservations
    BY NamesAssumption DEF AllObservations
<1> QED BY <1>2, <1>3 DEF Modules, AllObservations

\* Every set of positions that is not empty has a first one.
LEMMA LeastPosition ==
    ASSUME NEW S \in SUBSET Nat, S # {}
    PROVE  Min(S) \in S /\ \A j \in S : Min(S) <= j
<1> DEFINE R == {q \in Nat \X Nat : q[1] < q[2]}
<1>1. IsWellFoundedOn(R, Nat)
    BY NatLessThanWellFounded DEF OpToRel
<1>2. PICK x \in S : \A y \in S : <<y, x>> \notin R
  <2> HIDE DEF R
  <2> QED BY <1>1, WFMin, Zenon
<1>3. \A y \in S : x <= y
  <2> SUFFICES ASSUME NEW y \in S PROVE x <= y
      OBVIOUS
  <2>1. x \in Nat /\ y \in Nat
      OBVIOUS
  <2>2. <<y, x>> \in R <=> y < x
      BY <2>1
  <2>3. ~(y < x)
      BY <1>2, <2>2
  <2> QED BY <2>1, <2>3
<1>4. \E z \in S : \A y \in S : z <= y
    BY <1>3
<1> QED BY <1>4, Zenon DEF Min

LEMMA Join ==
    ASSUME NEW S, NEW f \in Seq(S), NEW g \in Seq(S)
    PROVE  /\ DOMAIN f = 1..Len(f) /\ Len(f) \in Nat /\ Len(g) \in Nat
           /\ DOMAIN (f \o g) = 1..(Len(f) + Len(g))
           /\ \A i \in 1..Len(f) : (f \o g)[i] = f[i] /\ i \in DOMAIN (f \o g)
           /\ \A i \in 1..Len(g) : (f \o g)[Len(f) + i] = g[i] /\ Len(f) + i \in DOMAIN (f \o g)
           /\ \A i \in DOMAIN (f \o g) : /\ (f \o g)[i] \in Range(f) \cup Range(g)
                                         /\ i <= Len(f) => (f \o g)[i] \in Range(f)
<1> DEFINE h == f \o g
<1>1. Len(f) \in Nat /\ Len(g) \in Nat /\ DOMAIN f = 1..Len(f) /\ DOMAIN g = 1..Len(g)
    BY LenProperties
<1>2. /\ h \in Seq(S) /\ Len(h) = Len(f) + Len(g)
      /\ \A i \in 1..(Len(f) + Len(g)) : h[i] = IF i <= Len(f) THEN f[i] ELSE g[i - Len(f)]
    BY ConcatProperties
<1>3. DOMAIN h = 1..(Len(f) + Len(g))
    BY <1>2, LenProperties
<1> HIDE DEF h
<1>4. \A i \in 1..Len(f) : h[i] = f[i] /\ i \in DOMAIN h
    BY <1>1, <1>2, <1>3
<1>5. \A i \in 1..Len(g) : h[Len(f) + i] = g[i] /\ Len(f) + i \in DOMAIN h
    BY <1>1, <1>2, <1>3
<1>6. \A i \in DOMAIN h : h[i] \in Range(f) \cup Range(g) /\ (i <= Len(f) => h[i] \in Range(f))
  <2> SUFFICES ASSUME NEW i \in 1..(Len(f) + Len(g))
               PROVE  h[i] \in Range(f) \cup Range(g) /\ (i <= Len(f) => h[i] \in Range(f))
      BY <1>3
  <2>1. CASE i <= Len(f)
    <3>1. i \in DOMAIN f /\ h[i] = f[i]
        BY <1>1, <1>2, <2>1
    <3> QED BY <3>1 DEF Range
  <2>2. CASE ~(i <= Len(f))
    <3>1. i - Len(f) \in DOMAIN g /\ h[i] = g[i - Len(f)]
        BY <1>1, <1>2, <2>2
    <3> QED BY <2>2, <3>1 DEF Range
  <2> QED BY <2>1, <2>2
<1> QED BY <1>1, <1>3, <1>4, <1>5, <1>6 DEF h

\* What a walk over planned steps comes to.  D is what was decided of each:
\* the walk is over when all have succeeded, and otherwise stops at one that
\* has not, in the second part only when the first part is done.
Open(D, steps) == {i \in DOMAIN steps : D[steps[i]] # "succeeded"}
FirstOpen(D, steps) == steps[Min(Open(D, steps))]

LEMMA Walk ==
    ASSUME NEW S, NEW f \in Seq(S), NEW g \in Seq(S), NEW D
    PROVE  /\ Open(D, f \o g) = {} <=> \A s \in Range(f) \cup Range(g) : D[s] = "succeeded"
           /\ Open(D, f \o g) # {} =>
                  /\ FirstOpen(D, f \o g) \in Range(f) \cup Range(g)
                  /\ D[FirstOpen(D, f \o g)] # "succeeded"
                  /\ FirstOpen(D, f \o g) \notin Range(f) =>
                         \A s \in Range(f) : D[s] = "succeeded"
<1> DEFINE h == f \o g
           m == Len(f)
           n == Len(g)
           P == Open(D, h)
<1>1. /\ DOMAIN f = 1..m /\ DOMAIN g = 1..n /\ m \in Nat /\ n \in Nat /\ DOMAIN h = 1..(m + n)
      /\ \A i \in 1..m : h[i] = f[i] /\ i \in DOMAIN h
      /\ \A i \in 1..n : h[m + i] = g[i] /\ m + i \in DOMAIN h
      /\ \A i \in DOMAIN h : /\ h[i] \in Range(f) \cup Range(g)
                             /\ i <= m => h[i] \in Range(f)
    BY Join, LenProperties
<1>2. \A i : i \in P <=> i \in DOMAIN h /\ D[h[i]] # "succeeded"
    BY DEF Open
<1> HIDE DEF h, m, n, P
<1>3. \A s \in Range(f) : \E i \in 1..m : s = f[i]
    BY <1>1 DEF Range
<1>4. \A s \in Range(g) : \E i \in 1..n : s = g[i]
    BY <1>1 DEF Range
<1>5. P = {} <=> \A s \in Range(f) \cup Range(g) : D[s] = "succeeded"
  <2>1. ASSUME P = {}, NEW s \in Range(f) PROVE D[s] = "succeeded"
      BY <2>1, <1>1, <1>2, <1>3
  <2>2. ASSUME P = {}, NEW s \in Range(g) PROVE D[s] = "succeeded"
    <3>1. PICK i \in 1..n : s = g[i]
        BY <1>4
    <3>2. h[m + i] = s /\ m + i \in DOMAIN h
        BY <3>1, <1>1
    <3> QED BY <2>2, <3>2, <1>2
  <2>3. ASSUME \A s \in Range(f) \cup Range(g) : D[s] = "succeeded" PROVE P = {}
      BY <2>3, <1>1, <1>2
  <2> QED BY <2>1, <2>2, <2>3
<1>6. ASSUME P # {}
      PROVE  \E k \in P : /\ k = Min(P)
                          /\ h[k] \in Range(f) \cup Range(g)
                          /\ D[h[k]] # "succeeded"
                          /\ h[k] \notin Range(f) => \A s \in Range(f) : D[s] = "succeeded"
  <2>1. P \in SUBSET Nat
      BY <1>1, <1>2
  <2>2. Min(P) \in P /\ \A j \in P : Min(P) <= j
      BY <1>6, <2>1, LeastPosition
  <2>3. PICK k \in P : k = Min(P) /\ \A j \in P : k <= j
      BY <2>2
  <2>4. h[k] \in Range(f) \cup Range(g) /\ D[h[k]] # "succeeded"
      BY <1>1, <1>2, <2>3
  <2>5. ASSUME h[k] \notin Range(f), NEW s \in Range(f) PROVE D[s] = "succeeded"
    <3>1. k \in Nat /\ ~(k <= m)
        BY <1>1, <1>2, <2>1, <2>3, <2>5
    <3>2. PICK i \in 1..m : s = f[i]
        BY <1>3
    <3>3. i \notin P
        BY <1>1, <2>3, <3>1, <3>2
    <3> QED BY <1>1, <1>2, <3>2, <3>3
  <2> QED BY <2>3, <2>4, <2>5
<1>7. P # {} => /\ h[Min(P)] \in Range(f) \cup Range(g)
                /\ D[h[Min(P)]] # "succeeded"
                /\ h[Min(P)] \notin Range(f) => \A s \in Range(f) : D[s] = "succeeded"
    BY <1>6
<1>8. FirstOpen(D, h) = h[Min(P)]
    BY DEF FirstOpen, P
<1> QED BY <1>5, <1>7, <1>8 DEF h, P

LEMMA UndoneIsOpen ==
    ASSUME NEW a, NEW steps
    PROVE  /\ Undone(a, steps) = Open(decided[a], steps)
           /\ FirstUndone(a, steps) = FirstOpen(decided[a], steps)
<1>1. Undone(a, steps) = Open(decided[a], steps)
    BY DEF Undone, Open
<1> QED BY <1>1 DEF FirstUndone, FirstOpen

\* The plan's phases and domains as sequences.
LEMMA Sequences ==
    /\ Application \in Seq(Steps) /\ Teardown \in Seq(Steps)
    /\ <<Configure>> \in Seq(Steps) /\ <<Cleanup>> \in Seq(Steps)
    /\ Range(<<Configure>>) = {Configure} /\ Range(<<Cleanup>>) = {Cleanup}
<1>1. Configure \in Steps /\ Cleanup \in Steps
    BY DEF Steps, Modules
<1>2. Application \in [1..Phases -> Steps] /\ Teardown \in [1..Domains -> Steps]
    BY DEF Steps, Range, Application, Teardown
<1>3. Application \in Seq(Steps) /\ Teardown \in Seq(Steps)
    BY <1>2, SizesAssumption, SeqDef
<1> QED BY <1>1, <1>3 DEF Range

\* The steps that bring the trial up.
LEMMA OpeningWalk ==
    ASSUME NEW a, Undone(a, Opening) # {}
    PROVE  FirstUndone(a, Opening) \in Upward /\ decided[a][FirstUndone(a, Opening)] # "succeeded"
<1>1. Opening = <<Configure>> \o Application
    BY DEF Opening
<1>2. Open(decided[a], <<Configure>> \o Application) # {}
    BY <1>1, UndoneIsOpen
<1>3. /\ FirstOpen(decided[a], <<Configure>> \o Application) \in {Configure} \cup Range(Application)
      /\ decided[a][FirstOpen(decided[a], <<Configure>> \o Application)] # "succeeded"
    BY <1>2, Sequences, Walk, Zenon
<1> QED BY <1>1, <1>3, UndoneIsOpen DEF Upward

\* The steps that take it down: cleanup comes after all of teardown.
LEMMA ClosingWalk ==
    ASSUME NEW a
    PROVE  /\ Undone(a, Closing) = {} <=> Succeeded(a, Downward)
           /\ Undone(a, Closing) # {} =>
                  /\ FirstUndone(a, Closing) \in Downward
                  /\ decided[a][FirstUndone(a, Closing)] # "succeeded"
                  /\ FirstUndone(a, Closing) = Cleanup => Succeeded(a, Range(Teardown))
<1>1. Closing = Teardown \o <<Cleanup>>
    BY DEF Closing
<1>2. /\ Open(decided[a], Teardown \o <<Cleanup>>) = {} <=>
             \A s \in Range(Teardown) \cup Range(<<Cleanup>>) : decided[a][s] = "succeeded"
      /\ Open(decided[a], Teardown \o <<Cleanup>>) # {} =>
             /\ FirstOpen(decided[a], Teardown \o <<Cleanup>>) \in Range(Teardown) \cup Range(<<Cleanup>>)
             /\ decided[a][FirstOpen(decided[a], Teardown \o <<Cleanup>>)] # "succeeded"
             /\ FirstOpen(decided[a], Teardown \o <<Cleanup>>) \notin Range(Teardown) =>
                    \A s \in Range(Teardown) : decided[a][s] = "succeeded"
    BY Sequences, Walk, Zenon
<1>3. Cleanup \notin Range(Teardown)
    BY Kinds
<1>4. Range(<<Cleanup>>) = {Cleanup}
    BY Sequences
<1> QED BY <1>1, <1>2, <1>3, <1>4, UndoneIsOpen DEF Downward, Succeeded

LEMMA TeardownWalk ==
    ASSUME NEW a
    PROVE  Undone(a, Teardown) = {} <=> Succeeded(a, Range(Teardown))
BY DEF Undone, Succeeded, Range

LEMMA NobodyIs ==
    ASSUME NEW R, NEW x
    PROVE  {p \in Attempts \X Steps : R[p[1]][p[2]] = x} = {}
               <=> \A a \in Attempts, s \in Steps : R[a][s] # x
<1>1. ASSUME {p \in Attempts \X Steps : R[p[1]][p[2]] = x} = {}, NEW a \in Attempts, NEW s \in Steps
      PROVE  R[a][s] # x
  <2>1. <<a, s>> \in Attempts \X Steps
      OBVIOUS
  <2> QED BY <1>1, <2>1
<1>2. ASSUME \A a \in Attempts, s \in Steps : R[a][s] # x
      PROVE  {p \in Attempts \X Steps : R[p[1]][p[2]] = x} = {}
    BY <1>2
<1> QED BY <1>1, <1>2

\* A write of one step of one attempt.
LEMMA Update ==
    ASSUME NEW A, NEW B, NEW V, NEW f \in [A -> [B -> V]], NEW a \in A, NEW b \in B,
           NEW v \in V, NEW g, g = [f EXCEPT ![a][b] = v]
    PROVE  /\ g \in [A -> [B -> V]]
           /\ \A x \in A, y \in B : g[x][y] = IF x = a /\ y = b THEN v ELSE f[x][y]
OBVIOUS

----------------------------------------------------------------------------
(* What a call reads off the ledger.                                        *)

\* The step a call is told to take is not decided yet, and the earlier steps
\* are as it needs them.
LEMMA TodoIsReady ==
    ASSUME IInv, attempt \in Attempts, At("route"), Todo \in Steps
    PROVE  /\ decided[attempt][Todo] = None
           /\ Todo \in Upward => interrupted[attempt] = None
           /\ Todo \in Early <=> execution[attempt] = None
           /\ Todo # Retry => terminal[attempt] = None
           /\ Todo \in Downward => decided[attempt][Capture] # None
           /\ Todo = Cleanup => Succeeded(attempt, Range(Teardown))
           /\ Todo = Retry => NeedsPreparation(attempt)
<1> DEFINE a == attempt
<1>1. /\ decided[a] \in [Steps -> Outcomes \cup {None}]
      /\ \A s \in Steps : decided[a][s] # "succeeded" => decided[a][s] \in {None, "failed", "cancelled"}
      /\ execution[a] \in Executions \cup {None} /\ terminal[a] \in {None, "reusable", "not-reusable"}
      /\ policy \in {"prohibited", "idempotent", "reset"}
    BY PoliciesAssumption DEF IInv, Typed, Outcomes
<1>2. AttemptHolds(a)
    BY DEF IInv, Single
<1>3. terminal[a] # None => execution[a] # None
    BY <1>2 DEF AttemptHolds
<1>4. Other \cap Steps = {}
    BY OtherIsNoStep
<1>5. CASE terminal[a] # None
  <2>1. Todo = FinishStep(a)
      BY <1>5 DEF Todo
  <2>2. /\ Todo = Retry /\ decided[a][Retry] = None /\ terminal[a] = "reusable"
        /\ retry_permission(a) \notin {"not-permitted", "ready"}
      BY <2>1, <1>4 DEF FinishStep, Other
  <2>3. NeedsPreparation(a)
      BY <2>2, <1>1, <1>3, <1>5 DEF retry_permission, NeedsPreparation
  <2> QED BY <2>2, <2>3, <1>3, <1>5, Kinds
<1>6. CASE terminal[a] = None /\ execution[a] = None
  <2>1. Todo = ExecutionStep(a)
      BY <1>6 DEF Todo
  <2>2. CASE interrupted[a] # None
    <3>1. Todo = Stop /\ decided[a][Stop] = None
        BY <2>1, <2>2, <1>4 DEF ExecutionStep, Other
    <3> QED BY <3>1, <1>6, Kinds
  <2>3. CASE interrupted[a] = None
    <3>1. /\ Todo = FirstUndone(a, Opening) /\ Undone(a, Opening) # {}
          /\ decided[a][FirstUndone(a, Opening)] = None
        BY <2>1, <2>3, <1>4 DEF ExecutionStep, Other
    <3>2. Todo \in Upward
        BY <3>1, OpeningWalk
    <3> QED BY <3>1, <3>2, <2>3, <1>6, Kinds
  <2> QED BY <2>2, <2>3
<1>7. CASE terminal[a] = None /\ execution[a] # None
  <2>1. Todo = AfterExecutionStep(a)
      BY <1>7 DEF Todo
  <2>2. CASE decided[a][Capture] = None
    <3>1. Todo = Capture
        BY <2>1, <2>2 DEF AfterExecutionStep
    <3> QED BY <3>1, <2>2, <1>7, Kinds
  <2>3. CASE decided[a][Capture] # None
    <3>1. /\ Todo = FirstUndone(a, Closing) /\ Undone(a, Closing) # {}
          /\ decided[a][FirstUndone(a, Closing)] = None
        BY <2>1, <2>3, <1>4 DEF AfterExecutionStep, Other
    <3>2. Todo \in Downward /\ (Todo = Cleanup => Succeeded(a, Range(Teardown)))
        BY <3>1, ClosingWalk
    <3> QED BY <3>1, <3>2, <2>3, <1>7, Kinds
  <2> QED BY <2>2, <2>3
<1> QED BY <1>5, <1>6, <1>7

\* The terminal decision is told when every step that takes the trial down
\* has succeeded.
LEMMA TerminalIsReady ==
    ASSUME IInv, attempt \in Attempts, Todo = <<"terminal", 0>>
    PROVE  /\ terminal[attempt] = None /\ execution[attempt] # None
           /\ decided[attempt][Capture] # None /\ Succeeded(attempt, Downward)
<1> DEFINE a == attempt
<1>1. <<"terminal", 0>> \notin Steps
    BY OtherIsNoStep DEF Other
<1>2. /\ <<"terminal", 0>>[1] = "terminal" /\ <<"stuck", 0>>[1] = "stuck" /\ <<"retire", 0>>[1] = "retire"
      /\ <<"again", 0>>[1] = "again" /\ <<"observe", 0>>[1] = "observe"
    OBVIOUS
<1>3. Retry \in Steps /\ Stop \in Steps /\ Capture \in Steps /\ Upward \subseteq Steps /\ Downward \subseteq Steps
    BY Kinds
<1>4. terminal[a] = None
  <2> SUFFICES ASSUME terminal[a] # None PROVE FALSE
      OBVIOUS
  <2>1. FinishStep(a) = <<"terminal", 0>>
      BY DEF Todo
  <2>2. FinishStep(a) \in {<<"stuck", 0>>, <<"retire", 0>>, <<"again", 0>>, Retry}
      BY DEF FinishStep
  <2> QED BY <2>1, <2>2, <1>1, <1>2, <1>3
<1>5. execution[a] # None
  <2> SUFFICES ASSUME execution[a] = None PROVE FALSE
      OBVIOUS
  <2>1. ExecutionStep(a) = <<"terminal", 0>>
      BY <1>4 DEF Todo
  <2>2. ExecutionStep(a) \in {<<"observe", 0>>, Stop} \cup Upward
      BY OpeningWalk DEF ExecutionStep
  <2> QED BY <2>1, <2>2, <1>1, <1>2, <1>3
<1>6. AfterExecutionStep(a) = <<"terminal", 0>>
    BY <1>4, <1>5 DEF Todo
<1>7. decided[a][Capture] # None
    BY <1>6, <1>1, <1>3 DEF AfterExecutionStep
<1>8. Undone(a, Closing) = {}
  <2> SUFFICES ASSUME Undone(a, Closing) # {} PROVE FALSE
      OBVIOUS
  <2>1. FirstUndone(a, Closing) \in Downward
      BY ClosingWalk
  <2>2. AfterExecutionStep(a) \in {<<"stuck", 0>>} \cup Downward
      BY <1>7, <2>1 DEF AfterExecutionStep
  <2> QED BY <2>2, <1>1, <1>2, <1>3, <1>6
<1> QED BY <1>4, <1>5, <1>7, <1>8, ClosingWalk

\* An attempt is finished when its terminal decision says so.
LEMMA FinishIsTold ==
    ASSUME IInv, attempt \in Attempts, Todo \in {<<"again", 0>>, <<"retire", 0>>}
    PROVE  terminal[attempt] = "reusable" /\ Todo = FinishStep(attempt)
<1> DEFINE a == attempt
<1>1. <<"again", 0>> \notin Steps /\ <<"retire", 0>> \notin Steps
    BY OtherIsNoStep DEF Other
<1>2. /\ <<"terminal", 0>>[1] = "terminal" /\ <<"stuck", 0>>[1] = "stuck" /\ <<"retire", 0>>[1] = "retire"
      /\ <<"again", 0>>[1] = "again" /\ <<"observe", 0>>[1] = "observe"
    OBVIOUS
<1>3. Retry \in Steps /\ Stop \in Steps /\ Capture \in Steps /\ Upward \subseteq Steps /\ Downward \subseteq Steps
    BY Kinds
<1>4. ExecutionStep(a) \in {<<"observe", 0>>} \cup Steps
    BY OpeningWalk, <1>3 DEF ExecutionStep
<1>5. AfterExecutionStep(a) \in {<<"stuck", 0>>, <<"terminal", 0>>} \cup Steps
    BY ClosingWalk, <1>3 DEF AfterExecutionStep
<1>6. Todo \notin {<<"observe", 0>>, <<"stuck", 0>>, <<"terminal", 0>>} \cup Steps
    BY <1>1, <1>2
<1>7. terminal[a] # None /\ Todo = FinishStep(a)
    BY <1>4, <1>5, <1>6 DEF Todo
<1>8. terminal[a] = "reusable"
    BY <1>6, <1>7 DEF FinishStep
<1> QED BY <1>7, <1>8

----------------------------------------------------------------------------
(* Steps that leave the ledger alone.                                       *)

LEMMA CallMoves ==
    ASSUME call \in [at : Places, step : Steps \cup {None}, cancelled : BOOLEAN]
    PROVE  /\ \A place \in Places : Go(place) =>
                  /\ call' \in [at : Places, step : Steps \cup {None}, cancelled : BOOLEAN]
                  /\ call'.at = place /\ call'.step = call.step
           /\ Return => /\ call' \in [at : Places, step : Steps \cup {None}, cancelled : BOOLEAN]
                        /\ call'.at = "idle"
<1>1. \A place \in Places : Go(place) =>
          /\ call' \in [at : Places, step : Steps \cup {None}, cancelled : BOOLEAN]
          /\ call'.at = place /\ call'.step = call.step
    BY DEF Go
<1>2. Return => /\ call' \in [at : Places, step : Steps \cup {None}, cancelled : BOOLEAN]
                /\ call'.at = "idle"
    BY DEF Return, Idle, Places
<1> QED BY <1>1, <1>2

\* Where a call is, there is an attempt, and the run is not retired.
LEMMA UnderWay ==
    ASSUME IInv, call.at # "idle"
    PROVE  attempt \in Attempts /\ ~retired
BY SizesAssumption DEF IInv, Typed, CallHolds, Attempts

LEMMA AttemptKept ==
    ASSUME NEW a \in Attempts, AttemptHolds(a), UNCHANGED <<ledger, policy>>,
           terminal[a] = "reusable" => seen'[a][Cleanup] = seen[a][Cleanup],
           \A s \in Downward : record'[a][s] # None => record[a][s] # None,
           \A t \in Early : record'[a][t] \in OpenRecords => record[a][t] \in OpenRecords
    PROVE  AttemptHolds(a)'
<1>1. /\ started' = started /\ decided' = decided /\ interrupted' = interrupted
      /\ execution' = execution /\ terminal' = terminal /\ policy' = policy /\ attempt' = attempt
    BY DEF ledger
<1>2. Cleanup \in Downward
    BY Kinds
<1> QED BY <1>1, <1>2 DEF AttemptHolds, NeedsPreparation, Succeeded

\* A step of the call, of the clock or of the run's controls alone.
LEMMA QuietStep ==
    ASSUME IInv, Typed', UNCHANGED <<ledger, operations, policy>>,
           \/ call' = call
           \/ call.at \notin {"accepted", "running"} /\ CallHolds'
    PROVE  IInv'
<1>1. /\ started' = started /\ decided' = decided /\ interrupted' = interrupted
      /\ execution' = execution /\ terminal' = terminal /\ policy' = policy /\ attempt' = attempt
      /\ retired' = retired
      /\ record' = record /\ callback' = callback /\ runs' = runs /\ seen' = seen
    BY DEF ledger, operations
<1>2. ASSUME NEW a \in Attempts PROVE AttemptHolds(a)'
    BY <1>1, AttemptKept DEF IInv, Single
<1>3. ASSUME NEW a \in Attempts, NEW s \in Steps PROVE StepHolds(a, s)'
  <2>1. StepHolds(a, s)
      BY DEF IInv, Single
  <2> QED BY <1>1, <2>1 DEF StepHolds
<1>4. CallHolds'
    BY <1>1 DEF IInv, CallHolds, Succeeded
<1>5. AttemptsDisjoint'
    BY <1>1 DEF IInv, AttemptsDisjoint, Settled
<1>6. RetiredHolds'
    BY <1>1 DEF IInv, RetiredHolds, Succeeded
<1> QED BY <1>2, <1>3, <1>4, <1>5, <1>6 DEF IInv, Single

\* A step of the operation the call is at.
LEMMA OperationStep ==
    ASSUME IInv, Typed', call.at \in AtAStep, UNCHANGED <<ledger, seen, policy>>,
           \A a \in Attempts, s \in Steps : ~(a = attempt /\ s = call.step) =>
               /\ record'[a][s] = record[a][s]
               /\ callback'[a][s] = callback[a][s]
               /\ runs'[a][s] = runs[a][s],
           record[attempt][call.step] # None
               \/ \A a \in Attempts, s \in Steps : record[a][s] # "indeterminate",
           \A a \in Attempts, s \in Steps : a = attempt /\ s = call.step => StepHolds(a, s)',
           CallHolds'
    PROVE  IInv'
<1>1. /\ started' = started /\ decided' = decided /\ interrupted' = interrupted
      /\ execution' = execution /\ terminal' = terminal /\ policy' = policy /\ attempt' = attempt
      /\ retired' = retired /\ seen' = seen
    BY DEF ledger
<1>2. attempt \in Attempts /\ ~retired /\ call.step \in started[attempt]
    BY UnderWay DEF IInv, CallHolds, AtAStep
<1>3. call.step \in Steps
    BY <1>2 DEF IInv, Typed
<1>4. ASSUME NEW a \in Attempts, NEW s \in Steps PROVE StepHolds(a, s)'
  <2>1. StepHolds(a, s)
      BY DEF IInv, Single
  <2>2. CASE a = attempt /\ s = call.step
      BY <2>2
  <2>3. CASE ~(a = attempt /\ s = call.step)
    <3>1. record[a][s] \notin {"accepted", "running"}
        BY <2>1, <2>3 DEF StepHolds
    <3> QED BY <1>1, <2>1, <2>3, <3>1 DEF StepHolds
  <2> QED BY <2>2, <2>3
<1>5. ASSUME NEW a \in Attempts PROVE AttemptHolds(a)'
  <2>1. AttemptHolds(a)
      BY DEF IInv, Single
  <2>2. CASE a # attempt
    <3>1. \A s \in Steps : record'[a][s] = record[a][s]
        BY <2>2
    <3> QED BY <1>1, <2>1, <3>1, AttemptKept, Kinds
  <2>3. CASE a = attempt
    <3>1. CASE call.step \notin Downward /\ call.step \notin Early
      <4>1. \A s \in Downward \cup Early : record'[a][s] = record[a][s]
          BY <3>1, Kinds
      <4> QED BY <1>1, <2>1, <4>1, AttemptKept
    <3>2. CASE call.step \in Early
      <4>1. execution[a] = None /\ terminal[a] = None
          BY <2>1, <2>3, <3>2 DEF IInv, CallHolds, AttemptHolds
      <4>2. \A s \in Downward : record[a][s] = None /\ record'[a][s] = None
          BY <2>1, <3>2, <4>1, Kinds DEF AttemptHolds
      <4> QED BY <1>1, <2>1, <4>1, <4>2, Kinds DEF AttemptHolds, NeedsPreparation, Succeeded
    <3>3. CASE call.step \in Downward
      <4>1. /\ execution[a] # None /\ terminal[a] = None /\ decided[a][Capture] # None
            /\ call.step = Cleanup => Succeeded(a, Range(Teardown))
          BY <2>3, <3>3, Kinds DEF IInv, CallHolds
      <4>2. \A t \in Early : record'[a][t] = record[a][t]
          BY <3>3, Kinds
      <4>3. \A t \in Early : record[a][t] \notin OpenRecords
        <5>1. CASE record[attempt][call.step] # None
            BY <2>1, <2>3, <3>3, <5>1 DEF AttemptHolds
        <5>2. CASE \A b \in Attempts, s \in Steps : record[b][s] # "indeterminate"
          <6> SUFFICES ASSUME NEW t \in Early PROVE record[a][t] \notin OpenRecords
              OBVIOUS
          <6>1. t \in Steps /\ t # call.step
              BY <3>3, Kinds
          <6>2. record[a][t] \notin {"accepted", "running"}
              BY <6>1 DEF IInv, Single, StepHolds
          <6> QED BY <5>2, <6>1, <6>2 DEF OpenRecords
        <5> QED BY <5>1, <5>2
      <4>4. record'[a][Cleanup] # None => Succeeded(a, Range(Teardown))
        <5>1. CASE call.step = Cleanup
            BY <4>1, <5>1
        <5>2. CASE call.step # Cleanup
          <6>1. record'[a][Cleanup] = record[a][Cleanup]
              BY <5>2, Kinds
          <6> QED BY <2>1, <6>1 DEF AttemptHolds
        <5> QED BY <5>1, <5>2
      <4> QED BY <1>1, <2>1, <4>1, <4>2, <4>3, <4>4 DEF AttemptHolds, NeedsPreparation, Succeeded
    <3> QED BY <3>1, <3>2, <3>3
  <2> QED BY <2>2, <2>3
<1>6. AttemptsDisjoint'
  <2> SUFFICES ASSUME NEW a \in Attempts, a < attempt
               PROVE  /\ terminal[a] = "reusable"
                      /\ execution[a].state = "failed" /\ interrupted[a] = None
                      /\ Settled(a)'
                      /\ Retry \in started[a] => decided[a][Retry] = "succeeded" /\ seen[a][Retry] = "good"
      BY <1>1 DEF AttemptsDisjoint
  <2>1. \A s \in Steps : record'[a][s] = record[a][s] /\ callback'[a][s] = callback[a][s]
      BY <1>2 DEF Attempts
  <2> QED BY <2>1 DEF IInv, AttemptsDisjoint, Settled
<1>7. RetiredHolds'
    BY <1>1, <1>2 DEF RetiredHolds
<1> QED BY <1>4, <1>5, <1>6, <1>7 DEF IInv, Single

----------------------------------------------------------------------------
(* The operation of a step.                                                 *)

LEMMA AcceptHolds ==
    ASSUME IInv, Accept
    PROVE  IInv'
<1>1. /\ IInv /\ attempt \in Attempts /\ ~retired /\ call.at = "step"
      /\ call.step \in Steps /\ call.step \in started[attempt] /\ StepHolds(attempt, call.step)
  <2>1. call.at = "step"
      BY DEF Accept, Undispatched, At
  <2>2. attempt \in Attempts /\ ~retired
      BY <2>1, UnderWay
  <2>3. call.step \in started[attempt]
      BY <2>1 DEF IInv, CallHolds, AtAStep
  <2> QED BY <2>1, <2>2, <2>3 DEF IInv, Typed, Single
<1>2. /\ UNCHANGED <<ledger, seen, policy, controls>>
      /\ attempt' = attempt /\ started' = started /\ decided' = decided /\ execution' = execution
      /\ interrupted' = interrupted /\ terminal' = terminal /\ retired' = retired
    BY DEF Accept, ledger, bounds
<1>3. /\ call' \in [at : Places, step : Steps \cup {None}, cancelled : BOOLEAN]
      /\ call'.at = "accepted" /\ call'.step = call.step
  <2>1. Go("accepted")
      BY DEF Accept
  <2> QED BY <2>1, CallMoves DEF IInv, Typed, Places
<1>4. /\ record' \in [Attempts -> [Steps -> Records \cup {None}]]
      /\ \A a \in Attempts, s \in Steps :
             record'[a][s] = IF a = attempt /\ s = call.step THEN "accepted" ELSE record[a][s]
  <2>1. record' = [record EXCEPT ![attempt][call.step] = "accepted"]
      BY DEF Accept
  <2>2. "accepted" \in Records \cup {None}
      BY DEF Records, OpenRecords
  <2>3. record \in [Attempts -> [Steps -> Records \cup {None}]]
      BY DEF IInv, Typed
  <2> QED BY <1>1, <2>1, <2>2, <2>3, Update
<1>5. callback' = callback
    BY DEF Accept
<1>6. runs' = runs
    BY DEF Accept
<1>7. Typed'
    BY <1>2, <1>3, <1>4, <1>5, <1>6 DEF IInv, Typed, controls
<1>8. /\ record[attempt][call.step] = None /\ decided[attempt][call.step] = None
      /\ callback[attempt][call.step] # "running" /\ runs[attempt][call.step] = 0
    BY <1>1, NamesAssumption
       DEF Accept, Undispatched, IInv, CallHolds, AtAStep, StepHolds
<1>9. ASSUME NEW a \in Attempts, NEW s \in Steps, a = attempt /\ s = call.step PROVE StepHolds(a, s)'
    BY <1>1, <1>2, <1>3, <1>4, <1>5, <1>6, <1>8, <1>9, NamesAssumption
       DEF StepHolds
<1>10. CallHolds'
  <2>1. call'.step = call.step /\ call.at \in AtAStep /\ call'.at = "accepted"
      BY <1>1, <1>3 DEF AtAStep
  <2>2. record'[attempt][call.step] = "accepted"
      BY <1>1, <1>4
  <2> QED BY <1>1, <1>2, <2>1, <2>2 DEF IInv, CallHolds, Succeeded, AtAStep, Attempts
<1>11. record[attempt][call.step] # None
           \/ \A a \in Attempts, s \in Steps : record[a][s] # "indeterminate"
    BY <1>8, NobodyIs, NamesAssumption DEF Accept, Unresolved
<1>12. call.at \in AtAStep
    BY <1>1 DEF AtAStep
<1>13. \A a \in Attempts, s \in Steps : ~(a = attempt /\ s = call.step) =>
           record'[a][s] = record[a][s] /\ callback'[a][s] = callback[a][s] /\ runs'[a][s] = runs[a][s]
    BY <1>4, <1>5, <1>6
<1> QED BY <1>2, <1>7, <1>9, <1>10, <1>11, <1>12, <1>13, OperationStep

LEMMA GrantHolds ==
    ASSUME IInv, Grant
    PROVE  IInv'
<1>1. /\ IInv /\ attempt \in Attempts /\ ~retired /\ call.at = "accepted"
      /\ call.step \in Steps /\ call.step \in started[attempt] /\ StepHolds(attempt, call.step)
  <2>1. call.at = "accepted"
      BY DEF Grant, Undispatched, At
  <2>2. attempt \in Attempts /\ ~retired
      BY <2>1, UnderWay
  <2>3. call.step \in started[attempt]
      BY <2>1 DEF IInv, CallHolds, AtAStep
  <2> QED BY <2>1, <2>2, <2>3 DEF IInv, Typed, Single
<1>2. /\ UNCHANGED <<ledger, seen, policy, controls>>
      /\ attempt' = attempt /\ started' = started /\ decided' = decided /\ execution' = execution
      /\ interrupted' = interrupted /\ terminal' = terminal /\ retired' = retired
    BY DEF Grant, ledger, bounds
<1>3. /\ call' \in [at : Places, step : Steps \cup {None}, cancelled : BOOLEAN]
      /\ call'.at = "running" /\ call'.step = call.step
  <2>1. Go("running")
      BY DEF Grant
  <2> QED BY <2>1, CallMoves DEF IInv, Typed, Places
<1>4. /\ record' \in [Attempts -> [Steps -> Records \cup {None}]]
      /\ \A a \in Attempts, s \in Steps :
             record'[a][s] = IF a = attempt /\ s = call.step THEN "running" ELSE record[a][s]
  <2>1. record' = [record EXCEPT ![attempt][call.step] = "running"]
      BY DEF Grant
  <2>2. "running" \in Records \cup {None}
      BY DEF Records, OpenRecords
  <2>3. record \in [Attempts -> [Steps -> Records \cup {None}]]
      BY DEF IInv, Typed
  <2> QED BY <1>1, <2>1, <2>2, <2>3, Update
<1>5. /\ callback' \in [Attempts -> [Steps -> {None, "running", "ended"}]]
      /\ \A a \in Attempts, s \in Steps :
             callback'[a][s] = IF a = attempt /\ s = call.step THEN "running" ELSE callback[a][s]
  <2>1. callback' = [callback EXCEPT ![attempt][call.step] = "running"]
      BY DEF Grant
  <2>2. callback \in [Attempts -> [Steps -> {None, "running", "ended"}]]
      BY DEF IInv, Typed
  <2> QED BY <1>1, <2>1, <2>2, Update
<1>6. /\ runs' \in [Attempts -> [Steps -> Nat]]
      /\ \A a \in Attempts, s \in Steps :
             runs'[a][s] = IF a = attempt /\ s = call.step THEN runs[attempt][call.step] + 1 ELSE runs[a][s]
  <2>1. runs' = [runs EXCEPT ![attempt][call.step] = runs[attempt][call.step] + 1]
      BY DEF Grant
  <2>2. runs \in [Attempts -> [Steps -> Nat]]
      BY DEF IInv, Typed
  <2>3. runs[attempt][call.step] + 1 \in Nat
      BY <1>1, <2>2
  <2> QED BY <1>1, <2>1, <2>2, <2>3, Update
<1>7. Typed'
    BY <1>2, <1>3, <1>4, <1>5, <1>6 DEF IInv, Typed, controls
<1>8. /\ record[attempt][call.step] = "accepted" /\ decided[attempt][call.step] = None
      /\ runs[attempt][call.step] = 0
    BY <1>1 DEF Grant, IInv, CallHolds, AtAStep, StepHolds
<1>9. ASSUME NEW a \in Attempts, NEW s \in Steps, a = attempt /\ s = call.step PROVE StepHolds(a, s)'
    BY <1>1, <1>2, <1>3, <1>4, <1>5, <1>6, <1>8, <1>9, NamesAssumption
       DEF StepHolds
<1>10. CallHolds'
  <2>1. call'.step = call.step /\ call.at \in AtAStep /\ call'.at = "running"
      BY <1>1, <1>3 DEF AtAStep
  <2>2. record'[attempt][call.step] = "running"
      BY <1>1, <1>4
  <2> QED BY <1>1, <1>2, <2>1, <2>2 DEF IInv, CallHolds, Succeeded, AtAStep, Attempts
<1>11. record[attempt][call.step] # None
           \/ \A a \in Attempts, s \in Steps : record[a][s] # "indeterminate"
    BY <1>8, NobodyIs, NamesAssumption
<1>12. call.at \in AtAStep
    BY <1>1 DEF AtAStep
<1>13. \A a \in Attempts, s \in Steps : ~(a = attempt /\ s = call.step) =>
           record'[a][s] = record[a][s] /\ callback'[a][s] = callback[a][s] /\ runs'[a][s] = runs[a][s]
    BY <1>4, <1>5, <1>6
<1> QED BY <1>2, <1>7, <1>9, <1>10, <1>11, <1>12, <1>13, OperationStep

LEMMA ForgoHolds ==
    ASSUME IInv, Forgo
    PROVE  IInv'
<1>1. /\ IInv /\ attempt \in Attempts /\ ~retired /\ call.at = "accepted"
      /\ call.step \in Steps /\ call.step \in started[attempt] /\ StepHolds(attempt, call.step)
  <2>1. call.at = "accepted"
      BY DEF Forgo, Undispatched, At
  <2>2. attempt \in Attempts /\ ~retired
      BY <2>1, UnderWay
  <2>3. call.step \in started[attempt]
      BY <2>1 DEF IInv, CallHolds, AtAStep
  <2> QED BY <2>1, <2>2, <2>3 DEF IInv, Typed, Single
<1>2. /\ UNCHANGED <<ledger, seen, policy, controls>>
      /\ attempt' = attempt /\ started' = started /\ decided' = decided /\ execution' = execution
      /\ interrupted' = interrupted /\ terminal' = terminal /\ retired' = retired
    BY DEF Forgo, ledger, bounds
<1>3. /\ call' \in [at : Places, step : Steps \cup {None}, cancelled : BOOLEAN]
      /\ call'.at = "step" /\ call'.step = call.step
  <2>1. Go("step")
      BY DEF Forgo
  <2> QED BY <2>1, CallMoves DEF IInv, Typed, Places
<1>4. /\ record' \in [Attempts -> [Steps -> Records \cup {None}]]
      /\ \A a \in Attempts, s \in Steps :
             record'[a][s] = IF a = attempt /\ s = call.step THEN "cancelled" ELSE record[a][s]
  <2>1. record' = [record EXCEPT ![attempt][call.step] = "cancelled"]
      BY DEF Forgo
  <2>2. "cancelled" \in Records \cup {None}
      BY DEF Records, OpenRecords
  <2>3. record \in [Attempts -> [Steps -> Records \cup {None}]]
      BY DEF IInv, Typed
  <2> QED BY <1>1, <2>1, <2>2, <2>3, Update
<1>5. callback' = callback
    BY DEF Forgo
<1>6. runs' = runs
    BY DEF Forgo
<1>7. Typed'
    BY <1>2, <1>3, <1>4, <1>5, <1>6 DEF IInv, Typed, controls
<1>8. /\ record[attempt][call.step] \in {"accepted", "cancelled"} /\ decided[attempt][call.step] = None
      /\ callback[attempt][call.step] # "running" /\ runs[attempt][call.step] = 0
    BY <1>1 DEF IInv, CallHolds, AtAStep, StepHolds
<1>9. ASSUME NEW a \in Attempts, NEW s \in Steps, a = attempt /\ s = call.step PROVE StepHolds(a, s)'
    BY <1>1, <1>2, <1>3, <1>4, <1>5, <1>6, <1>8, <1>9, NamesAssumption
       DEF StepHolds
<1>10. CallHolds'
  <2>1. call'.step = call.step /\ call.at \in AtAStep /\ call'.at = "step"
      BY <1>1, <1>3 DEF AtAStep
  <2>2. record'[attempt][call.step] = "cancelled"
      BY <1>1, <1>4
  <2> QED BY <1>1, <1>2, <2>1, <2>2 DEF IInv, CallHolds, Succeeded, AtAStep, Attempts
<1>11. record[attempt][call.step] # None
           \/ \A a \in Attempts, s \in Steps : record[a][s] # "indeterminate"
    BY <1>8, NobodyIs, NamesAssumption
<1>12. call.at \in AtAStep
    BY <1>1 DEF AtAStep
<1>13. \A a \in Attempts, s \in Steps : ~(a = attempt /\ s = call.step) =>
           record'[a][s] = record[a][s] /\ callback'[a][s] = callback[a][s] /\ runs'[a][s] = runs[a][s]
    BY <1>4, <1>5, <1>6
<1> QED BY <1>2, <1>7, <1>9, <1>10, <1>11, <1>12, <1>13, OperationStep

LEMMA SucceedHolds ==
    ASSUME IInv, Succeed
    PROVE  IInv'
<1>1. /\ IInv /\ attempt \in Attempts /\ ~retired /\ call.at = "running"
      /\ call.step \in Steps /\ call.step \in started[attempt] /\ StepHolds(attempt, call.step)
  <2>1. call.at = "running"
      BY DEF Succeed, Undispatched, At
  <2>2. attempt \in Attempts /\ ~retired
      BY <2>1, UnderWay
  <2>3. call.step \in started[attempt]
      BY <2>1 DEF IInv, CallHolds, AtAStep
  <2> QED BY <2>1, <2>2, <2>3 DEF IInv, Typed, Single
<1>2. /\ UNCHANGED <<ledger, seen, policy, controls>>
      /\ attempt' = attempt /\ started' = started /\ decided' = decided /\ execution' = execution
      /\ interrupted' = interrupted /\ terminal' = terminal /\ retired' = retired
    BY DEF Succeed, ledger, bounds
<1>3. /\ call' \in [at : Places, step : Steps \cup {None}, cancelled : BOOLEAN]
      /\ call'.at = "step" /\ call'.step = call.step
  <2>1. Go("step")
      BY DEF Succeed
  <2> QED BY <2>1, CallMoves DEF IInv, Typed, Places
<1>4. /\ record' \in [Attempts -> [Steps -> Records \cup {None}]]
      /\ \A a \in Attempts, s \in Steps :
             record'[a][s] = IF a = attempt /\ s = call.step THEN "succeeded" ELSE record[a][s]
  <2>1. record' = [record EXCEPT ![attempt][call.step] = "succeeded"]
      BY DEF Succeed
  <2>2. "succeeded" \in Records \cup {None}
      BY DEF Records, OpenRecords
  <2>3. record \in [Attempts -> [Steps -> Records \cup {None}]]
      BY DEF IInv, Typed
  <2> QED BY <1>1, <2>1, <2>2, <2>3, Update
<1>5. callback' = callback
    BY DEF Succeed
<1>6. runs' = runs
    BY DEF Succeed
<1>7. Typed'
    BY <1>2, <1>3, <1>4, <1>5, <1>6 DEF IInv, Typed, controls
<1>8. /\ record[attempt][call.step] = "running" /\ decided[attempt][call.step] = None
      /\ callback[attempt][call.step] # "running" /\ runs[attempt][call.step] = 1
    BY <1>1, NamesAssumption DEF Succeed, IInv, CallHolds, AtAStep, StepHolds
<1>9. ASSUME NEW a \in Attempts, NEW s \in Steps, a = attempt /\ s = call.step PROVE StepHolds(a, s)'
    BY <1>1, <1>2, <1>3, <1>4, <1>5, <1>6, <1>8, <1>9, NamesAssumption
       DEF StepHolds
<1>10. CallHolds'
  <2>1. call'.step = call.step /\ call.at \in AtAStep /\ call'.at = "step"
      BY <1>1, <1>3 DEF AtAStep
  <2>2. record'[attempt][call.step] = "succeeded"
      BY <1>1, <1>4
  <2> QED BY <1>1, <1>2, <2>1, <2>2 DEF IInv, CallHolds, Succeeded, AtAStep, Attempts
<1>11. record[attempt][call.step] # None
           \/ \A a \in Attempts, s \in Steps : record[a][s] # "indeterminate"
    BY <1>8, NobodyIs, NamesAssumption
<1>12. call.at \in AtAStep
    BY <1>1 DEF AtAStep
<1>13. \A a \in Attempts, s \in Steps : ~(a = attempt /\ s = call.step) =>
           record'[a][s] = record[a][s] /\ callback'[a][s] = callback[a][s] /\ runs'[a][s] = runs[a][s]
    BY <1>4, <1>5, <1>6
<1> QED BY <1>2, <1>7, <1>9, <1>10, <1>11, <1>12, <1>13, OperationStep

LEMMA LoseTrackHolds ==
    ASSUME IInv, LoseTrack
    PROVE  IInv'
<1>1. /\ IInv /\ attempt \in Attempts /\ ~retired /\ call.at = "running"
      /\ call.step \in Steps /\ call.step \in started[attempt] /\ StepHolds(attempt, call.step)
  <2>1. call.at = "running"
      BY DEF LoseTrack, Undispatched, At
  <2>2. attempt \in Attempts /\ ~retired
      BY <2>1, UnderWay
  <2>3. call.step \in started[attempt]
      BY <2>1 DEF IInv, CallHolds, AtAStep
  <2> QED BY <2>1, <2>2, <2>3 DEF IInv, Typed, Single
<1>2. /\ UNCHANGED <<ledger, seen, policy, controls>>
      /\ attempt' = attempt /\ started' = started /\ decided' = decided /\ execution' = execution
      /\ interrupted' = interrupted /\ terminal' = terminal /\ retired' = retired
    BY DEF LoseTrack, ledger, bounds
<1>3. /\ call' \in [at : Places, step : Steps \cup {None}, cancelled : BOOLEAN]
      /\ call'.at = "step" /\ call'.step = call.step
  <2>1. Go("step")
      BY DEF LoseTrack
  <2> QED BY <2>1, CallMoves DEF IInv, Typed, Places
<1>4. /\ record' \in [Attempts -> [Steps -> Records \cup {None}]]
      /\ \A a \in Attempts, s \in Steps :
             record'[a][s] = IF a = attempt /\ s = call.step THEN "indeterminate" ELSE record[a][s]
  <2>1. record' = [record EXCEPT ![attempt][call.step] = "indeterminate"]
      BY DEF LoseTrack
  <2>2. "indeterminate" \in Records \cup {None}
      BY DEF Records, OpenRecords
  <2>3. record \in [Attempts -> [Steps -> Records \cup {None}]]
      BY DEF IInv, Typed
  <2> QED BY <1>1, <2>1, <2>2, <2>3, Update
<1>5. /\ callback' \in [Attempts -> [Steps -> {None, "running", "ended"}]]
      /\ \A a \in Attempts, s \in Steps :
             \/ callback'[a][s] = callback[a][s]
             \/ a = attempt /\ s = call.step /\ callback'[a][s] = "ended"
  <2>1. callback \in [Attempts -> [Steps -> {None, "running", "ended"}]]
      BY DEF IInv, Typed
  <2>2. CASE callback' = [callback EXCEPT ![attempt][call.step] = "ended"]
    <3>1. /\ callback' \in [Attempts -> [Steps -> {None, "running", "ended"}]]
          /\ \A a \in Attempts, s \in Steps :
                 callback'[a][s] = IF a = attempt /\ s = call.step THEN "ended" ELSE callback[a][s]
        BY <1>1, <2>1, <2>2, Update
    <3> QED BY <3>1
  <2>3. CASE callback' = callback
      BY <2>1, <2>3
  <2> QED BY <2>2, <2>3 DEF LoseTrack
<1>6. runs' = runs
    BY DEF LoseTrack
<1>7. Typed'
    BY <1>2, <1>3, <1>4, <1>5, <1>6 DEF IInv, Typed, controls
<1>8. /\ record[attempt][call.step] = "running" /\ decided[attempt][call.step] = None
      /\ runs[attempt][call.step] = 1
    BY <1>1, NamesAssumption DEF IInv, CallHolds, AtAStep, StepHolds
<1>9. ASSUME NEW a \in Attempts, NEW s \in Steps, a = attempt /\ s = call.step PROVE StepHolds(a, s)'
    BY <1>1, <1>2, <1>3, <1>4, <1>5, <1>6, <1>8, <1>9, NamesAssumption
       DEF StepHolds
<1>10. CallHolds'
  <2>1. call'.step = call.step /\ call.at \in AtAStep /\ call'.at = "step"
      BY <1>1, <1>3 DEF AtAStep
  <2>2. record'[attempt][call.step] = "indeterminate"
      BY <1>1, <1>4
  <2> QED BY <1>1, <1>2, <2>1, <2>2 DEF IInv, CallHolds, Succeeded, AtAStep, Attempts
<1>11. record[attempt][call.step] # None
           \/ \A a \in Attempts, s \in Steps : record[a][s] # "indeterminate"
    BY <1>8, NobodyIs, NamesAssumption
<1>12. call.at \in AtAStep
    BY <1>1 DEF AtAStep
<1>13. \A a \in Attempts, s \in Steps : ~(a = attempt /\ s = call.step) =>
           record'[a][s] = record[a][s] /\ callback'[a][s] = callback[a][s] /\ runs'[a][s] = runs[a][s]
    BY <1>4, <1>5, <1>6
<1> QED BY <1>2, <1>7, <1>9, <1>10, <1>11, <1>12, <1>13, OperationStep

----------------------------------------------------------------------------
(* What others do to the operations of a run: installed code in its thread, *)
(* cancellation, the resolution of unknown operations, startup recovery.    *)

LEMMA OutsideStep ==
    ASSUME IInv, Typed', UNCHANGED <<ledger, policy, runs>>,
           \A a \in Attempts, s \in Steps :
               /\ record'[a][s] # None => record[a][s] # None
               /\ record'[a][s] \in OpenRecords => record[a][s] \in OpenRecords
               /\ record'[a][s] = "indeterminate" => record[a][s] \in {"indeterminate", "running"}
               /\ callback'[a][s] = "running" => callback[a][s] = "running",
           \A a \in Attempts, s \in Modules : seen[a][s] # None => seen'[a][s] = seen[a][s],
           \A a \in Attempts, s \in Steps : StepHolds(a, s)',
           CallHolds'
    PROVE  IInv'
<1>1. /\ started' = started /\ decided' = decided /\ interrupted' = interrupted
      /\ execution' = execution /\ terminal' = terminal /\ policy' = policy /\ attempt' = attempt
      /\ retired' = retired /\ runs' = runs
    BY DEF ledger
<1>2. /\ Cleanup \in Downward /\ Cleanup \in Modules /\ Retry \in Modules /\ Modules \subseteq Steps
      /\ Cleanup \notin Vacuous /\ Downward \subseteq Steps /\ Early \subseteq Steps
    BY Kinds
<1>3. ASSUME NEW a \in Attempts PROVE AttemptHolds(a)'
  <2>1. AttemptHolds(a) /\ StepHolds(a, Cleanup)
      BY <1>2 DEF IInv, Single
  <2>2. terminal[a] = "reusable" => seen'[a][Cleanup] = seen[a][Cleanup]
    <3> SUFFICES ASSUME terminal[a] = "reusable" PROVE seen[a][Cleanup] # None
        BY <1>2
    <3>1. decided[a][Cleanup] = "succeeded"
        BY <2>1, <1>2, NamesAssumption DEF AttemptHolds, Succeeded
    <3>2. record[a][Cleanup] = "succeeded" /\ callback[a][Cleanup] # "running"
        BY <2>1, <3>1, <1>2 DEF StepHolds
    <3>3. seen[a][Cleanup] \in Observations[Cleanup]
        BY <2>1, <3>2, <1>2 DEF StepHolds
    <3> QED BY <3>3, <1>2, ObservationKinds
  <2> QED BY <1>1, <1>2, <2>1, <2>2, AttemptKept
<1>4. AttemptsDisjoint'
  <2> SUFFICES ASSUME NEW a \in Attempts, a < attempt
               PROVE  /\ terminal[a] = "reusable"
                      /\ execution[a].state = "failed" /\ interrupted[a] = None
                      /\ Settled(a)'
                      /\ Retry \in started[a] => decided[a][Retry] = "succeeded" /\ seen'[a][Retry] = "good"
      BY <1>1 DEF AttemptsDisjoint
  <2>1. /\ terminal[a] = "reusable"
        /\ execution[a].state = "failed" /\ interrupted[a] = None
        /\ Settled(a)
        /\ Retry \in started[a] => decided[a][Retry] = "succeeded" /\ seen[a][Retry] = "good"
      BY DEF IInv, AttemptsDisjoint
  <2>2. Settled(a)'
      BY <2>1 DEF Settled, OpenRecords
  <2>3. seen[a][Retry] = "good" => seen'[a][Retry] = "good"
      BY <1>2, NamesAssumption
  <2> QED BY <2>1, <2>2, <2>3
<1>5. RetiredHolds'
  <2> SUFFICES ASSUME retired
               PROVE  /\ \A a \in Attempts, s \in Steps :
                             record'[a][s] # "indeterminate" /\ callback'[a][s] # "running"
                      /\ \A a \in 1..attempt : /\ Succeeded(a, Downward)
                                               /\ seen'[a][Cleanup] \in {"good", "idempotent"}
                                               /\ runs[a][Retry] > 0 => seen'[a][Retry] = "good"
      BY <1>1 DEF RetiredHolds, Succeeded
  <2>1. call.at = "idle"
      BY UnderWay
  <2>2. \A a \in Attempts, s \in Steps : record[a][s] # "running"
      BY <2>1 DEF IInv, Single, StepHolds
  <2>3. 1..attempt \subseteq Attempts
      BY SizesAssumption DEF IInv, Typed, Attempts
  <2>4. \A a \in 1..attempt : /\ seen[a][Cleanup] \in {"good", "idempotent"} => seen'[a][Cleanup] = seen[a][Cleanup]
                              /\ seen[a][Retry] = "good" => seen'[a][Retry] = "good"
      BY <2>3, <1>2, NamesAssumption
  <2> QED BY <2>2, <2>4 DEF IInv, RetiredHolds
<1> QED BY <1>3, <1>4, <1>5 DEF IInv, Single

LEMMA CallbackObservesHolds ==
    ASSUME IInv, NEW b \in Attempts, NEW t \in Steps, CallbackObserves(b, t)
    PROVE  IInv'
<1>1. /\ UNCHANGED <<ledger, policy, controls>> /\ runs' = runs /\ record' = record /\ callback' = callback /\ call' = call
      /\ attempt' = attempt /\ started' = started /\ decided' = decided /\ execution' = execution
      /\ interrupted' = interrupted /\ terminal' = terminal /\ retired' = retired
    BY DEF CallbackObserves, ledger, bounds
<1>2. PICK o \in Observations[t] : seen' = [seen EXCEPT ![b][t] = o]
    BY DEF CallbackObserves
<1>3. t \in Modules /\ seen[b][t] = None /\ o \in AllObservations \cup {None}
    BY <1>2, ObservationKinds DEF CallbackObserves
<1>4. /\ seen' \in [Attempts -> [Modules -> AllObservations \cup {None}]]
      /\ \A a \in Attempts, s \in Modules : seen'[a][s] = IF a = b /\ s = t THEN o ELSE seen[a][s]
  <2>1. seen \in [Attempts -> [Modules -> AllObservations \cup {None}]]
      BY DEF IInv, Typed
  <2> QED BY <1>2, <1>3, <2>1, Update
<1>5. \A a \in Attempts : \A s \in Modules : seen'[a][s] \in Observations[s] \cup {None}
    BY <1>2, <1>4 DEF IInv, Typed
<1>6. Typed'
    BY <1>1, <1>4, <1>5 DEF IInv, Typed, controls
<1>7. ASSUME NEW a \in Attempts, NEW s \in Steps PROVE StepHolds(a, s)'
  <2>1. StepHolds(a, s)
      BY DEF IInv, Single
  <2>2. s \in Modules => seen'[a][s] = seen[a][s] \/ seen'[a][s] \in Observations[s]
      BY <1>2, <1>4
  <2> QED BY <1>1, <2>1, <2>2 DEF StepHolds
<1>8. CallHolds'
    BY <1>1 DEF IInv, CallHolds, Succeeded
<1>9. \A a \in Attempts, s \in Modules : seen[a][s] # None => seen'[a][s] = seen[a][s]
    BY <1>3, <1>4
<1> QED BY <1>1, <1>6, <1>7, <1>8, <1>9, OutsideStep

LEMMA CallbackEndsHolds ==
    ASSUME IInv, NEW b \in Attempts, NEW t \in Steps, CallbackEnds(b, t)
    PROVE  IInv'
<1>1. /\ UNCHANGED <<ledger, policy, controls>> /\ runs' = runs /\ record' = record /\ seen' = seen /\ call' = call
      /\ attempt' = attempt /\ started' = started /\ decided' = decided /\ execution' = execution
      /\ interrupted' = interrupted /\ terminal' = terminal /\ retired' = retired
    BY DEF CallbackEnds, ledger, bounds
<1>2. /\ callback' \in [Attempts -> [Steps -> {None, "running", "ended"}]]
      /\ \A a \in Attempts, s \in Steps : callback'[a][s] = IF a = b /\ s = t THEN "ended" ELSE callback[a][s]
  <2>1. callback' = [callback EXCEPT ![b][t] = "ended"]
      BY DEF CallbackEnds
  <2>2. callback \in [Attempts -> [Steps -> {None, "running", "ended"}]]
      BY DEF IInv, Typed
  <2> QED BY <2>1, <2>2, Update
<1>3. Typed'
    BY <1>1, <1>2 DEF IInv, Typed, controls
<1>4. ASSUME NEW a \in Attempts, NEW s \in Steps PROVE StepHolds(a, s)'
  <2>1. StepHolds(a, s)
      BY DEF IInv, Single
  <2>2. CASE a = b /\ s = t
    <3>1. callback[a][s] = "running" /\ record[a][s] \in {"running", "indeterminate"}
        BY <2>1, <2>2 DEF CallbackEnds, StepHolds
    <3>2. s \in Modules /\ record[a][s] = "running" => seen[a][s] \in Observations[s]
        BY <2>2 DEF CallbackEnds, IInv, Typed
    <3> QED BY <1>1, <1>2, <2>1, <2>2, <3>1, <3>2 DEF StepHolds
  <2>3. CASE ~(a = b /\ s = t)
      BY <1>1, <1>2, <2>1, <2>3 DEF StepHolds
  <2> QED BY <2>2, <2>3
<1>5. CallHolds'
    BY <1>1 DEF IInv, CallHolds, Succeeded
<1>6. \A a \in Attempts, s \in Steps : callback'[a][s] = "running" => callback[a][s] = "running"
    BY <1>2
<1>7. \A a \in Attempts, s \in Steps :
          record[a][s] = "indeterminate" => record[a][s] \in {"indeterminate", "running"}
    OBVIOUS
<1> QED BY <1>1, <1>3, <1>4, <1>5, <1>6, <1>7, OutsideStep

LEMMA CancelRunHolds ==
    ASSUME IInv, CancelRun
    PROVE  IInv'
<1>1. /\ UNCHANGED <<ledger, policy, controls>> /\ runs' = runs /\ callback' = callback /\ seen' = seen /\ call' = call
      /\ attempt' = attempt /\ started' = started /\ decided' = decided /\ execution' = execution
      /\ interrupted' = interrupted /\ terminal' = terminal /\ retired' = retired
    BY DEF CancelRun, ledger, bounds
<1>2. PICK b \in Attempts, t \in Steps :
          record[b][t] = "accepted" /\ record' = [record EXCEPT ![b][t] = "cancelled"]
    BY DEF CancelRun
<1>3. /\ record' \in [Attempts -> [Steps -> Records \cup {None}]]
      /\ \A a \in Attempts, s \in Steps : record'[a][s] = IF a = b /\ s = t THEN "cancelled" ELSE record[a][s]
  <2>1. record \in [Attempts -> [Steps -> Records \cup {None}]]
      BY DEF IInv, Typed
  <2>2. "cancelled" \in Records \cup {None}
      BY DEF Records
  <2> QED BY <1>2, <2>1, <2>2, Update
<1>4. Typed'
    BY <1>1, <1>3 DEF IInv, Typed, controls
<1>5. ASSUME NEW a \in Attempts, NEW s \in Steps PROVE StepHolds(a, s)'
  <2>1. StepHolds(a, s)
      BY DEF IInv, Single
  <2>2. CASE a = b /\ s = t
      BY <1>1, <1>2, <1>3, <2>1, <2>2, NamesAssumption
         DEF StepHolds, OpenRecords
  <2>3. CASE ~(a = b /\ s = t)
      BY <1>1, <1>3, <2>1, <2>3 DEF StepHolds
  <2> QED BY <2>2, <2>3
<1>6. CallHolds'
  <2>1. ASSUME call.at \in AtAStep
        PROVE  /\ call.at = "step" => record'[attempt][call.step] \notin {"accepted", "running"}
               /\ call.at = "accepted" => record'[attempt][call.step] \in {"accepted", "cancelled"}
               /\ call.at = "running" => record'[attempt][call.step] = "running"
    <3>1. attempt \in Attempts /\ call.step \in Steps
        BY <2>1, UnderWay DEF AtAStep, IInv, CallHolds, Typed
    <3> QED BY <1>2, <1>3, <2>1, <3>1 DEF IInv, CallHolds
  <2> QED BY <1>1, <2>1 DEF IInv, CallHolds, Succeeded
<1>7. \A a \in Attempts, s \in Steps :
          /\ record'[a][s] # None => record[a][s] # None
          /\ record'[a][s] \in OpenRecords => record[a][s] \in OpenRecords
          /\ record'[a][s] = "indeterminate" => record[a][s] \in {"indeterminate", "running"}
          /\ callback'[a][s] = "running" => callback[a][s] = "running"
    BY <1>1, <1>2, <1>3, NamesAssumption DEF OpenRecords
<1> QED BY <1>1, <1>4, <1>5, <1>6, <1>7, OutsideStep

LEMMA RestartHolds ==
    ASSUME IInv, Restart
    PROVE  IInv'
<1>1. /\ UNCHANGED <<ledger, policy, controls>> /\ runs' = runs /\ seen' = seen /\ call' = Idle
      /\ attempt' = attempt /\ started' = started /\ decided' = decided /\ execution' = execution
      /\ interrupted' = interrupted /\ terminal' = terminal /\ retired' = retired
    BY DEF Restart, ledger
<1>2. /\ record \in [Attempts -> [Steps -> Records \cup {None}]]
      /\ callback \in [Attempts -> [Steps -> {None, "running", "ended"}]]
    BY DEF IInv, Typed
<1>3. \A a \in Attempts, s \in Steps :
          record'[a][s] = IF record[a][s] = "accepted" THEN "cancelled"
                          ELSE IF record[a][s] = "running" THEN "indeterminate" ELSE record[a][s]
    BY DEF Restart
<1>4. \A a \in Attempts, s \in Steps :
          callback'[a][s] = IF callback[a][s] = "running" THEN "ended" ELSE callback[a][s]
    BY DEF Restart
<1>5. record' \in [Attempts -> [Steps -> Records \cup {None}]]
  <2>1. DOMAIN record' = Attempts /\ \A a \in Attempts : DOMAIN record'[a] = Steps
      BY DEF Restart
  <2>2. \A a \in Attempts, s \in Steps : record'[a][s] \in Records \cup {None}
      BY <1>2, <1>3 DEF Records, OpenRecords
  <2>3. record' = [a \in Attempts |-> [s \in Steps |-> record'[a][s]]]
      BY <1>3 DEF Restart
  <2> QED BY <2>2, <2>3
<1>6. callback' \in [Attempts -> [Steps -> {None, "running", "ended"}]]
  <2>1. \A a \in Attempts, s \in Steps : callback'[a][s] \in {None, "running", "ended"}
      BY <1>2, <1>4
  <2>2. callback' = [a \in Attempts |-> [s \in Steps |-> callback'[a][s]]]
      BY <1>4 DEF Restart
  <2> QED BY <2>1, <2>2
<1>7. Typed'
    BY <1>1, <1>5, <1>6 DEF IInv, Typed, controls, Idle, Places
<1>8. ASSUME NEW a \in Attempts, NEW s \in Steps PROVE StepHolds(a, s)'
  <2>1. StepHolds(a, s)
      BY DEF IInv, Single
  <2>2. callback'[a][s] # "running"
      BY <1>4
  <2>3. s \in Modules /\ record'[a][s] = "succeeded" => seen[a][s] \in Observations[s]
      BY <1>3, <2>1 DEF StepHolds
  <2> QED BY <1>1, <1>3, <2>1, <2>2, <2>3, NamesAssumption DEF StepHolds, OpenRecords
<1>9. CallHolds'
    BY <1>1 DEF CallHolds, Idle, AtAStep
<1>10. \A a \in Attempts, s \in Steps :
          /\ record'[a][s] # None => record[a][s] # None
          /\ record'[a][s] \in OpenRecords => record[a][s] \in OpenRecords
          /\ record'[a][s] = "indeterminate" => record[a][s] \in {"indeterminate", "running"}
          /\ callback'[a][s] = "running" => callback[a][s] = "running"
    BY <1>3, <1>4, NamesAssumption DEF OpenRecords
<1> QED BY <1>1, <1>7, <1>8, <1>9, <1>10, OutsideStep

----------------------------------------------------------------------------
(* Steps that write to the ledger.                                          *)

\* What a step of the call that leaves the operations alone needs.
LEMMA LedgerStep ==
    ASSUME IInv, Typed', UNCHANGED <<operations, policy>>, call.at \notin {"accepted", "running"},
           \A a \in Attempts : started[a] \subseteq started'[a],
           \A a \in Attempts, s \in Steps : decided'[a][s] # decided[a][s] =>
               /\ decided[a][s] = None /\ record[a][s] \notin OpenRecords
               /\ decided'[a][s] = "succeeded" /\ s \notin Vacuous => record[a][s] = "succeeded",
           \A a \in Attempts : AttemptHolds(a)', CallHolds', AttemptsDisjoint', RetiredHolds'
    PROVE  IInv'
<1>1. record' = record /\ callback' = callback /\ runs' = runs /\ seen' = seen
    BY DEF operations
<1>2. ASSUME NEW a \in Attempts, NEW s \in Steps PROVE StepHolds(a, s)'
  <2>1. StepHolds(a, s)
      BY DEF IInv, Single
  <2>2. record[a][s] \notin {"accepted", "running"}
      BY <2>1 DEF StepHolds
  <2>3. /\ decided'[a][s] # None => record[a][s] \notin OpenRecords
        /\ decided'[a][s] = "succeeded" /\ s \notin Vacuous => record[a][s] = "succeeded"
      BY <2>1 DEF StepHolds
  <2> QED BY <1>1, <2>1, <2>2, <2>3 DEF StepHolds
<1> QED BY <1>2 DEF IInv, Single

LEMMA BeginHolds ==
    ASSUME IInv, Begin
    PROVE  IInv'
<1>1. /\ UNCHANGED <<operations, policy, controls, bounds>> /\ record' = record /\ seen' = seen
      /\ callback' = callback /\ runs' = runs
      /\ started' = started /\ decided' = decided /\ execution' = execution
      /\ interrupted' = interrupted /\ terminal' = terminal /\ retired' = retired /\ policy' = policy
      /\ call.at = "idle" /\ ~retired /\ attempt' = IF attempt = 0 THEN 1 ELSE attempt
    BY DEF Begin, bounds, operations, At
<1>2. /\ call'.at = (IF execution[attempt'] = None THEN "unit" ELSE "route")
      /\ call' \in [at : Places, step : Steps \cup {None}, cancelled : BOOLEAN]
    BY DEF Begin, IInv, Typed, Places
<1>3. /\ attempt' \in Attempts /\ attempt' \in 0..MaxAttempts /\ attempt' >= attempt
      /\ attempt \in Nat /\ attempt' \in Nat
    BY <1>1, SizesAssumption DEF IInv, Typed, Attempts
<1>4. Typed'
    BY <1>1, <1>2, <1>3 DEF IInv, Typed, controls
<1>5. ASSUME NEW a \in Attempts PROVE AttemptHolds(a)'
  <2>1. AttemptHolds(a)
      BY DEF IInv, Single
  <2>2. a > attempt' => a > attempt
      BY <1>3 DEF Attempts
  <2> QED BY <1>1, <2>1, <2>2 DEF AttemptHolds, NeedsPreparation, Succeeded
<1>6. CallHolds'
    BY <1>1, <1>2, <1>3 DEF CallHolds, AtAStep
<1>7. AttemptsDisjoint'
  <2>1. \A a \in Attempts : a < attempt' => a < attempt
      BY <1>1 DEF Attempts
  <2> QED BY <1>1, <2>1 DEF IInv, AttemptsDisjoint, Settled
<1>8. RetiredHolds'
    BY <1>1 DEF RetiredHolds
<1> QED BY <1>1, <1>4, <1>5, <1>6, <1>7, <1>8, LedgerStep

LEMMA InterruptionHolds ==
    ASSUME IInv, Interruption
    PROVE  IInv'
<1>1. /\ UNCHANGED <<operations, policy, controls, bounds>> /\ record' = record /\ seen' = seen
      /\ callback' = callback /\ runs' = runs
      /\ started' = started /\ decided' = decided /\ execution' = execution /\ attempt' = attempt
      /\ terminal' = terminal /\ retired' = retired /\ policy' = policy
      /\ call.at = "unit" /\ ~retired /\ attempt \in Attempts /\ execution[attempt] = None
  <2>1. call.at = "unit"
      BY DEF Interruption, At
  <2> QED BY <2>1, UnderWay DEF Interruption, bounds, operations, IInv, CallHolds
<1>2. /\ call'.at = "route"
      /\ call' \in [at : Places, step : Steps \cup {None}, cancelled : BOOLEAN]
    BY CallMoves DEF Interruption, IInv, Typed, Places
<1>3. /\ interrupted' \in [Attempts -> {None, "cancellation", "timeout"}]
      /\ \A a \in Attempts : a # attempt => interrupted'[a] = interrupted[a]
    BY <1>1 DEF Interruption, IInv, Typed
<1>4. Typed'
    BY <1>1, <1>2, <1>3 DEF IInv, Typed, controls
<1>5. ASSUME NEW a \in Attempts PROVE AttemptHolds(a)'
  <2>1. AttemptHolds(a)
      BY DEF IInv, Single
  <2>2. CASE a = attempt
      BY <1>1, <2>1, <2>2
         DEF AttemptHolds, NeedsPreparation, Succeeded, Attempts
  <2>3. CASE a # attempt
      BY <1>1, <1>3, <2>1, <2>3 DEF AttemptHolds, NeedsPreparation, Succeeded
  <2> QED BY <2>2, <2>3
<1>6. CallHolds'
    BY <1>1, <1>2 DEF CallHolds, AtAStep, Attempts
<1>7. AttemptsDisjoint'
  <2>1. \A a \in Attempts : a < attempt => interrupted'[a] = interrupted[a]
      BY <1>1, <1>3 DEF Attempts
  <2> QED BY <1>1, <2>1 DEF IInv, AttemptsDisjoint, Settled
<1>8. RetiredHolds'
    BY <1>1 DEF RetiredHolds
<1> QED BY <1>1, <1>4, <1>5, <1>6, <1>7, <1>8, LedgerStep

LEMMA StartStepHolds ==
    ASSUME IInv, StartStep
    PROVE  IInv'
<1>1. /\ UNCHANGED <<operations, policy, controls, bounds>> /\ record' = record /\ seen' = seen
      /\ callback' = callback /\ runs' = runs
      /\ decided' = decided /\ execution' = execution /\ attempt' = attempt /\ interrupted' = interrupted
      /\ terminal' = terminal /\ retired' = retired /\ policy' = policy
      /\ call.at = "route" /\ ~retired /\ attempt \in Attempts
  <2>1. call.at = "route"
      BY DEF StartStep, At
  <2> QED BY <2>1, UnderWay DEF StartStep, bounds, operations
<1>2. PICK todo \in Steps : todo = Todo
    BY DEF StartStep
<1>3. /\ decided[attempt][todo] = None
      /\ todo \in Upward => interrupted[attempt] = None
      /\ todo \in Early <=> execution[attempt] = None
      /\ todo # Retry => terminal[attempt] = None
      /\ todo \in Downward => decided[attempt][Capture] # None
      /\ todo = Cleanup => Succeeded(attempt, Range(Teardown))
      /\ todo = Retry => NeedsPreparation(attempt)
  <2>1. At("route")
      BY DEF StartStep
  <2> QED BY <1>1, <1>2, <2>1, TodoIsReady
<1>4. /\ call'.at = "step" /\ call'.step = todo
      /\ call' \in [at : Places, step : Steps \cup {None}, cancelled : BOOLEAN]
    BY <1>2 DEF StartStep, IInv, Typed, Places
<1>5. /\ started' \in [Attempts -> SUBSET Steps]
      /\ started'[attempt] = started[attempt] \cup {todo}
      /\ \A a \in Attempts : a # attempt => started'[a] = started[a]
    BY <1>1, <1>2 DEF StartStep, IInv, Typed
<1>6. Typed'
    BY <1>1, <1>4, <1>5 DEF IInv, Typed, controls
<1>7. ASSUME NEW a \in Attempts PROVE AttemptHolds(a)'
  <2>1. AttemptHolds(a)
      BY DEF IInv, Single
  <2>2. CASE a = attempt
    <3>1. NeedsPreparation(a) => NeedsPreparation(a)'
        BY <1>1 DEF NeedsPreparation
    <3>2. Retry \in started'[a] => NeedsPreparation(a)
        BY <1>3, <1>5, <2>1, <2>2 DEF AttemptHolds
    <3> QED BY <1>1, <2>1, <2>2, <3>1, <3>2 DEF AttemptHolds, Succeeded, Attempts
  <2>3. CASE a # attempt
      BY <1>1, <1>5, <2>1, <2>3 DEF AttemptHolds, NeedsPreparation, Succeeded
  <2> QED BY <2>2, <2>3
<1>8. CallHolds'
  <2>1. record[attempt][todo] \notin {"accepted", "running"}
      BY <1>1, <1>2 DEF IInv, Single, StepHolds
  <2> QED BY <1>1, <1>3, <1>4, <1>5, <2>1 DEF CallHolds, AtAStep, Attempts, Succeeded
<1>9. AttemptsDisjoint'
  <2>1. \A a \in Attempts : a < attempt => started'[a] = started[a]
      BY <1>1, <1>5 DEF Attempts
  <2> QED BY <1>1, <2>1 DEF IInv, AttemptsDisjoint, Settled
<1>10. RetiredHolds'
    BY <1>1 DEF RetiredHolds
<1>11. \A a \in Attempts : started[a] \subseteq started'[a]
    BY <1>1, <1>5
<1> QED BY <1>1, <1>6, <1>7, <1>8, <1>9, <1>10, <1>11, LedgerStep

LEMMA DecideHolds ==
    ASSUME IInv, NEW outcome \in Outcomes, call.at = "step", Decide(outcome),
           record[attempt][call.step] \notin OpenRecords,
           outcome = "succeeded" /\ call.step \notin Vacuous =>
               record[attempt][call.step] = "succeeded"
    PROVE  IInv'
<1>1. /\ UNCHANGED <<operations, policy, controls, bounds>> /\ record' = record /\ seen' = seen
      /\ callback' = callback /\ runs' = runs
      /\ started' = started /\ execution' = execution /\ attempt' = attempt /\ interrupted' = interrupted
      /\ terminal' = terminal /\ retired' = retired /\ policy' = policy
      /\ ~retired /\ attempt \in Attempts
    BY UnderWay DEF Decide, bounds, operations
<1>2. call.step \in Steps /\ decided[attempt][call.step] = None
    BY <1>1 DEF IInv, CallHolds, AtAStep, Typed
<1>3. /\ call'.at \in {"idle", "route"}
      /\ call' \in [at : Places, step : Steps \cup {None}, cancelled : BOOLEAN]
  <2>1. CASE Return
      BY <2>1, CallMoves DEF IInv, Typed
  <2>2. CASE call' = [call EXCEPT !.at = "route", !.step = None]
      BY <2>2 DEF IInv, Typed, Places
  <2> QED BY <2>1, <2>2 DEF Decide
<1>4. /\ decided' \in [Attempts -> [Steps -> Outcomes \cup {None}]]
      /\ \A a \in Attempts, s \in Steps :
             decided'[a][s] = IF a = attempt /\ s = call.step THEN outcome ELSE decided[a][s]
  <2>1. decided' = [decided EXCEPT ![attempt][call.step] = outcome]
      BY DEF Decide
  <2>2. decided \in [Attempts -> [Steps -> Outcomes \cup {None}]]
      BY DEF IInv, Typed
  <2> QED BY <1>1, <1>2, <2>1, <2>2, Update
<1>5. Typed'
    BY <1>1, <1>3, <1>4 DEF IInv, Typed, controls
<1>6. /\ None \notin Outcomes /\ Downward \subseteq Steps /\ Range(Teardown) \subseteq Steps
      /\ Capture \in Steps /\ Retry \in Steps
    BY Kinds, NamesAssumption DEF Outcomes
<1>7. \A a \in Attempts, s \in Steps : decided[a][s] # None => decided'[a][s] = decided[a][s]
    BY <1>2, <1>4
<1>8. ASSUME NEW a \in Attempts PROVE AttemptHolds(a)'
  <2>1. AttemptHolds(a)
      BY DEF IInv, Single
  <2>2. decided[a][Capture] # None => decided'[a][Capture] # None
      BY <1>6, <1>7
  <2>3. /\ Succeeded(a, Downward) => Succeeded(a, Downward)'
        /\ Succeeded(a, Range(Teardown)) => Succeeded(a, Range(Teardown))'
      BY <1>6, <1>7, NamesAssumption DEF Succeeded
  <2> QED BY <1>1, <2>1, <2>2, <2>3 DEF AttemptHolds, NeedsPreparation
<1>9. CallHolds'
    BY <1>1, <1>3 DEF CallHolds, AtAStep, Attempts
<1>10. AttemptsDisjoint'
  <2>1. \A a \in Attempts : a < attempt => decided'[a][Retry] = decided[a][Retry]
      BY <1>1, <1>4, <1>6 DEF Attempts
  <2> QED BY <1>1, <2>1 DEF IInv, AttemptsDisjoint, Settled
<1>11. RetiredHolds'
    BY <1>1 DEF RetiredHolds
<1>12. \A a \in Attempts, s \in Steps : decided'[a][s] # decided[a][s] =>
           /\ decided[a][s] = None /\ record[a][s] \notin OpenRecords
           /\ decided'[a][s] = "succeeded" /\ s \notin Vacuous => record[a][s] = "succeeded"
    BY <1>2, <1>4
<1> QED BY <1>1, <1>5, <1>8, <1>9, <1>10, <1>11, <1>12, LedgerStep

LEMMA DecideWithoutOperationHolds ==
    ASSUME IInv, DecideWithoutOperation
    PROVE  IInv'
<1>1. call.at = "step" /\ record[attempt][call.step] = None
    BY DEF DecideWithoutOperation, Undispatched, At
<1>2. record[attempt][call.step] \notin OpenRecords
    BY <1>1, NamesAssumption DEF OpenRecords
<1>3. "succeeded" \in Outcomes /\ "failed" \in Outcomes
    BY DEF Outcomes
<1>4. CASE call.step \in Vacuous /\ Decide("succeeded")
    BY <1>1, <1>2, <1>3, <1>4, DecideHolds
<1>5. CASE Decide("failed")
    BY <1>1, <1>2, <1>3, <1>5, DecideHolds
<1> QED BY <1>4, <1>5 DEF DecideWithoutOperation

LEMMA DecideByRecordHolds ==
    ASSUME IInv, DecideByRecord
    PROVE  IInv'
<1>1. call.at = "step"
    BY DEF DecideByRecord, At
<1>2. {"succeeded", "cancelled"} \subseteq Outcomes
      /\ \A r \in {"succeeded", "cancelled"} : r \notin OpenRecords
    BY DEF Outcomes, OpenRecords
<1>3. CASE record[attempt][call.step] = "succeeded" /\ Decide("succeeded")
    BY <1>1, <1>2, <1>3, DecideHolds
<1>4. CASE record[attempt][call.step] = "cancelled" /\ Decide("cancelled")
    BY <1>1, <1>2, <1>4, DecideHolds
<1> QED BY <1>3, <1>4 DEF DecideByRecord

LEMMA ObserveCeasedHolds ==
    ASSUME IInv, ObserveCeased
    PROVE  IInv'
<1>1. /\ UNCHANGED <<operations, policy, controls, bounds>> /\ record' = record /\ seen' = seen
      /\ callback' = callback /\ runs' = runs
      /\ started' = started /\ decided' = decided /\ attempt' = attempt /\ interrupted' = interrupted
      /\ terminal' = terminal /\ retired' = retired /\ policy' = policy
      /\ call.at = "observe" /\ ~retired /\ attempt \in Attempts /\ execution[attempt] = None
  <2>1. call.at = "observe"
      BY DEF ObserveCeased, At
  <2> QED BY <2>1, UnderWay DEF ObserveCeased, bounds, operations, IInv, CallHolds
<1>2. /\ call'.at = "idle"
      /\ call' \in [at : Places, step : Steps \cup {None}, cancelled : BOOLEAN]
    BY CallMoves DEF ObserveCeased, IInv, Typed
<1>3. Forced(attempt) \in {None, "succeeded", "failed", "cancelled", "aborted", "timed-out"}
  <2>1. ASSUME interrupted[attempt] = None, Undone(attempt, Opening) # {}
        PROVE  decided[attempt][FirstUndone(attempt, Opening)] \in Outcomes \cup {None}
    <3>1. FirstUndone(attempt, Opening) \in Steps
        BY <2>1, OpeningWalk, Kinds
    <3> QED BY <1>1, <3>1 DEF IInv, Typed
  <2> QED BY <2>1 DEF Forced, Outcomes
<1>4. interrupted[attempt] # None => Forced(attempt) \in {"aborted", "cancelled", "timed-out"}
    BY DEF Forced
<1>5. PICK state \in {"succeeded", "failed", "cancelled", "timed-out", "aborted"}, absent \in BOOLEAN :
          execution' = [execution EXCEPT ![attempt] =
              [state |-> IF Forced(attempt) # None THEN Forced(attempt) ELSE state, absent |-> absent]]
    BY DEF ObserveCeased
<1>6. PICK e : e = [state |-> IF Forced(attempt) # None THEN Forced(attempt) ELSE state, absent |-> absent]
    OBVIOUS
<1>7. e \in Executions /\ (interrupted[attempt] # None => e.state \in {"aborted", "cancelled", "timed-out"})
  <2>1. /\ e.state = (IF Forced(attempt) # None THEN Forced(attempt) ELSE state)
        /\ e.absent = absent /\ e = [state |-> e.state, absent |-> e.absent]
      BY <1>6
  <2>2. e.state \in {"succeeded", "failed", "cancelled", "aborted", "timed-out"}
      BY <1>3, <1>5, <2>1
  <2>3. interrupted[attempt] # None => e.state \in {"aborted", "cancelled", "timed-out"}
      BY <1>4, <2>1, NamesAssumption
  <2> QED BY <1>5, <2>1, <2>2, <2>3 DEF Executions
<1>8. /\ execution' \in [Attempts -> Executions \cup {None}] /\ execution'[attempt] = e
      /\ \A a \in Attempts : a # attempt => execution'[a] = execution[a]
    BY <1>1, <1>5, <1>6, <1>7 DEF IInv, Typed
<1>9. Typed'
    BY <1>1, <1>2, <1>8 DEF IInv, Typed, controls
<1>10. ASSUME NEW a \in Attempts PROVE AttemptHolds(a)'
  <2>1. AttemptHolds(a)
      BY DEF IInv, Single
  <2>2. CASE a = attempt
    <3>1. terminal[a] = None /\ Retry \notin started[a]
        BY <1>1, <2>1, <2>2, NamesAssumption DEF AttemptHolds, NeedsPreparation
    <3>2. \A s \in Downward : record[a][s] = None
        BY <1>1, <2>1, <2>2 DEF AttemptHolds
    <3>3. e # None /\ ~(a > attempt) /\ Cleanup \in Downward
        BY <1>7, <2>2, NamesAssumption, Kinds DEF Attempts
    <3> QED BY <1>1, <1>7, <1>8, <2>2, <3>1, <3>2, <3>3, NamesAssumption DEF AttemptHolds, Succeeded
  <2>3. CASE a # attempt
      BY <1>1, <1>8, <2>1, <2>3 DEF AttemptHolds, NeedsPreparation, Succeeded
  <2> QED BY <2>2, <2>3
<1>11. CallHolds'
    BY <1>2 DEF CallHolds, AtAStep
<1>12. AttemptsDisjoint'
  <2>1. \A a \in Attempts : a < attempt => execution'[a] = execution[a]
      BY <1>1, <1>8 DEF Attempts
  <2> QED BY <1>1, <2>1 DEF IInv, AttemptsDisjoint, Settled
<1>13. RetiredHolds'
    BY <1>1 DEF RetiredHolds
<1> QED BY <1>1, <1>9, <1>10, <1>11, <1>12, <1>13, LedgerStep

LEMMA RecordTerminalHolds ==
    ASSUME IInv, RecordTerminal
    PROVE  IInv'
<1>1. /\ UNCHANGED <<operations, policy, controls, bounds>> /\ record' = record /\ seen' = seen
      /\ callback' = callback /\ runs' = runs
      /\ started' = started /\ decided' = decided /\ attempt' = attempt /\ interrupted' = interrupted
      /\ execution' = execution /\ retired' = retired /\ policy' = policy
      /\ call.at = "route" /\ ~retired /\ attempt \in Attempts
  <2>1. call.at = "route"
      BY DEF RecordTerminal, At
  <2> QED BY <2>1, UnderWay DEF RecordTerminal, bounds, operations
<1>2. /\ call'.at = "idle"
      /\ call' \in [at : Places, step : Steps \cup {None}, cancelled : BOOLEAN]
    BY CallMoves DEF RecordTerminal, IInv, Typed
<1>3. /\ terminal[attempt] = None /\ execution[attempt] # None
      /\ decided[attempt][Capture] # None /\ Succeeded(attempt, Downward)
    BY <1>1, TerminalIsReady DEF RecordTerminal
<1>4. /\ terminal' \in [Attempts -> {None, "reusable", "not-reusable"}]
      /\ terminal'[attempt] = "reusable" => seen[attempt][Cleanup] # "bad"
      /\ \A a \in Attempts : a # attempt => terminal'[a] = terminal[a]
    BY <1>1 DEF RecordTerminal, IInv, Typed
<1>5. Typed'
    BY <1>1, <1>2, <1>4 DEF IInv, Typed, controls
<1>6. ASSUME NEW a \in Attempts PROVE AttemptHolds(a)'
  <2>1. AttemptHolds(a)
      BY DEF IInv, Single
  <2>2. CASE a = attempt
    <3>1. Retry \notin started[a] /\ ~(a > attempt)
        BY <1>3, <2>1, <2>2, NamesAssumption DEF AttemptHolds, NeedsPreparation
    <3> QED BY <1>1, <1>3, <1>4, <2>1, <2>2, <3>1 DEF AttemptHolds, Succeeded
  <2>3. CASE a # attempt
      BY <1>1, <1>4, <2>1, <2>3 DEF AttemptHolds, NeedsPreparation, Succeeded
  <2> QED BY <2>2, <2>3
<1>7. CallHolds'
    BY <1>2 DEF CallHolds, AtAStep
<1>8. AttemptsDisjoint'
  <2>1. \A a \in Attempts : a < attempt => terminal'[a] = terminal[a]
      BY <1>1, <1>4 DEF Attempts
  <2> QED BY <1>1, <2>1 DEF IInv, AttemptsDisjoint, Settled
<1>9. RetiredHolds'
    BY <1>1 DEF RetiredHolds
<1> QED BY <1>1, <1>5, <1>6, <1>7, <1>8, <1>9, LedgerStep

LEMMA NextAttemptHolds ==
    ASSUME IInv, NextAttempt
    PROVE  IInv'
<1>1. /\ UNCHANGED <<operations, policy>> /\ record' = record /\ seen' = seen
      /\ callback' = callback /\ runs' = runs
      /\ started' = started /\ decided' = decided /\ interrupted' = interrupted /\ terminal' = terminal
      /\ execution' = execution /\ retired' = retired /\ policy' = policy
      /\ cancelled' = cancelled /\ stopped' = stopped /\ expired' = FALSE
      /\ call.at = "route" /\ ~retired /\ attempt \in Attempts /\ attempt' = attempt + 1
  <2>1. call.at = "route"
      BY DEF NextAttempt, At
  <2> QED BY <2>1, UnderWay DEF NextAttempt, bounds, operations
<1>2. /\ call'.at = "idle"
      /\ call' \in [at : Places, step : Steps \cup {None}, cancelled : BOOLEAN]
    BY CallMoves DEF NextAttempt, IInv, Typed
<1>3. terminal[attempt] = "reusable" /\ FinishStep(attempt) = <<"again", 0>>
    BY <1>1, FinishIsTold DEF NextAttempt
<1>4. /\ retry_permission(attempt) # "not-permitted"
      /\ \/ retry_permission(attempt) = "ready"
         \/ decided[attempt][Retry] = "succeeded" /\ seen[attempt][Retry] = "good"
  <2>1. <<"retire", 0>> # <<"again", 0>> /\ <<"stuck", 0>> # <<"again", 0>>
      OBVIOUS
  <2>2. Retry # <<"again", 0>>
      BY OtherIsNoStep, Kinds DEF Other
  <2> QED BY <1>3, <2>1, <2>2 DEF FinishStep
<1>5. /\ execution[attempt].state = "failed" /\ attempt < MaxAttempts
      /\ retry_permission(attempt) = "ready" => execution[attempt].absent \/ policy = "idempotent"
    BY <1>1, <1>4, SizesAssumption DEF retry_permission, Attempts
<1>6. attempt' \in 0..MaxAttempts
    BY <1>1, <1>5, SizesAssumption DEF Attempts
<1>7. Typed'
    BY <1>1, <1>2, <1>6 DEF IInv, Typed
<1>8. ASSUME NEW a \in Attempts PROVE AttemptHolds(a)'
  <2>1. AttemptHolds(a)
      BY DEF IInv, Single
  <2>2. a > attempt' => a > attempt
      BY <1>1 DEF Attempts
  <2> QED BY <1>1, <2>1, <2>2 DEF AttemptHolds, NeedsPreparation, Succeeded
<1>9. CallHolds'
    BY <1>2 DEF CallHolds, AtAStep
<1>10. Settled(attempt)
  <2> SUFFICES ASSUME NEW s \in Steps
               PROVE  record[attempt][s] \notin OpenRecords /\ callback[attempt][s] # "running"
      BY DEF Settled, OpenRecords
  <2>1. StepHolds(attempt, s) /\ AttemptHolds(attempt) /\ StepHolds(attempt, Cleanup)
      BY <1>1, Kinds DEF IInv, Single
  <2>2. record[attempt][s] \notin OpenRecords
    <3>1. /\ execution[attempt] # None /\ decided[attempt][Capture] # None
          /\ Succeeded(attempt, Downward)
        BY <1>3, <2>1, NamesAssumption DEF AttemptHolds
    <3>2. CASE s \in Early
      <4>1. decided[attempt][Cleanup] = "succeeded" /\ Cleanup \notin Vacuous /\ Cleanup \in Downward
          BY <3>1, Kinds DEF Succeeded
      <4>2. record[attempt][Cleanup] # None
          BY <2>1, <4>1, NamesAssumption DEF StepHolds
      <4> QED BY <2>1, <3>2, <4>1, <4>2 DEF AttemptHolds
    <3>3. CASE s \in Downward
        BY <2>1, <3>1, <3>3, NamesAssumption DEF Succeeded, StepHolds
    <3>4. CASE s = Capture
        BY <2>1, <3>1, <3>4 DEF StepHolds
    <3>5. CASE s = Retry
      <4>1. CASE decided[attempt][Retry] = "succeeded"
          BY <2>1, <3>5, <4>1, NamesAssumption DEF StepHolds
      <4>2. CASE retry_permission(attempt) = "ready"
        <5>1. Retry \notin started[attempt]
            BY <1>5, <2>1, <4>2 DEF AttemptHolds, NeedsPreparation
        <5>2. record[attempt][s] = None
            BY <2>1, <3>5, <5>1 DEF StepHolds
        <5> QED BY <5>2, NamesAssumption DEF OpenRecords
      <4> QED BY <1>4, <4>1, <4>2
    <3> QED BY <3>2, <3>3, <3>4, <3>5, Kinds
  <2> QED BY <2>1, <2>2 DEF StepHolds, OpenRecords
<1>11. AttemptsDisjoint'
  <2> SUFFICES ASSUME NEW a \in Attempts, a < attempt'
               PROVE  /\ terminal[a] = "reusable"
                      /\ execution[a].state = "failed" /\ interrupted[a] = None
                      /\ Settled(a)
                      /\ Retry \in started[a] => decided[a][Retry] = "succeeded" /\ seen[a][Retry] = "good"
      BY <1>1 DEF AttemptsDisjoint, Settled
  <2>1. CASE a < attempt
      BY <2>1 DEF IInv, AttemptsDisjoint
  <2>2. CASE a = attempt
    <3>1. AttemptHolds(attempt)
        BY <1>1 DEF IInv, Single
    <3>2. interrupted[attempt] = None
        BY <1>3, <1>5, <3>1, NamesAssumption DEF AttemptHolds
    <3>3. Retry \in started[attempt] => decided[attempt][Retry] = "succeeded" /\ seen[attempt][Retry] = "good"
        BY <1>4, <1>5, <3>1 DEF AttemptHolds, NeedsPreparation
    <3> QED BY <1>3, <1>5, <1>10, <2>2, <3>2, <3>3
  <2> QED BY <1>1, <2>1, <2>2 DEF Attempts
<1>12. RetiredHolds'
    BY <1>1 DEF RetiredHolds
<1> QED BY <1>1, <1>7, <1>8, <1>9, <1>11, <1>12, LedgerStep

LEMMA RetireHolds ==
    ASSUME IInv, Retire
    PROVE  IInv'
<1>1. /\ UNCHANGED <<operations, policy, controls>> /\ record' = record /\ seen' = seen
      /\ callback' = callback /\ runs' = runs
      /\ started' = started /\ decided' = decided /\ interrupted' = interrupted /\ terminal' = terminal
      /\ execution' = execution /\ attempt' = attempt /\ policy' = policy
      /\ call.at = "route" /\ attempt \in Attempts
  <2>1. call.at = "route"
      BY DEF Retire, At
  <2> QED BY <2>1, UnderWay DEF Retire, bounds, operations
<1>2. /\ call'.at = "idle"
      /\ call' \in [at : Places, step : Steps \cup {None}, cancelled : BOOLEAN]
    BY CallMoves DEF Retire, IInv, Typed
<1>3. retired' = (require_trial_reuse /\ require_idle_context)
    BY DEF Retire
<1>4. retired' \in BOOLEAN
    BY <1>3
<1>5. Typed'
    BY <1>1, <1>2, <1>4 DEF IInv, Typed, controls
<1>6. ASSUME NEW a \in Attempts PROVE AttemptHolds(a)'
  <2>1. AttemptHolds(a)
      BY DEF IInv, Single
  <2> QED BY <1>1, <2>1 DEF AttemptHolds, NeedsPreparation, Succeeded
<1>7. CallHolds'
    BY <1>2 DEF CallHolds, AtAStep
<1>8. AttemptsDisjoint'
    BY <1>1 DEF IInv, AttemptsDisjoint, Settled
<1>9. RetiredHolds'
  <2> SUFFICES ASSUME require_trial_reuse, require_idle_context
               PROVE  /\ \A a \in Attempts, s \in Steps :
                             record[a][s] # "indeterminate" /\ callback[a][s] # "running"
                      /\ \A a \in 1..attempt : /\ Succeeded(a, Downward)
                                               /\ seen[a][Cleanup] \in {"good", "idempotent"}
                                               /\ runs[a][Retry] > 0 => seen[a][Retry] = "good"
      BY <1>1, <1>3 DEF RetiredHolds, Succeeded
  <2>1. \A a \in Attempts, s \in Steps : record[a][s] # "indeterminate"
      BY NobodyIs DEF require_idle_context, Unresolved
  <2>2. \A a \in Attempts, s \in Steps : callback[a][s] # "running"
      BY NobodyIs DEF require_idle_context, Alive
  <2>3. ASSUME NEW a \in 1..attempt
        PROVE  /\ Succeeded(a, Downward)
               /\ seen[a][Cleanup] \in {"good", "idempotent"}
               /\ runs[a][Retry] > 0 => seen[a][Retry] = "good"
    <3>1. /\ terminal[a] = "reusable"
          /\ Retry \in started[a] => decided[a][Retry] = "succeeded" /\ seen[a][Retry] = "good"
        BY DEF require_trial_reuse
    <3>2. a \in Attempts
        BY SizesAssumption DEF IInv, Typed, Attempts
    <3>3. AttemptHolds(a) /\ StepHolds(a, Cleanup) /\ StepHolds(a, Retry)
        BY <3>2, Kinds DEF IInv, Single
    <3>4. Succeeded(a, Downward) /\ seen[a][Cleanup] # "bad"
        BY <3>1, <3>3, NamesAssumption DEF AttemptHolds
    <3>5. seen[a][Cleanup] \in {"good", "idempotent"}
      <4>1. decided[a][Cleanup] = "succeeded" /\ Cleanup \notin Vacuous /\ Cleanup \in Modules /\ Cleanup \in Steps
          BY <3>4, Kinds DEF Succeeded
      <4>2. record[a][Cleanup] = "succeeded" /\ callback[a][Cleanup] # "running"
          BY <2>2, <3>2, <3>3, <4>1 DEF StepHolds
      <4>3. seen[a][Cleanup] \in Observations[Cleanup]
          BY <3>3, <4>1, <4>2 DEF StepHolds
      <4> QED BY <3>4, <4>3, ObservationKinds
    <3>6. runs[a][Retry] > 0 => Retry \in started[a]
        BY <3>3 DEF StepHolds
    <3> QED BY <3>1, <3>4, <3>5, <3>6
  <2> QED BY <2>1, <2>2, <2>3
<1> QED BY <1>1, <1>5, <1>6, <1>7, <1>8, <1>9, LedgerStep

----------------------------------------------------------------------------
(* Steps that write nothing of this module's ledger.                        *)

\* A call that goes no further: blocked, left unknown, still running, stuck.
LEMMA ReturnHolds ==
    ASSUME IInv, Return, UNCHANGED <<ledger, operations, controls, bounds>>,
           call.at \notin {"accepted", "running"}
    PROVE  IInv'
<1>1. /\ started' = started /\ decided' = decided /\ interrupted' = interrupted
      /\ execution' = execution /\ terminal' = terminal /\ policy' = policy /\ attempt' = attempt
      /\ retired' = retired
      /\ record' = record /\ callback' = callback /\ runs' = runs /\ seen' = seen
      /\ expired' = expired /\ cancelled' = cancelled /\ stopped' = stopped
    BY DEF ledger, operations, bounds, controls
<1>2. /\ call'.at = "idle"
      /\ call' \in [at : Places, step : Steps \cup {None}, cancelled : BOOLEAN]
    BY CallMoves DEF IInv, Typed
<1>3. Typed'
    BY <1>1, <1>2 DEF IInv, Typed
<1>4. CallHolds'
    BY <1>2 DEF CallHolds, AtAStep
<1> QED BY <1>1, <1>3, <1>4, QuietStep

LEMMA StartObservingHolds ==
    ASSUME IInv, StartObserving
    PROVE  IInv'
<1>1. /\ started' = started /\ decided' = decided /\ interrupted' = interrupted
      /\ execution' = execution /\ terminal' = terminal /\ policy' = policy /\ attempt' = attempt
      /\ retired' = retired
      /\ record' = record /\ callback' = callback /\ runs' = runs /\ seen' = seen
      /\ expired' = expired /\ cancelled' = cancelled /\ stopped' = stopped
      /\ UNCHANGED <<ledger, operations>>
    BY DEF StartObserving, ledger, operations, bounds, controls
<1>2. /\ call'.at = "observe" /\ call.at = "route"
      /\ call' \in [at : Places, step : Steps \cup {None}, cancelled : BOOLEAN]
    BY CallMoves DEF StartObserving, At, IInv, Typed, Places
<1>3. attempt \in Attempts /\ ~retired
    BY <1>2, UnderWay
<1>4. execution[attempt] = None
  <2>1. <<"observe", 0>> \notin Steps
      BY OtherIsNoStep DEF Other
  <2>2. /\ <<"terminal", 0>> # <<"observe", 0>> /\ <<"stuck", 0>> # <<"observe", 0>>
        /\ <<"retire", 0>> # <<"observe", 0>> /\ <<"again", 0>> # <<"observe", 0>>
      OBVIOUS
  <2>3. Retry \in Steps /\ Capture \in Steps /\ Downward \subseteq Steps
      BY Kinds
  <2>4. FinishStep(attempt) # <<"observe", 0>>
      BY <2>1, <2>2, <2>3 DEF FinishStep
  <2>5. AfterExecutionStep(attempt) # <<"observe", 0>>
      BY <2>1, <2>2, <2>3, ClosingWalk DEF AfterExecutionStep
  <2> QED BY <2>4, <2>5 DEF StartObserving, Todo
<1>5. Typed'
    BY <1>1, <1>2 DEF IInv, Typed
<1>6. CallHolds'
    BY <1>1, <1>2, <1>3, <1>4 DEF CallHolds, AtAStep, Attempts
<1> QED BY <1>1, <1>2, <1>5, <1>6, QuietStep

LEMMA ControlsHold ==
    ASSUME IInv, Cancel \/ Expire \/ StopAdmission
    PROVE  IInv'
<1>1. /\ UNCHANGED <<ledger, operations, policy>> /\ call' = call
      /\ started' = started /\ decided' = decided /\ interrupted' = interrupted
      /\ execution' = execution /\ terminal' = terminal /\ policy' = policy /\ attempt' = attempt
      /\ retired' = retired
      /\ record' = record /\ callback' = callback /\ runs' = runs /\ seen' = seen
    BY DEF Cancel, Expire, StopAdmission, ledger, operations
<1>2. expired' \in BOOLEAN /\ cancelled' \in BOOLEAN /\ stopped' \in BOOLEAN
    BY DEF Cancel, Expire, StopAdmission, IInv, Typed
<1>3. Typed'
    BY <1>1, <1>2 DEF IInv, Typed
<1> QED BY <1>1, <1>3, QuietStep

LEMMA StutterHolds ==
    ASSUME IInv, UNCHANGED vars
    PROVE  IInv'
<1>1. /\ UNCHANGED <<ledger, operations, policy>> /\ call' = call
      /\ started' = started /\ decided' = decided /\ interrupted' = interrupted
      /\ execution' = execution /\ terminal' = terminal /\ policy' = policy /\ attempt' = attempt
      /\ retired' = retired
      /\ record' = record /\ callback' = callback /\ runs' = runs /\ seen' = seen
      /\ expired' = expired /\ cancelled' = cancelled /\ stopped' = stopped
    BY DEF vars, ledger, operations, bounds, controls
<1>2. Typed'
    BY <1>1 DEF IInv, Typed
<1> QED BY <1>1, <1>2, QuietStep

----------------------------------------------------------------------------
(* The inductive invariant, and what follows from it.                       *)

LEMMA InitHolds == Init => IInv
<1> SUFFICES ASSUME Init PROVE IInv
    OBVIOUS
<1> USE DEF Init
<1>1. Typed
  <2>1. attempt \in 0..MaxAttempts /\ started \in [Attempts -> SUBSET Steps]
      BY SizesAssumption
  <2>2. /\ decided \in [Attempts -> [Steps -> Outcomes \cup {None}]]
        /\ record \in [Attempts -> [Steps -> Records \cup {None}]]
        /\ callback \in [Attempts -> [Steps -> {None, "running", "ended"}]]
        /\ runs \in [Attempts -> [Steps -> Nat]]
    <3>1. [s \in Steps |-> None] \in [Steps -> Outcomes \cup {None}]
        OBVIOUS
    <3>2. [s \in Steps |-> None] \in [Steps -> Records \cup {None}]
        OBVIOUS
    <3>3. [s \in Steps |-> None] \in [Steps -> {None, "running", "ended"}]
        OBVIOUS
    <3>4. [s \in Steps |-> 0] \in [Steps -> Nat]
        OBVIOUS
    <3> QED BY <3>1, <3>2, <3>3, <3>4
  <2>3. /\ seen \in [Attempts -> [Modules -> AllObservations \cup {None}]]
        /\ \A a \in Attempts : \A s \in Modules : seen[a][s] \in Observations[s] \cup {None}
    <3>1. [s \in Modules |-> None] \in [Modules -> AllObservations \cup {None}]
        OBVIOUS
    <3> QED BY <3>1
  <2>4. /\ interrupted \in [Attempts -> {None, "cancellation", "timeout"}]
        /\ execution \in [Attempts -> Executions \cup {None}]
        /\ terminal \in [Attempts -> {None, "reusable", "not-reusable"}]
      OBVIOUS
  <2>5. /\ expired \in BOOLEAN /\ cancelled \in BOOLEAN /\ stopped \in BOOLEAN
        /\ retired \in BOOLEAN /\ policy \in Policies
        /\ call \in [at : Places, step : Steps \cup {None}, cancelled : BOOLEAN]
      BY DEF Idle, Places
  <2> HIDE DEF Init
  <2> QED BY <2>1, <2>2, <2>3, <2>4, <2>5 DEF Typed
<1>2. ASSUME NEW a \in Attempts, NEW s \in Steps PROVE StepHolds(a, s)
  <2>1. /\ record[a][s] = None /\ runs[a][s] = 0 /\ callback[a][s] = None /\ decided[a][s] = None
      OBVIOUS
  <2> HIDE DEF Init
  <2> QED BY <2>1, NamesAssumption DEF StepHolds, OpenRecords
<1>3. ASSUME NEW a \in Attempts PROVE AttemptHolds(a)
  <2>1. /\ started[a] = {} /\ interrupted[a] = None /\ execution[a] = None /\ terminal[a] = None
        /\ \A s \in Steps : record[a][s] = None
      OBVIOUS
  <2>2. Downward \subseteq Steps /\ Cleanup \in Downward
      BY Kinds
  <2> HIDE DEF Init
  <2> QED BY <2>1, <2>2, NamesAssumption DEF AttemptHolds
<1>4. CallHolds
    BY DEF CallHolds, Idle, AtAStep
<1>5. AttemptsDisjoint
    BY DEF AttemptsDisjoint, Attempts
<1>6. RetiredHolds
    BY DEF RetiredHolds
<1> QED BY <1>1, <1>2, <1>3, <1>4, <1>5, <1>6 DEF IInv, Single

LEMMA StepKeeps == IInv /\ [Next]_vars => IInv'
<1> SUFFICES ASSUME IInv, [Next]_vars PROVE IInv'
    OBVIOUS
<1>1. CASE Begin
    BY <1>1, BeginHolds
<1>2. CASE Interruption
    BY <1>2, InterruptionHolds
<1>3. CASE StartStep
    BY <1>3, StartStepHolds
<1>4. CASE Blocked
    BY <1>4, ReturnHolds DEF Blocked, Undispatched, At
<1>5. CASE Accept
    BY <1>5, AcceptHolds
<1>6. CASE DecideWithoutOperation
    BY <1>6, DecideWithoutOperationHolds
<1>7. CASE DecideByRecord
    BY <1>7, DecideByRecordHolds
<1>8. CASE LeaveUnknown
    BY <1>8, ReturnHolds DEF LeaveUnknown, At
<1>9. CASE Grant
    BY <1>9, GrantHolds
<1>10. CASE Forgo
    BY <1>10, ForgoHolds
<1>11. CASE Succeed
    BY <1>11, SucceedHolds
<1>12. CASE LoseTrack
    BY <1>12, LoseTrackHolds
<1>13. CASE StartObserving
    BY <1>13, StartObservingHolds
<1>14. CASE ObserveRunning
    BY <1>14, ReturnHolds DEF ObserveRunning, At
<1>15. CASE ObserveCeased
    BY <1>15, ObserveCeasedHolds
<1>16. CASE RecordTerminal
    BY <1>16, RecordTerminalHolds
<1>17. CASE LeaveStuck
    BY <1>17, ReturnHolds DEF LeaveStuck, At
<1>18. CASE NextAttempt
    BY <1>18, NextAttemptHolds
<1>19. CASE Retire
    BY <1>19, RetireHolds
<1>20. CASE \E a \in Attempts, s \in Steps : CallbackStep(a, s)
  <2>1. PICK a \in Attempts, s \in Steps : CallbackStep(a, s)
      BY <1>20
  <2> QED BY <2>1, CallbackObservesHolds, CallbackEndsHolds DEF CallbackStep
<1>21. CASE Cancel \/ Expire \/ StopAdmission
    BY <1>21, ControlsHold
<1>22. CASE CancelRun
    BY <1>22, CancelRunHolds
<1>23. CASE Restart
    BY <1>23, RestartHolds
<1>24. CASE UNCHANGED vars
    BY <1>24, StutterHolds
<1> QED BY <1>1, <1>2, <1>3, <1>4, <1>5, <1>6, <1>7, <1>8, <1>9, <1>10, <1>11, <1>12,
           <1>13, <1>14, <1>15, <1>16, <1>17, <1>18, <1>19, <1>20, <1>21, <1>22, <1>23, <1>24
        DEF Next, Advance

LEMMA InvariantHolds == Spec => []IInv
BY InitHolds, StepKeeps, PTL DEF Spec

LEMMA Consequences ==
    ASSUME IInv
    PROVE  TypeOK /\ EffectsOnce /\ LifecycleOrder /\ HandedOnClean
<1>1. TypeOK
    BY DEF IInv, Typed, TypeOK, Records, OpenRecords, Places
<1>2. EffectsOnce
    BY DEF IInv, Single, StepHolds, EffectsOnce
<1>3. ASSUME NEW a \in Attempts
      PROVE  /\ \A s \in Range(Teardown) : runs[a][s] > 0 =>
                    /\ execution[a] # None /\ decided[a][Capture] # None
                    /\ \A t \in {Configure, Stop, Capture} \cup Range(Application) :
                           callback[a][t] # "running"
             /\ runs[a][Cleanup] > 0 => Undone(a, Teardown) = {}
             /\ terminal[a] # None =>
                    \A s \in Steps \ {Retry} : callback[a][s] # "running"
                                               /\ record[a][s] # "indeterminate"
  <2>1. AttemptHolds(a) /\ \A s \in Steps : StepHolds(a, s)
      BY DEF IInv, Single
  <2>2. \A s \in Steps : record[a][s] \notin OpenRecords => callback[a][s] # "running" /\ record[a][s] # "indeterminate"
      BY <2>1 DEF StepHolds, OpenRecords
  <2>3. \A s \in Steps : runs[a][s] > 0 => record[a][s] # None
      BY <2>1 DEF StepHolds
  <2>4. decided[a][Capture] # None => record[a][Capture] \notin OpenRecords
      BY <2>1, Kinds DEF StepHolds
  <2>5. ASSUME NEW s \in Range(Teardown), runs[a][s] > 0
        PROVE  /\ execution[a] # None /\ decided[a][Capture] # None
               /\ \A t \in {Configure, Stop, Capture} \cup Range(Application) : callback[a][t] # "running"
    <3>1. record[a][s] # None /\ s \in Downward
        BY <2>3, <2>5, Kinds
    <3>2. /\ execution[a] # None /\ decided[a][Capture] # None
          /\ \A t \in Early : record[a][t] \notin OpenRecords
        BY <2>1, <3>1 DEF AttemptHolds
    <3>3. {Configure, Stop} \cup Range(Application) \subseteq Early /\ Early \cup {Capture} \subseteq Steps
        BY Kinds
    <3> QED BY <2>2, <2>4, <3>2, <3>3
  <2>6. runs[a][Cleanup] > 0 => Undone(a, Teardown) = {}
      BY <2>1, <2>3, Kinds, TeardownWalk DEF AttemptHolds
  <2>7. ASSUME terminal[a] # None, NEW s \in Steps \ {Retry}
        PROVE  callback[a][s] # "running" /\ record[a][s] # "indeterminate"
    <3>1. decided[a][Capture] # None /\ Succeeded(a, Downward)
        BY <2>1, <2>7 DEF AttemptHolds
    <3>2. CASE s \in Early
      <4>1. decided[a][Cleanup] = "succeeded" /\ Cleanup \notin Vacuous /\ Cleanup \in Downward /\ Cleanup \in Steps
          BY <3>1, Kinds DEF Succeeded
      <4>2. record[a][Cleanup] # None
          BY <2>1, <4>1, NamesAssumption DEF StepHolds
      <4> QED BY <2>1, <2>2, <3>2, <4>1, <4>2 DEF AttemptHolds
    <3>3. CASE s \in Downward
        BY <2>1, <2>2, <3>1, <3>3, NamesAssumption DEF Succeeded, StepHolds
    <3>4. CASE s = Capture
        BY <2>2, <2>4, <3>1, <3>4
    <3> QED BY <3>2, <3>3, <3>4, Kinds
  <2> QED BY <2>5, <2>6, <2>7
<1>4. LifecycleOrder
    BY <1>3 DEF LifecycleOrder
<1>5. RetiredIsClean
  <2> SUFFICES ASSUME retired
               PROVE  /\ Unresolved = {} /\ Alive = {}
                      /\ \A a \in 1..attempt : /\ Undone(a, Closing) = {}
                                               /\ seen[a][Cleanup] \in {"good", "idempotent"}
                                               /\ runs[a][Retry] > 0 => seen[a][Retry] = "good"
      BY DEF RetiredIsClean
  <2>1. /\ \A a \in Attempts, s \in Steps : record[a][s] # "indeterminate"
        /\ \A a \in Attempts, s \in Steps : callback[a][s] # "running"
        /\ \A a \in 1..attempt : /\ Succeeded(a, Downward)
                                 /\ seen[a][Cleanup] \in {"good", "idempotent"}
                                 /\ runs[a][Retry] > 0 => seen[a][Retry] = "good"
      BY DEF IInv, RetiredHolds
  <2>2. Unresolved = {} /\ Alive = {}
      BY <2>1, NobodyIs DEF Unresolved, Alive
  <2> QED BY <2>1, <2>2, ClosingWalk
<1> QED BY <1>1, <1>2, <1>4, <1>5 DEF IInv, HandedOnClean

----------------------------------------------------------------------------
(* The theorems.                                                            *)

\* Every variable keeps its type: what is recorded of a step, an attempt and
\* a call is always one of the values the code can write.
THEOREM TypeCorrect == Spec => []TypeOK
BY InvariantHolds, Consequences, PTL

\* advance_step never dispatches a step of an attempt twice, over any number
\* of losses of the process, unknown outcomes and resolutions.
THEOREM EffectsOnceAlways == Spec => []EffectsOnce
BY InvariantHolds, Consequences, PTL

\* The order of the lifecycle holds of the code at work, also of code that
\* outlived the call that started it.
THEOREM LifecycleOrderAlways == Spec => []LifecycleOrder
BY InvariantHolds, Consequences, PTL

\* What retry_permission, _prepare_retry and require_trial_reuse hand on, to
\* the next attempt and to the next run, is clean.
THEOREM HandedOnCleanAlways == Spec => []HandedOnClean
BY InvariantHolds, Consequences, PTL

\* The first interruption that was recorded decides the attempt.
THEOREM InterruptionSticksAlways == Spec => InterruptionSticks
<1> DEFINE Sticks == \A a \in Attempts : interrupted[a] # None =>
               /\ interrupted'[a] = interrupted[a]
               /\ \A s \in {Configure} \cup Range(Application) : runs'[a][s] = runs[a][s]
               /\ execution'[a] # execution[a] =>
                      execution'[a].state \in {"aborted", "cancelled", "timed-out"}
<1>1. IInv /\ [Next]_vars => [Sticks]_vars
  <2> SUFFICES ASSUME IInv, IInv', Next, NEW a \in Attempts, interrupted[a] # None
               PROVE  /\ interrupted'[a] = interrupted[a]
                      /\ \A s \in Upward : runs'[a][s] = runs[a][s]
                      /\ execution'[a] # execution[a] =>
                             execution'[a].state \in {"aborted", "cancelled", "timed-out"}
      BY StepKeeps DEF Upward
  <2>1. interrupted'[a] = interrupted[a]
    <3>1. CASE Interruption
      <4>1. call.at = "unit"
          BY <3>1 DEF Interruption, At
      <4>2. attempt \in Attempts
          BY <4>1, UnderWay
      <4> QED BY <3>1, <4>2 DEF Interruption, IInv, Typed
    <3>2. CASE ~Interruption
      <4>1. UNCHANGED interrupted
          BY <3>2
             DEF Next, Advance, Begin, StartStep, Blocked, Accept,
                 DecideWithoutOperation, DecideByRecord, Decide, LeaveUnknown,
                 Grant, Forgo, Succeed, LoseTrack, StartObserving, ObserveRunning,
                 ObserveCeased, RecordTerminal, LeaveStuck, NextAttempt, Retire,
                 CallbackStep, CallbackObserves, CallbackEnds, Cancel,
                 CancelRun, Expire, StopAdmission, Restart, ledger
      <4> QED BY <4>1
    <3> QED BY <3>1, <3>2
  <2>2. ASSUME NEW s \in Upward PROVE runs'[a][s] = runs[a][s]
    <3>1. CASE Grant
      <4>1. call.at = "accepted"
          BY <3>1 DEF Grant, At
      <4>2. attempt \in Attempts /\ ~(a = attempt /\ s = call.step)
          BY <4>1, UnderWay DEF IInv, CallHolds, AtAStep
      <4>3. s \in Steps /\ call.step \in Steps
          BY <4>1, <4>2, Kinds DEF IInv, CallHolds, AtAStep, Typed
      <4>4. runs' = [runs EXCEPT ![attempt][call.step] = runs[attempt][call.step] + 1]
          BY <3>1 DEF Grant
      <4> QED BY <4>2, <4>3, <4>4 DEF IInv, Typed
    <3>2. CASE ~Grant
      <4>1. UNCHANGED runs
          BY <3>2
             DEF Next, Advance, Begin, Interruption, StartStep, Blocked, Accept,
                 DecideWithoutOperation, DecideByRecord, Decide, LeaveUnknown,
                 Forgo, Succeed, LoseTrack, StartObserving, ObserveRunning,
                 ObserveCeased, RecordTerminal, LeaveStuck, NextAttempt, Retire,
                 CallbackStep, CallbackObserves, CallbackEnds, Cancel,
                 CancelRun, Expire, StopAdmission, Restart, operations
      <4> QED BY <4>1
    <3> QED BY <3>1, <3>2
  <2>3. ASSUME execution'[a] # execution[a]
        PROVE  execution'[a].state \in {"aborted", "cancelled", "timed-out"}
    <3>1. AttemptHolds(a)'
        BY DEF IInv, Single
    <3>2. execution'[a] # None
      <4>1. CASE ObserveCeased
        <5>1. call.at = "observe"
            BY <4>1 DEF ObserveCeased, At
        <5>2. attempt \in Attempts /\ execution[attempt] = None
            BY <5>1, UnderWay DEF IInv, CallHolds
        <5>3. a = attempt
            BY <2>3, <4>1, <5>2 DEF ObserveCeased
        <5> QED BY <2>3, <5>2, <5>3
      <4>2. CASE ~ObserveCeased
        <5>1. UNCHANGED execution
            BY <4>2
               DEF Next, Advance, Begin, Interruption, StartStep, Blocked,
                   Accept, DecideWithoutOperation, DecideByRecord, Decide,
                   LeaveUnknown, Grant, Forgo, Succeed, LoseTrack, StartObserving,
                   ObserveRunning, RecordTerminal, LeaveStuck, NextAttempt, Retire,
                   CallbackStep, CallbackObserves, CallbackEnds, Cancel,
                   CancelRun, Expire, StopAdmission, Restart, ledger
        <5> QED BY <2>3, <5>1
      <4> QED BY <4>1, <4>2
    <3> QED BY <2>1, <3>1, <3>2 DEF AttemptHolds
  <2> QED BY <2>1, <2>2, <2>3
<1> QED BY <1>1, InvariantHolds, PTL DEF Spec, InterruptionSticks
=============================================================================
