----------------------- MODULE ExperimentLedger_proofs -----------------------
(****************************************************************************)
(* ExperimentLedger for any number of callers, owners, entries and attempts, *)
(* and any admitted parallelism: every attempt has one executor and no more  *)
(* of them are under way than admitted, every further attempt is justified,  *)
(* and nothing is assigned after a cancellation.                             *)
(*                                                                          *)
(* The ledger is extended by calls that act on what they read before, so the *)
(* invariant has to say of each call what of its reading is still true.  A   *)
(* step either adds a decision, and makes every compare-and-append but its   *)
(* own stale, or leaves the decisions alone; in both cases it only goes      *)
(* Onward, and what the calls rely on is stated so that it survives that.    *)
(****************************************************************************)
EXTENDS ExperimentLedger, FiniteSetTheorems, TLAPS

----------------------------------------------------------------------------
(* What a call is carrying.                                                 *)

Seen == [last : 0..MaxAttempts, ended : BOOLEAN, assigned : BOOLEAN, retired : BOOLEAN]
Views == UNION {[S -> Seen] : S \in SUBSET Entries}

Assigning == [at : {"assign"}, fresh : BOOLEAN, owner : Owners, pair : Pairs]
Retaining == [at : {"retain"}, fresh : BOOLEAN, pair : Pairs, report : 2..3, due : BOOLEAN]
Recording == [at : {"terminal"}, pair : Pairs, due : BOOLEAN]
Visiting == [at : {"visit"}, lease : BOOLEAN, entry : Entries, view : Views,
             cancelled : BOOLEAN]
Working == [at : {"claimed", "unit", "finish"}, lease : BOOLEAN, entry : Entries,
            view : Views, cancelled : BOOLEAN, ordinal : Ordinals]
Calls == {Idle} \cup Assigning \cup Retaining \cup Recording \cup Visiting \cup Working

----------------------------------------------------------------------------
(* The inductive invariant.                                                 *)

\* An entry that is over for good, whatever is cancelled; and one that is not.
Finished(e) ==
    /\ attempts[e] > 0 /\ <<e, attempts[e]>> \in terminal
    /\ verdict[<<e, attempts[e]>>] \in {"done", "lingering"}
OpenEntries == {e \in Entries : attempts[e] > 0 /\ ~Finished(e)}

\* The decisions among themselves, and against the facts they are about.
\* Nobody but its owner works on an assigned attempt, and nobody but this
\* engine on one of an entry that it began itself.
PairHolds(p) ==
    /\ assigned[p] # None => p[2] <= attempts[p[1]] /\ assigned[<<p[1], 1>>] # None
    /\ p \in terminal => p[2] <= attempts[p[1]] /\ stage[p] >= 2
    /\ stage[p] >= 2 => verdict[p] \in Verdicts(p)
    /\ prepared[p] # None => p \in terminal /\ stage[p] = 3
    /\ outcome[p] # 0 => assigned[p] # None /\ outcome[p] <= stage[p]
    /\ executors[p] \subseteq {IF assigned[p] # None THEN assigned[p] ELSE "runtime"}
    /\ executors[p] # {} /\ assigned[p] = None =>
           attempts[p[1]] > 0 /\ ~EntryAssigned(p[1])

Ledger ==
    /\ \A p \in Pairs : PairHolds(p)
    /\ \A e \in retired : Finished(e) \/ cancelled

Bounded == Cardinality(OpenEntries) <= Ceiling

\* A cut that is still fresh is the state itself.
CutHolds(c) ==
    c.at = "assign" /\ c.fresh =>
        LET e == c.pair[1] IN
        /\ ~cancelled /\ AssignmentAttempt(e) /\ assigned[c.pair] = None
        /\ c.pair[2] = IF attempts[e] = 0 THEN 1 ELSE attempts[e]
        /\ Cardinality(OpenEntries \ {e}) < Ceiling

ReportHolds(c) ==
    c.at \in {"retain", "terminal"} =>
        /\ assigned[c.pair] # None /\ stage[c.pair] >= 2
        /\ c.at = "retain" =>
               c.report <= stage[c.pair] /\ (c.fresh => outcome[c.pair] < c.report)

\* What is left of an old view: what can only grow, and that an entry this
\* engine began is never assigned.
SightHolds(v, f, stop) ==
    /\ v.last <= attempts[f]
    /\ v.ended => v.last > 0 /\ <<f, v.last>> \in terminal
    /\ v.last > 0 /\ ~v.assigned => attempts[f] > 0 /\ ~EntryAssigned(f)
    /\ v.retired /\ ~stop => Finished(f)

ViewHolds(c) ==
    c.at \in {"visit", "claimed", "unit", "finish"} =>
        /\ c.entry \in DOMAIN c.view
        /\ c.lease => DOMAIN c.view = c.entry..NumEntries
        /\ ~c.lease => c.view[c.entry].last > 0
        /\ c.cancelled => cancelled
        /\ c.lease /\ ~c.cancelled => \A f \in Entries : f < c.entry => Finished(f)
        /\ \A f \in DOMAIN c.view : SightHolds(c.view[f], f, c.cancelled)

WorkHolds(c) ==
    /\ c.at \in {"claimed", "unit", "finish"} =>
           /\ c.ordinal <= attempts[c.entry]
           /\ c.ordinal = IF c.view[c.entry].last > 0 THEN c.view[c.entry].last ELSE 1
    /\ c.at = "unit" => ~EntryAssigned(c.entry)
    /\ c.at = "finish" =>
           /\ <<c.entry, c.ordinal>> \in terminal
           /\ assigned[<<c.entry, c.ordinal>>] = None => ~EntryAssigned(c.entry)

Holds(c) == CutHolds(c) /\ ReportHolds(c) /\ ViewHolds(c) /\ WorkHolds(c)

Calling == \A c \in Calls : (\E t \in Callers : call[t] = c) => Holds(c)

AllVerdicts == {"done", "lingering", "unusable", "retry", "prepare"}

Typed ==
    /\ attempts \in [Entries -> 0..MaxAttempts]
    /\ assigned \in [Pairs -> Owners \cup {None}]
    /\ outcome \in [Pairs -> {0, 2, 3}] /\ stage \in [Pairs -> 0..3]
    /\ terminal \subseteq Pairs
    /\ retired \subseteq Entries /\ cancelled \in BOOLEAN
    /\ verdict \in [Pairs -> AllVerdicts \cup {None}]
    /\ \A p \in Pairs : verdict[p] \in Verdicts(p) \cup {None}
    /\ prepared \in [Pairs -> {None, "ready", "bad"}]
    /\ executors \in [Pairs -> SUBSET (Owners \cup {"runtime"})]

Accounted == Typed /\ Ledger /\ AttemptsJustified /\ Bounded

IInv == Accounted /\ call \in [Callers -> Calls] /\ Calling

----------------------------------------------------------------------------
(* What every step does to what was established before.                     *)

Onward ==
    /\ \A e \in Entries :
           /\ attempts[e] <= attempts'[e]
           /\ Finished(e) => Finished(e)'
           /\ attempts[e] > 0 /\ ~EntryAssigned(e) => ~EntryAssigned(e)'
    /\ terminal \subseteq terminal' /\ (cancelled => cancelled')
    /\ \A p \in Pairs :
           assigned[p] # None => assigned'[p] = assigned[p] /\ stage[p] <= stage'[p]

Still == UNCHANGED <<decisions, facts>>

LEMMA EntriesNumbered ==
    /\ Entries \subseteq Nat \ {0} /\ IsFiniteSet(Entries)
    /\ Ordinals \subseteq Nat \ {0} /\ 1 \in Ordinals
    /\ \A e \in Entries, k \in Ordinals : <<e, k>> \in Pairs
    /\ \A p \in Pairs : p[1] \in Entries /\ p[2] \in Ordinals /\ p = <<p[1], p[2]>>
    /\ None \notin Owners /\ "runtime" \notin Owners /\ None # "ready" /\ None # "bad"
<1>1. IsFiniteSet(1..NumEntries)
    BY FS_Interval, SizesAssumption
<1>. QED BY <1>1, SizesAssumption, OwnersAssumption DEF Entries, Ordinals, Pairs

\* A set of entries within a bounded one is bounded.
LEMMA Fewer ==
    ASSUME NEW S \in SUBSET Entries, NEW T \in SUBSET S
    PROVE  Cardinality(S) \in Nat /\ Cardinality(T) \in Nat /\ Cardinality(T) <= Cardinality(S)
<1>1. IsFiniteSet(S) /\ IsFiniteSet(T)
    BY EntriesNumbered, FS_Subset
<1>2. Cardinality(S) \in Nat /\ Cardinality(T) \in Nat
    BY <1>1, FS_CardinalityType
<1>3. Cardinality(T) <= Cardinality(S)
    BY <1>1, FS_Subset
<1>. QED BY <1>2, <1>3

LEMMA OneMore ==
    ASSUME NEW S \in SUBSET Entries, NEW e \in Entries
    PROVE  Cardinality(S \cup {e}) \in Nat /\ Cardinality(S \ {e}) \in Nat
           /\ Cardinality(S \cup {e}) <= Cardinality(S \ {e}) + 1
<1> DEFINE R == S \ {e}
<1>1. IsFiniteSet(R) /\ S \cup {e} = R \cup {e} /\ e \notin R
    BY EntriesNumbered, FS_Subset
<1>2. Cardinality(R) \in Nat
    BY <1>1, FS_CardinalityType
<1>3. Cardinality(R \cup {e}) = IF e \in R THEN Cardinality(R) ELSE Cardinality(R) + 1
    BY <1>1, FS_AddElement, Zenon
<1>. HIDE DEF R
<1>4. Cardinality(R \cup {e}) = Cardinality(R) + 1
    BY <1>1, <1>3, Zenon
<1>5. Cardinality(S \cup {e}) = Cardinality(R) + 1
    BY <1>1, <1>4, Zenon
<1>6. Cardinality(R) \in Nat /\ R = S \ {e}
    BY <1>2 DEF R
<1>. QED BY <1>5, <1>6

----------------------------------------------------------------------------
(* The calls that do not take the step.                                     *)

\* What a cut that grew stale still says.
LEMMA StaleIs ==
    ASSUME NEW c \in Calls
    PROVE  /\ Stale(c) \in Calls /\ Stale(c).at = c.at
           /\ c.at \in {"assign", "retain"} => Stale(c).fresh = FALSE /\ Stale(c).pair = c.pair
           /\ c.at = "retain" => Stale(c).report = c.report
           /\ c.at \notin {"assign", "retain"} => Stale(c) = c
<1>1. CASE c = Idle
    BY <1>1 DEF Stale, Idle
<1>2. CASE c \in Assigning
    BY <1>2 DEF Stale, Calls, Assigning
<1>3. CASE c \in Retaining
    BY <1>3 DEF Stale, Calls, Retaining
<1>4. CASE c \in Recording
    BY <1>4 DEF Stale, Recording
<1>5. CASE c \in Visiting
    BY <1>5 DEF Stale, Visiting
<1>6. CASE c \in Working
    BY <1>6 DEF Stale, Working
<1>. QED BY <1>1, <1>2, <1>3, <1>4, <1>5, <1>6 DEF Calls

LEMMA CallsAre ==
    ASSUME NEW c \in Calls
    PROVE  /\ c.at \in {"idle", "assign", "retain", "terminal", "visit", "claimed",
                        "unit", "finish"}
           /\ c.at = "idle" => c = Idle
           /\ c.at = "assign" => c \in Assigning
           /\ c.at = "retain" => c \in Retaining
           /\ c.at = "terminal" => c \in Recording
           /\ c.at = "visit" => c \in Visiting
           /\ c.at \in {"claimed", "unit", "finish"} => c \in Working
BY DEF Calls, Idle, Assigning, Retaining, Recording, Visiting, Working

LEMMA ViewsAre ==
    ASSUME NEW v \in Views
    PROVE  /\ DOMAIN v \subseteq Entries
           /\ \A f \in DOMAIN v : v[f] \in Seen /\ v[f].last \in 0..MaxAttempts
BY DEF Views, Seen

LEMMA SightKept ==
    ASSUME Typed, Typed', Onward, NEW f \in Entries, NEW v \in Seen, NEW stop,
           SightHolds(v, f, stop)
    PROVE  SightHolds(v, f, stop)'
<1>1. v.last \in Nat /\ attempts[f] \in Nat /\ attempts'[f] \in Nat
    BY EntriesNumbered, SizesAssumption DEF Typed, Seen
<1>. QED BY <1>1 DEF SightHolds, Onward

LEMMA ViewKept ==
    ASSUME Typed, Typed', Onward, NEW c \in Calls, ViewHolds(c), WorkHolds(c)
    PROVE  ViewHolds(c)' /\ WorkHolds(c)'
<1>1. SUFFICES ASSUME c.at \in {"visit", "claimed", "unit", "finish"}
      PROVE  ViewHolds(c)' /\ WorkHolds(c)'
    BY CallsAre DEF ViewHolds, WorkHolds
<1>2. c.entry \in Entries /\ c.view \in Views
    BY <1>1, CallsAre DEF Visiting, Working
<1>3. ViewHolds(c)'
  <2>1. \A f \in DOMAIN c.view : SightHolds(c.view[f], f, c.cancelled)'
      BY <1>1, <1>2, ViewsAre, SightKept DEF ViewHolds
  <2>. QED BY <1>1, <1>2, <2>1 DEF ViewHolds, Onward
<1>4. ASSUME c.at \in {"claimed", "unit", "finish"}
      PROVE  WorkHolds(c)'
  <2> DEFINE k == c.ordinal  e == c.entry
  <2>1. k \in Ordinals /\ k \in Nat /\ <<e, k>> \in Pairs
      BY <1>4, CallsAre, EntriesNumbered DEF Working
  <2>2. attempts[e] \in Nat /\ attempts'[e] \in Nat
      BY <1>2, SizesAssumption DEF Typed
  <2>3. k <= attempts[e] /\ k > 0 /\ attempts[e] > 0 /\ k <= attempts'[e]
      BY <1>2, <1>4, <2>1, <2>2, EntriesNumbered DEF WorkHolds, Onward
  <2>4. ~EntryAssigned(e) => ~EntryAssigned(e)'
      BY <1>2, <2>3 DEF Onward
  <2>5. assigned'[<<e, k>>] = None => assigned[<<e, k>>] = None
      BY <2>1 DEF Onward
  <2>. QED BY <1>4, <2>3, <2>4, <2>5 DEF WorkHolds, Onward
<1>. QED BY <1>1, <1>3, <1>4 DEF WorkHolds

LEMMA OpenFewer ==
    ASSUME Typed, Typed', Onward, attempts' = attempts
    PROVE  OpenEntries \subseteq Entries /\ OpenEntries' \subseteq OpenEntries
BY DEF OpenEntries, Onward

\* A cut stays good while no decision is added.
LEMMA CallKept ==
    ASSUME Typed, Typed', Onward, UNCHANGED decisions, NEW c \in Calls, Holds(c)
    PROVE  Holds(c)'
<1>1. ViewHolds(c)' /\ WorkHolds(c)'
    BY ViewKept DEF Holds
<1>2. CutHolds(c)'
  <2>1. SUFFICES ASSUME c.at = "assign", c.fresh PROVE CutHolds(c)'
      BY DEF CutHolds
  <2> DEFINE e == c.pair[1]
  <2>2. c.pair \in Pairs /\ e \in Entries
      BY <2>1, CallsAre, EntriesNumbered DEF Assigning
  <2>3. Cardinality(OpenEntries \ {e}) < Ceiling /\ ~cancelled
        /\ AssignmentAttempt(e) /\ assigned[c.pair] = None
        /\ c.pair[2] = IF attempts[e] = 0 THEN 1 ELSE attempts[e]
      BY <2>1 DEF Holds, CutHolds
  <2>4. (OpenEntries \ {e})' \subseteq OpenEntries \ {e} /\ OpenEntries \subseteq Entries
      BY OpenFewer DEF decisions
  <2>5. Cardinality((OpenEntries \ {e})') <= Cardinality(OpenEntries \ {e})
        /\ Cardinality((OpenEntries \ {e})') \in Nat /\ Cardinality(OpenEntries \ {e}) \in Nat
      BY <2>4, Fewer
  <2>6. Cardinality((OpenEntries \ {e})') < Ceiling
      BY <2>3, <2>5, ParallelismAssumption
  <2>7. AssignmentAttempt(e)'
      BY <2>3 DEF AssignmentAttempt, EntryAssigned, decisions
  <2>. QED BY <2>3, <2>6, <2>7 DEF CutHolds, decisions
<1>3. ReportHolds(c)'
  <2>1. SUFFICES ASSUME c.at \in {"retain", "terminal"} PROVE ReportHolds(c)'
      BY DEF ReportHolds
  <2>2. c.pair \in Pairs /\ (c.at = "retain" => c.report \in 2..3)
      BY <2>1, CallsAre DEF Retaining, Recording
  <2>3. stage[c.pair] \in Nat /\ stage'[c.pair] \in Nat
      BY <2>2 DEF Typed
  <2>. QED BY <2>1, <2>2, <2>3 DEF Holds, ReportHolds, Onward, decisions
<1>. QED BY <1>1, <1>2, <1>3 DEF Holds

LEMMA StaleKept ==
    ASSUME Typed, Typed', Onward, NEW c \in Calls, Holds(c)
    PROVE  Holds(Stale(c))' /\ Stale(c) \in Calls
<1>1. PICK s \in Calls : s = Stale(c)
    BY StaleIs
<1>2. /\ s.at = c.at
      /\ c.at \in {"assign", "retain"} => s.fresh = FALSE /\ s.pair = c.pair
      /\ c.at = "retain" => s.report = c.report
      /\ c.at \notin {"assign", "retain"} => s = c
    BY <1>1, StaleIs
<1>3. CutHolds(s)'
    BY <1>2 DEF CutHolds
<1>4. ReportHolds(s)'
  <2>1. SUFFICES ASSUME c.at \in {"retain", "terminal"} PROVE ReportHolds(s)'
      BY <1>2 DEF ReportHolds
  <2>2. c.pair \in Pairs /\ (c.at = "retain" => c.report \in 2..3) /\ s.pair = c.pair
      BY <1>2, <2>1, CallsAre DEF Retaining, Recording
  <2>3. stage[c.pair] \in Nat /\ stage'[c.pair] \in Nat
      BY <2>2 DEF Typed
  <2>4. assigned'[c.pair] # None /\ stage'[c.pair] >= 2
      BY <2>1, <2>2, <2>3 DEF Holds, ReportHolds, Onward
  <2>5. c.at = "retain" => c.report <= stage'[c.pair]
      BY <2>1, <2>2, <2>3 DEF Holds, ReportHolds, Onward
  <2>. QED BY <1>2, <2>2, <2>4, <2>5 DEF ReportHolds
<1>5. ViewHolds(s)' /\ WorkHolds(s)'
  <2>1. CASE c.at \in {"assign", "retain"}
      BY <1>2, <2>1 DEF ViewHolds, WorkHolds
  <2>2. CASE c.at \notin {"assign", "retain"}
      BY <1>2, <2>2, ViewKept DEF Holds
  <2>. QED BY <2>1, <2>2
<1>. QED BY <1>1, <1>3, <1>4, <1>5 DEF Holds

\* A step that adds a decision.
LEMMA OthersAdded ==
    ASSUME IInv, Typed', Onward, NEW t \in Callers, NEW n \in Calls, Holds(n)', Added(t, n)
    PROVE  call' \in [Callers -> Calls] /\ Calling'
<1>1. ASSUME NEW u \in Callers
      PROVE  call'[u] \in Calls /\ \E d \in Calls : d = call'[u] /\ Holds(d)'
  <2>1. PICK c \in Calls : c = call[u] /\ Holds(c)
      BY DEF IInv, Calling
  <2>2. PICK s \in Calls : s = Stale(c) /\ Holds(s)'
      BY <2>1, StaleKept DEF IInv, Accounted
  <2>3. call'[u] = n \/ call'[u] = s
      BY <2>1, <2>2 DEF Added
  <2>. QED BY <2>2, <2>3
<1>2. call' = [u \in Callers |-> call'[u]]
    BY DEF Added
<1>. QED BY <1>1, <1>2 DEF Calling

\* A step that adds none.
LEMMA OthersSame ==
    ASSUME IInv, Typed', Onward, UNCHANGED decisions,
           NEW t \in Callers, NEW n \in Calls, Holds(n)', Same(t, n)
    PROVE  call' \in [Callers -> Calls] /\ Calling'
<1>1. ASSUME NEW u \in Callers
      PROVE  \E d \in Calls : d = call'[u] /\ Holds(d)'
  <2>1. PICK c \in Calls : c = call[u] /\ Holds(c)
      BY DEF IInv, Calling
  <2>2. Holds(c)'
      BY <2>1, CallKept DEF IInv, Accounted
  <2>3. call'[u] = n \/ call'[u] = c
      BY <2>1 DEF Same
  <2>. QED BY <2>2, <2>3
<1>2. call' \in [Callers -> Calls]
    BY DEF Same, IInv
<1>. QED BY <1>1, <1>2 DEF Calling

LEMMA OthersOnly ==
    ASSUME IInv, Typed', Onward, UNCHANGED decisions, UNCHANGED call
    PROVE  call' \in [Callers -> Calls] /\ Calling'
<1>1. ASSUME NEW c \in Calls, Holds(c) PROVE Holds(c)'
    BY <1>1, CallKept DEF IInv, Accounted
<1>. QED BY <1>1 DEF Calling, IInv

\* A call that ends asserts nothing any more.
LEMMA IdleHolds == Idle \in Calls /\ Holds(Idle) /\ Holds(Idle)'
BY DEF Idle, Calls, Holds, CutHolds, ReportHolds, ViewHolds, WorkHolds

----------------------------------------------------------------------------
(* The decisions, step by step.                                             *)

\* No attempt begins and none is assigned: what is over stays over.
LEMMA SameEntries ==
    ASSUME Accounted, Typed', attempts' = attempts, assigned' = assigned,
           terminal \subseteq terminal', cancelled => cancelled',
           \A p \in terminal : /\ verdict'[p] = verdict[p]
                               /\ prepared[p] = "ready" => prepared'[p] = "ready",
           \A p \in Pairs : /\ outcome[p] = 3 => outcome'[p] = 3
                            /\ assigned[p] # None => stage[p] <= stage'[p]
    PROVE  /\ Onward /\ Bounded' /\ AttemptsJustified'
           /\ \A e \in Entries : EntryAssigned(e)' <=> EntryAssigned(e)
<1>1. \A e \in Entries : EntryAssigned(e)' <=> EntryAssigned(e)
    BY DEF EntryAssigned
<1>2. \A e \in Entries : Finished(e) => Finished(e)'
    BY DEF Finished
<1>3. \A e \in Entries : attempts[e] <= attempts'[e]
    BY SizesAssumption DEF Typed
<1>4. Onward
    BY <1>1, <1>2, <1>3 DEF Onward
<1>5. Bounded'
  <2>1. OpenEntries' \subseteq OpenEntries /\ OpenEntries \subseteq Entries
      BY <1>4, OpenFewer DEF Accounted
  <2>2. Cardinality(OpenEntries') <= Cardinality(OpenEntries)
        /\ Cardinality(OpenEntries') \in Nat /\ Cardinality(OpenEntries) \in Nat
      BY <2>1, Fewer
  <2>. QED BY <2>2, ParallelismAssumption DEF Accounted, Bounded
<1>6. AttemptsJustified'
    BY EntriesNumbered DEF AttemptsJustified, Accounted
<1>. QED BY <1>1, <1>4, <1>5, <1>6

LEMMA StillMoves ==
    ASSUME Accounted, Still
    PROVE  Accounted' /\ Onward /\ UNCHANGED decisions
<1>1. Typed'
    BY DEF Accounted, Typed, Still, decisions, facts
<1>2. /\ Onward /\ Bounded' /\ AttemptsJustified'
      /\ \A e \in Entries : EntryAssigned(e)' <=> EntryAssigned(e)
  <2>1. \A p \in Pairs : stage[p] <= stage[p]
      BY DEF Accounted, Typed
  <2>. QED BY <1>1, <2>1, SameEntries DEF Still, decisions, facts
<1>3. Ledger'
    BY <1>2, EntriesNumbered
       DEF Ledger, PairHolds, Accounted, Typed, Still, Onward, decisions, facts
<1>. QED BY <1>1, <1>2, <1>3 DEF Accounted, Still

\* What the pair of a call amounts to in the ledger.
LEMMA Settled ==
    ASSUME Accounted, NEW p \in Pairs
    PROVE  PairHolds(p) /\ attempts[p[1]] \in 0..MaxAttempts /\ attempts[p[1]] \in Nat
           /\ stage[p] \in 0..3 /\ p[1] \in Entries /\ p[2] \in Ordinals /\ p[2] \in Nat
BY EntriesNumbered, SizesAssumption DEF Accounted, Typed, Ledger

\* One more owner, of an attempt that nobody executes.
LEMMA AssignMoves ==
    ASSUME Accounted, NEW c \in Assigning, CutHolds(c), c.fresh,
           assigned' = [assigned EXCEPT ![c.pair] = c.owner],
           attempts' = [attempts EXCEPT ![c.pair[1]] = c.pair[2]],
           UNCHANGED <<outcome, terminal, retired, cancelled, facts>>
    PROVE  Accounted' /\ Onward /\ ~cancelled
<1> DEFINE p == c.pair  e == c.pair[1]  k == c.pair[2]
<1>1. p \in Pairs /\ c.owner \in Owners /\ c.owner # None /\ e \in Entries /\ k \in Ordinals
      /\ p = <<e, k>>
    BY EntriesNumbered DEF Assigning
<1>2. /\ ~cancelled /\ AssignmentAttempt(e) /\ assigned[p] = None
      /\ k = IF attempts[e] = 0 THEN 1 ELSE attempts[e]
      /\ Cardinality(OpenEntries \ {e}) < Ceiling
    BY DEF CutHolds, Assigning
<1>3. attempts[e] \in Nat /\ k \in Nat
    BY <1>1, EntriesNumbered DEF Accounted, Typed
<1>4. Typed'
    BY <1>1, EntriesNumbered, SizesAssumption
       DEF Accounted, Typed, Ordinals, facts
<1>5. attempts[e] > 0 => EntryAssigned(e) /\ attempts'[e] = attempts[e]
    BY <1>1, <1>2, <1>3 DEF AssignmentAttempt
<1>6. attempts[e] = 0 => attempts'[e] = 1 /\ k = 1
    BY <1>1, <1>2, <1>3 DEF Accounted, Typed
<1>7. executors[p] = {}
    BY <1>1, <1>2, <1>3, <1>5, Settled DEF PairHolds
<1>8. \A f \in Entries : f # e => attempts'[f] = attempts[f] /\ (EntryAssigned(f)' <=> EntryAssigned(f))
  <2>1. ASSUME NEW f \in Entries, f # e
        PROVE  attempts'[f] = attempts[f] /\ \A j \in Ordinals : assigned'[<<f, j>>] = assigned[<<f, j>>]
      BY <1>1, <2>1, EntriesNumbered
  <2>. QED BY <2>1 DEF EntryAssigned
<1>9. Onward
  <2>1. ASSUME NEW f \in Entries
        PROVE  /\ attempts[f] <= attempts'[f]
               /\ Finished(f) => Finished(f)'
               /\ attempts[f] > 0 /\ ~EntryAssigned(f) => ~EntryAssigned(f)'
    <3>1. attempts[f] \in Nat
        BY SizesAssumption DEF Accounted, Typed
    <3>2. attempts[f] > 0 => attempts'[f] = attempts[f]
        BY <1>5, <1>8
    <3>3. attempts[f] <= attempts'[f]
        BY <1>3, <1>5, <1>6, <1>8, <3>1
    <3>4. Finished(f) => Finished(f)'
        BY <3>2 DEF Finished, facts
    <3>. QED BY <1>5, <1>8, <3>3, <3>4
  <2>2. \A q \in Pairs : assigned[q] # None => assigned'[q] = assigned[q] /\ stage[q] <= stage'[q]
      BY <1>1, <1>2 DEF Accounted, Typed, facts
  <2>. QED BY <2>1, <2>2 DEF Onward
<1>10. Bounded'
  <2>1. OpenEntries \subseteq Entries /\ OpenEntries' \subseteq OpenEntries \cup {e}
    <3>1. ASSUME NEW f \in Entries, f # e, f \in OpenEntries' PROVE f \in OpenEntries
        BY <1>8, <1>9, <3>1 DEF OpenEntries, Onward
    <3>. QED BY <3>1 DEF OpenEntries
  <2>2. OpenEntries \cup {e} \subseteq Entries
      BY <1>1, <2>1
  <2>3. Cardinality(OpenEntries \cup {e}) \in Nat /\ Cardinality(OpenEntries \ {e}) \in Nat
        /\ Cardinality(OpenEntries \cup {e}) <= Cardinality(OpenEntries \ {e}) + 1
      BY <1>1, <2>1, OneMore
  <2>4. Cardinality(OpenEntries') \in Nat
        /\ Cardinality(OpenEntries') <= Cardinality(OpenEntries \cup {e})
      BY <2>1, <2>2, Fewer
  <2>. QED BY <1>2, <2>3, <2>4, ParallelismAssumption DEF Bounded
<1>11. AttemptsJustified'
  <2>1. ASSUME NEW f \in Entries, NEW j \in Ordinals, j < attempts'[f]
        PROVE  j < attempts[f] /\ assigned'[<<f, j>>] = assigned[<<f, j>>]
    <3>1. j \in Nat /\ j > 0 /\ attempts[f] \in Nat /\ <<f, j>> \in Pairs
        BY EntriesNumbered, SizesAssumption DEF Accounted, Typed
    <3>2. j < attempts[f]
        BY <1>3, <1>5, <1>6, <1>8, <2>1, <3>1
    <3>3. <<f, j>> # p
        BY <1>1, <1>2, <1>3, <1>6, <2>1, <3>1, <3>2
    <3>. QED BY <1>1, <3>1, <3>2, <3>3 DEF Accounted, Typed
  <2>2. ASSUME NEW f \in Entries, attempts'[f] > 0
        PROVE  \A g \in 1..(f - 1) : attempts'[g] > 0
    <3>1. \A g \in 1..(f - 1) : g \in Entries /\ g < f /\ attempts[g] \in Nat /\ attempts'[g] \in Nat
        BY <1>4, SizesAssumption DEF Entries, Accounted, Typed
    <3>2. attempts[f] \in Nat
        BY SizesAssumption DEF Accounted, Typed
    <3>3. \A g \in 1..(f - 1) : attempts[g] > 0
        BY <1>1, <1>2, <1>3, <1>8, <2>2, <3>1, <3>2
           DEF AssignmentAttempt, AttemptsJustified, Accounted
    <3>. QED BY <1>9, <3>1, <3>3 DEF Onward
  <2>. QED BY <2>1, <2>2 DEF AttemptsJustified, Accounted, facts
<1>12. Ledger'
  <2>1. ASSUME NEW q \in Pairs PROVE PairHolds(q)'
    <3>1. /\ PairHolds(q) /\ q[1] \in Entries /\ q[2] \in Nat /\ attempts[q[1]] \in Nat
          /\ attempts'[q[1]] \in Nat /\ attempts[q[1]] <= attempts'[q[1]]
          /\ <<q[1], 1>> \in Pairs
        BY <1>4, <1>9, Settled, EntriesNumbered, SizesAssumption
           DEF Onward, Typed
    <3>2. CASE q = p
      <4>1. assigned'[<<e, 1>>] # None
        <5>1. CASE k = 1
            BY <1>1, <5>1 DEF Accounted, Typed
        <5>2. CASE k # 1
          <6>1. EntryAssigned(e)
              BY <1>2, <1>3, <1>5, <5>2
          <6>2. assigned[<<e, 1>>] # None
              BY <1>1, <6>1, Settled, EntriesNumbered
                 DEF EntryAssigned, PairHolds
          <6>. QED BY <1>1, <6>2, EntriesNumbered DEF Onward, Accounted, Typed
        <5>. QED BY <5>1, <5>2
      <4>2. assigned'[p] = c.owner /\ k <= attempts'[e]
          BY <1>1, <1>3, <1>5, <1>6 DEF Accounted, Typed
      <4>. QED BY <1>1, <1>2, <1>7, <3>1, <3>2, <4>1, <4>2 DEF PairHolds, Verdicts, facts
    <3>3. CASE q # p
      <4>1. assigned'[q] = assigned[q]
          BY <1>1, <3>3
      <4>2. assigned[<<q[1], 1>>] # None => assigned'[<<q[1], 1>>] # None
          BY <1>9, <3>1 DEF Onward
      <4>3. attempts[q[1]] > 0 /\ ~EntryAssigned(q[1]) => ~EntryAssigned(q[1])' /\ attempts'[q[1]] > 0
          BY <1>9, <3>1 DEF Onward
      <4>. QED BY <3>1, <4>1, <4>2, <4>3 DEF PairHolds, Verdicts, facts
    <3>. QED BY <3>2, <3>3
  <2>2. \A f \in retired' : Finished(f)' \/ cancelled'
      BY <1>9 DEF Accounted, Typed, Ledger, Onward
  <2>. QED BY <2>1, <2>2 DEF Ledger
<1>. QED BY <1>2, <1>4, <1>9, <1>10, <1>11, <1>12 DEF Accounted

\* The report of an owner is kept.
LEMMA OutcomeMoves ==
    ASSUME Accounted, NEW c \in Retaining, ReportHolds(c), c.fresh,
           outcome' = [outcome EXCEPT ![c.pair] = c.report],
           UNCHANGED <<attempts, assigned, terminal, retired, cancelled, facts>>
    PROVE  Accounted' /\ Onward
<1>1. c.pair \in Pairs /\ c.report \in 2..3 /\ c.at = "retain"
    BY DEF Retaining
<1>2. assigned[c.pair] # None /\ c.report <= stage[c.pair] /\ outcome[c.pair] < c.report
    BY <1>1 DEF ReportHolds
<1>3. Typed'
    BY <1>1 DEF Accounted, Typed, facts
<1>4. \A p \in Pairs : (outcome[p] = 3 => outcome'[p] = 3) /\ stage[p] <= stage'[p]
    BY <1>1, <1>2 DEF Accounted, Typed, facts
<1>5. /\ Onward /\ Bounded' /\ AttemptsJustified'
      /\ \A e \in Entries : EntryAssigned(e)' <=> EntryAssigned(e)
    BY <1>3, <1>4, SameEntries DEF facts
<1>6. ASSUME NEW p \in Pairs PROVE PairHolds(p)'
  <2>1. PairHolds(p) /\ p[1] \in Entries
      BY Settled
  <2>2. outcome'[p] = IF p = c.pair THEN c.report ELSE outcome[p]
      BY DEF Accounted, Typed
  <2>. QED BY <1>2, <1>5, <2>1, <2>2 DEF PairHolds, Verdicts, facts
<1>7. Ledger'
    BY <1>5, <1>6 DEF Ledger, Accounted, Typed, Onward
<1>. QED BY <1>3, <1>5, <1>7 DEF Accounted

\* An attempt is recorded as ended.
LEMMA TerminalMoves ==
    ASSUME Accounted, NEW p \in Pairs, p[2] <= attempts[p[1]], stage[p] >= 2,
           terminal' = terminal \cup {p},
           UNCHANGED <<attempts, assigned, outcome, retired, cancelled, facts>>
    PROVE  Accounted' /\ Onward
<1>1. Typed'
    BY DEF Accounted, Typed, facts
<1>2. \A q \in Pairs : stage[q] <= stage'[q]
    BY DEF Accounted, Typed, facts
<1>3. /\ Onward /\ Bounded' /\ AttemptsJustified'
      /\ \A e \in Entries : EntryAssigned(e)' <=> EntryAssigned(e)
    BY <1>1, <1>2, SameEntries DEF facts
<1>4. ASSUME NEW q \in Pairs PROVE PairHolds(q)'
  <2>1. PairHolds(q) /\ q[1] \in Entries
      BY Settled
  <2>. QED BY <1>3, <2>1 DEF PairHolds, Verdicts, facts
<1>5. Ledger'
    BY <1>3, <1>4 DEF Ledger, Accounted, Typed, Onward
<1>. QED BY <1>1, <1>3, <1>5 DEF Accounted

\* The first attempt of an entry, when all entries before it are over.
LEMMA BeginMoves ==
    ASSUME Accounted, NEW e \in Entries, attempts[e] = 0, ~(Floor > 1),
           \A f \in Entries : f < e => Finished(f),
           attempts' = [attempts EXCEPT ![e] = 1],
           UNCHANGED <<assigned, outcome, terminal, retired, cancelled, facts>>
    PROVE  Accounted' /\ Onward
<1>1. \A f \in Entries : attempts'[f] = IF f = e THEN 1 ELSE attempts[f]
    BY DEF Accounted, Typed
<1>2. \A f \in Entries : f \in Nat /\ attempts[f] \in Nat
    BY EntriesNumbered, SizesAssumption DEF Accounted, Typed
<1>3. Typed'
    BY SizesAssumption DEF Accounted, Typed, facts
<1>4. \A f \in Entries : EntryAssigned(f)' <=> EntryAssigned(f)
    BY DEF EntryAssigned
<1>5. Onward
  <2>1. \A f \in Entries : Finished(f) => Finished(f)'
      BY <1>1, <1>2 DEF Finished, facts
  <2>2. \A p \in Pairs : stage[p] <= stage'[p]
      BY DEF Accounted, Typed, facts
  <2>. QED BY <1>1, <1>2, <1>4, <2>1, <2>2 DEF Onward
<1>6. \A f \in Entries : f > e => attempts[f] = 0
    BY <1>2, SizesAssumption DEF Accounted, AttemptsJustified, Entries
<1>7. Bounded'
  <2>1. OpenEntries' \subseteq {e}
    <3>1. ASSUME NEW f \in Entries, f \in OpenEntries' PROVE f = e
        BY <1>1, <1>2, <1>5, <1>6, <3>1 DEF OpenEntries, Onward
    <3>. QED BY <3>1 DEF OpenEntries
  <2>2. Cardinality({e}) = 1
      BY FS_Singleton
  <2>3. Cardinality(OpenEntries') \in Nat /\ Cardinality(OpenEntries') <= 1
      BY <2>1, <2>2, Fewer
  <2>. QED BY <2>3, ParallelismAssumption DEF Bounded
<1>8. AttemptsJustified'
  <2>1. \A f \in Entries, j \in Ordinals : j < attempts'[f] => j < attempts[f]
      BY <1>1, <1>2, EntriesNumbered
  <2>2. ASSUME NEW f \in Entries, attempts'[f] > 0, NEW g \in 1..(f - 1)
        PROVE  attempts'[g] > 0
    <3>1. g \in Entries /\ g < f
        BY <1>2, SizesAssumption DEF Entries
    <3>2. CASE f = e
      <4>1. attempts[g] > 0
          BY <3>1, <3>2 DEF Finished
      <4>2. g # e
          BY <1>2, <3>1, <3>2
      <4>. QED BY <1>1, <3>1, <4>1, <4>2
    <3>3. CASE f # e
        BY <1>1, <2>2, <3>1, <3>3 DEF Accounted, AttemptsJustified
    <3>. QED BY <3>2, <3>3
  <2>. QED BY <2>1, <2>2 DEF Accounted, AttemptsJustified, facts
<1>9. ASSUME NEW q \in Pairs PROVE PairHolds(q)'
  <2>1. PairHolds(q) /\ q[1] \in Entries /\ q[2] \in Nat
      BY Settled
  <2>2. attempts[q[1]] <= attempts'[q[1]] /\ attempts[q[1]] \in Nat /\ attempts'[q[1]] \in Nat
      BY <1>1, <1>2, <2>1
  <2>. QED BY <1>4, <2>1, <2>2 DEF PairHolds, Verdicts, facts
<1>10. Ledger'
    BY <1>5, <1>9 DEF Ledger, Accounted, Typed, Onward
<1>. QED BY <1>3, <1>5, <1>7, <1>8, <1>10 DEF Accounted

\* Another attempt over a failure that allows it.
LEMMA RetryMoves ==
    ASSUME Accounted, NEW e \in Entries, NEW k \in Ordinals, attempts[e] = k,
           <<e, k>> \in terminal, verdict[<<e, k>>] \in {"retry", "prepare"},
           verdict[<<e, k>>] = "prepare" => PreparationKnown(<<e, k>>) = "ready",
           attempts' = [attempts EXCEPT ![e] = k + 1],
           UNCHANGED <<assigned, outcome, terminal, retired, cancelled, facts>>
    PROVE  Accounted' /\ Onward
<1> DEFINE p == <<e, k>>
<1>1. \A f \in Entries : attempts'[f] = IF f = e THEN k + 1 ELSE attempts[f]
    BY DEF Accounted, Typed
<1>2. \A f \in Entries : f \in Nat /\ attempts[f] \in Nat
    BY EntriesNumbered, SizesAssumption DEF Accounted, Typed
<1>3. k \in Nat /\ k > 0 /\ k < MaxAttempts /\ p \in Pairs
  <2>1. p \in Pairs /\ k \in Nat /\ k > 0
      BY EntriesNumbered
  <2>2. verdict[p] \in Verdicts(p)
      BY <2>1, OwnersAssumption, Settled DEF PairHolds
  <2>. QED BY <2>1, <2>2, SizesAssumption DEF Verdicts
<1>4. Typed'
    BY <1>3, SizesAssumption DEF Accounted, Typed, facts
<1>5. \A f \in Entries : EntryAssigned(f)' <=> EntryAssigned(f)
    BY DEF EntryAssigned
<1>6. Onward
  <2>1. \A f \in Entries : Finished(f) => Finished(f)'
      BY <1>1, <1>2 DEF Finished, facts
  <2>2. \A q \in Pairs : stage[q] <= stage'[q]
      BY DEF Accounted, Typed, facts
  <2>3. \A f \in Entries : attempts[f] <= attempts'[f]
      BY <1>1, <1>2, <1>3
  <2>. QED BY <1>5, <2>1, <2>2, <2>3 DEF Onward
<1>7. Bounded'
  <2>1. OpenEntries \subseteq Entries /\ OpenEntries' \subseteq OpenEntries
    <3>1. e \in OpenEntries
        BY <1>3 DEF OpenEntries, Finished
    <3>2. ASSUME NEW f \in Entries, f \in OpenEntries', f # e PROVE f \in OpenEntries
        BY <1>1, <1>6, <3>2 DEF OpenEntries, Onward
    <3>. QED BY <3>1, <3>2 DEF OpenEntries
  <2>2. Cardinality(OpenEntries') <= Cardinality(OpenEntries)
        /\ Cardinality(OpenEntries') \in Nat /\ Cardinality(OpenEntries) \in Nat
      BY <2>1, Fewer
  <2>. QED BY <2>2, ParallelismAssumption DEF Accounted, Bounded
<1>8. AttemptsJustified'
  <2>1. ASSUME NEW f \in Entries, NEW j \in Ordinals, j < attempts'[f]
        PROVE  LET q == <<f, j>> IN
               /\ q \in terminal /\ verdict[q] \in {"retry", "prepare"}
               /\ verdict[q] = "prepare" =>
                      prepared[q] = "ready" /\ (assigned[q] # None => outcome[q] = 3)
    <3>1. CASE j < attempts[f]
        BY <3>1 DEF Accounted, AttemptsJustified
    <3>2. CASE ~(j < attempts[f])
      <4>1. f = e /\ j = k
          BY <1>1, <1>2, <1>3, <2>1, <3>2, EntriesNumbered
      <4>2. verdict[p] = "prepare" => prepared[p] = "ready" /\ (assigned[p] # None => outcome[p] = 3)
        <5>1. SUFFICES ASSUME verdict[p] = "prepare"
              PROVE prepared[p] = "ready" /\ (assigned[p] # None => outcome[p] = 3)
            OBVIOUS
        <5>2. PreparationKnown(p) # None
            BY <5>1, OwnersAssumption
        <5>3. ~(assigned[p] # None /\ outcome[p] < 3) /\ prepared[p] = "ready"
            BY <5>1, <5>2 DEF PreparationKnown
        <5>4. outcome[p] \in {0, 2, 3}
            BY <1>3 DEF Accounted, Typed
        <5>. QED BY <5>3, <5>4
      <4>. QED BY <4>1, <4>2
    <3>. QED BY <3>1, <3>2
  <2>2. ASSUME NEW f \in Entries, attempts'[f] > 0, NEW g \in 1..(f - 1)
        PROVE  attempts'[g] > 0
    <3>1. g \in Entries /\ g < f
        BY <1>2, SizesAssumption DEF Entries
    <3>2. attempts[g] > 0
        BY <1>1, <1>2, <1>3, <2>2 DEF Accounted, AttemptsJustified
    <3>. QED BY <1>1, <1>2, <1>3, <3>1, <3>2
  <2>. QED BY <2>1, <2>2 DEF AttemptsJustified, facts
<1>9. ASSUME NEW q \in Pairs PROVE PairHolds(q)'
  <2>1. PairHolds(q) /\ q[1] \in Entries /\ q[2] \in Nat
      BY Settled
  <2>2. attempts[q[1]] <= attempts'[q[1]] /\ attempts[q[1]] \in Nat /\ attempts'[q[1]] \in Nat
      BY <1>1, <1>2, <1>3, <2>1
  <2>. QED BY <1>5, <2>1, <2>2 DEF PairHolds, Verdicts, facts
<1>10. Ledger'
    BY <1>6, <1>9 DEF Ledger, Accounted, Typed, Onward
<1>. QED BY <1>4, <1>6, <1>7, <1>8, <1>10 DEF Accounted

\* A run is retired, or the experiment cancelled.
LEMMA RetireMoves ==
    ASSUME Accounted, retired' \subseteq Entries, cancelled' \in BOOLEAN, cancelled => cancelled',
           \A e \in retired' \ retired : Finished(e) \/ cancelled',
           UNCHANGED <<attempts, assigned, outcome, terminal, facts>>
    PROVE  Accounted' /\ Onward
<1>1. Typed'
    BY DEF Accounted, Typed, facts
<1>2. \A q \in Pairs : stage[q] <= stage'[q]
    BY DEF Accounted, Typed, facts
<1>3. /\ Onward /\ Bounded' /\ AttemptsJustified'
      /\ \A e \in Entries : EntryAssigned(e)' <=> EntryAssigned(e)
    BY <1>1, <1>2, SameEntries DEF facts
<1>4. ASSUME NEW q \in Pairs PROVE PairHolds(q)'
  <2>1. PairHolds(q) /\ q[1] \in Entries
      BY Settled
  <2>. QED BY <1>3, <2>1 DEF PairHolds, Verdicts, facts
<1>5. Ledger'
    BY <1>3, <1>4 DEF Ledger, Accounted, Onward
<1>. QED BY <1>1, <1>3, <1>5 DEF Accounted

----------------------------------------------------------------------------
(* The attempts themselves, step by step.                                   *)

\* An attempt gets on where it runs; only one that has not ended is judged,
\* and only one that failed is prepared.
FactsOnly ==
    /\ UNCHANGED <<attempts, assigned, outcome, retired, cancelled>>
    /\ terminal \subseteq terminal'
    /\ \A q \in Pairs : assigned[q] # None => stage[q] <= stage'[q]
    /\ \A q \in terminal : /\ verdict'[q] = verdict[q]
                           /\ prepared[q] = "ready" => prepared'[q] = "ready"

LEMMA FactsMove ==
    ASSUME Accounted, Typed', FactsOnly, \A q \in Pairs : PairHolds(q)'
    PROVE  Accounted' /\ Onward
<1>1. /\ Onward /\ Bounded' /\ AttemptsJustified'
    BY SameEntries DEF FactsOnly
<1>2. Ledger'
    BY <1>1 DEF Ledger, Accounted, Typed, Onward, FactsOnly
<1>. QED BY <1>1, <1>2 DEF Accounted

\* The ones that do not take the step.
LEMMA PairKept ==
    ASSUME Accounted, UNCHANGED <<attempts, assigned, outcome>>, NEW q \in Pairs,
           q \in terminal' <=> q \in terminal, stage'[q] = stage[q], verdict'[q] = verdict[q],
           prepared'[q] = prepared[q], executors'[q] = executors[q]
    PROVE  PairHolds(q)'
<1>1. PairHolds(q)
    BY Settled
<1>2. EntryAssigned(q[1])' <=> EntryAssigned(q[1])
    BY DEF EntryAssigned
<1>. QED BY <1>1, <1>2 DEF PairHolds, Verdicts

\* One trial step of this engine, on an entry that nobody was assigned.
LEMMA UnitMoves ==
    ASSUME Accounted, NEW p \in Pairs, p[2] <= attempts[p[1]], ~EntryAssigned(p[1]),
           executors' = [executors EXCEPT ![p] = @ \cup {"runtime"}],
           \/ stage[p] < 2 /\ stage' = [stage EXCEPT ![p] = 1] /\ UNCHANGED <<verdict, terminal>>
           \/ /\ p \notin terminal
              /\ \E w \in Verdicts(p) \ {"lingering"} : verdict' = [verdict EXCEPT ![p] = w]
              /\ stage' = [stage EXCEPT ![p] = 2]
              /\ terminal' = terminal \cup {p},
           UNCHANGED <<attempts, assigned, outcome, retired, cancelled, prepared>>
    PROVE  Accounted' /\ Onward
<1>1. /\ PairHolds(p) /\ attempts[p[1]] \in Nat /\ p[2] \in Nat /\ p[2] > 0 /\ p[1] \in Entries
      /\ p[2] \in Ordinals /\ p = <<p[1], p[2]>> /\ attempts[p[1]] > 0
    BY Settled, EntriesNumbered
<1>2. assigned[p] = None
    BY <1>1 DEF EntryAssigned
<1>3. \A w \in Verdicts(p) : w \in AllVerdicts
    BY DEF Verdicts, AllVerdicts
<1>4. Typed'
    BY <1>3 DEF Accounted, Typed
<1>5. \/ p \notin terminal /\ prepared[p] = None
      \/ UNCHANGED <<verdict, terminal>> /\ prepared[p] = None
    BY <1>1 DEF PairHolds
<1>6. \A q \in Pairs : q # p => /\ stage'[q] = stage[q] /\ verdict'[q] = verdict[q]
                                /\ executors'[q] = executors[q] /\ (q \in terminal' <=> q \in terminal)
    BY DEF Accounted, Typed
<1>7. FactsOnly
  <2>1. \A q \in Pairs : assigned[q] # None => stage[q] <= stage'[q]
      BY <1>2, <1>6 DEF Accounted, Typed
  <2>2. \A q \in terminal : verdict'[q] = verdict[q]
      BY <1>6 DEF Accounted, Typed
  <2>. QED BY <2>1, <2>2 DEF FactsOnly
<1>8. PairHolds(p)'
  <2>1. executors'[p] = executors[p] \cup {"runtime"} /\ executors[p] \subseteq {"runtime"}
      BY <1>1, <1>2 DEF Accounted, Typed, PairHolds
  <2>2. ~EntryAssigned(p[1])'
      BY DEF EntryAssigned
  <2>3. CASE stage[p] < 2 /\ stage' = [stage EXCEPT ![p] = 1] /\ UNCHANGED <<verdict, terminal>>
    <3>1. stage'[p] = 1 /\ stage[p] \in 0..3
        BY <2>3 DEF Accounted, Typed
    <3>2. p \notin terminal /\ prepared[p] = None
        BY <1>1, <2>3, <3>1 DEF PairHolds
    <3>. QED BY <1>1, <1>2, <2>1, <2>2, <2>3, <3>1, <3>2 DEF PairHolds
  <2>4. CASE /\ p \notin terminal
             /\ \E w \in Verdicts(p) \ {"lingering"} : verdict' = [verdict EXCEPT ![p] = w]
             /\ stage' = [stage EXCEPT ![p] = 2]
             /\ terminal' = terminal \cup {p}
    <3>1. stage'[p] = 2 /\ verdict'[p] \in Verdicts(p)
        BY <2>4 DEF Accounted, Typed
    <3>2. prepared'[p] = None /\ outcome'[p] = 0
        BY <1>1, <1>2, <2>4 DEF PairHolds
    <3>3. verdict'[p] \in Verdicts(p)'
        BY <3>1
    <3>. QED BY <1>1, <1>2, <2>1, <2>2, <3>1, <3>2, <3>3 DEF PairHolds
  <2>. QED BY <2>3, <2>4
<1>9. \A q \in Pairs : PairHolds(q)'
    BY <1>6, <1>8, PairKept
<1>. QED BY <1>4, <1>7, <1>9, FactsMove

\* The retry of an attempt is prepared, by this engine or by its owner.
LEMMA PrepareMoves ==
    ASSUME Accounted, NEW p \in Pairs, p \in terminal, prepared[p] = None,
           \E r \in {"ready", "bad"} : prepared' = [prepared EXCEPT ![p] = r],
           stage' = [stage EXCEPT ![p] = 3],
           UNCHANGED <<decisions, verdict, executors>>
    PROVE  Accounted' /\ Onward
<1>1. PairHolds(p) /\ stage[p] \in 0..3 /\ stage'[p] = 3
    BY Settled DEF Accounted, Typed
<1>2. Typed'
    BY DEF Accounted, Typed, decisions
<1>3. \A q \in Pairs : q # p => stage'[q] = stage[q] /\ prepared'[q] = prepared[q]
    BY DEF Accounted, Typed
<1>4. FactsOnly
  <2>1. \A q \in Pairs : stage[q] <= stage'[q]
      BY <1>1, <1>3 DEF Accounted, Typed
  <2>2. \A q \in terminal : prepared[q] = "ready" => prepared'[q] = "ready"
      BY <1>3, OwnersAssumption
  <2>. QED BY <2>1, <2>2 DEF FactsOnly, decisions
<1>5. PairHolds(p)'
  <2>1. EntryAssigned(p[1])' <=> EntryAssigned(p[1])
      BY DEF EntryAssigned, decisions
  <2>2. outcome[p] \in {0, 2, 3}
      BY DEF Accounted, Typed
  <2>. QED BY <1>1, <2>1, <2>2 DEF PairHolds, Verdicts, decisions
<1>6. \A q \in Pairs : PairHolds(q)'
    BY <1>3, <1>5, PairKept DEF decisions
<1>. QED BY <1>2, <1>4, <1>6, FactsMove

LEMMA OwnerMoves ==
    ASSUME Accounted, NEW p \in Pairs, OwnerBegins(p) \/ OwnerCompletes(p) \/ OwnerPrepares(p)
    PROVE  Accounted' /\ Onward /\ UNCHANGED <<decisions, call>>
<1>1. PairHolds(p) /\ stage[p] \in 0..3
    BY Settled
<1>2. CASE OwnerBegins(p)
  <2>1. Typed'
      BY <1>2 DEF OwnerBegins, Accounted, Typed, decisions
  <2>2. \A q \in Pairs : q # p => stage'[q] = stage[q] /\ executors'[q] = executors[q]
      BY <1>2 DEF OwnerBegins
  <2>3. stage[p] = 0 /\ stage'[p] = 1 /\ executors'[p] = executors[p] \cup {assigned[p]}
        /\ assigned[p] # None
      BY <1>2 DEF OwnerBegins, Accounted, Typed
  <2>4. FactsOnly
    <3>1. \A q \in Pairs : stage[q] <= stage'[q]
        BY <2>2, <2>3 DEF Accounted, Typed
    <3>. QED BY <1>2, <3>1 DEF OwnerBegins, FactsOnly, decisions
  <2>5. PairHolds(p)'
    <3>1. p \notin terminal /\ outcome[p] \in {0, 2, 3}
        BY <1>1, <2>3 DEF PairHolds, Accounted, Typed
    <3>2. prepared[p] = None /\ outcome[p] = 0
        BY <1>1, <2>3, <3>1 DEF PairHolds
    <3>. QED BY <1>1, <1>2, <2>3, <3>1, <3>2 DEF OwnerBegins, PairHolds, decisions
  <2>6. \A q \in Pairs : PairHolds(q)'
      BY <1>2, <2>2, <2>5, PairKept DEF OwnerBegins, decisions
  <2>. QED BY <1>2, <2>1, <2>4, <2>6, FactsMove DEF OwnerBegins
<1>3. CASE OwnerCompletes(p)
  <2>1. \A w \in Verdicts(p) : w \in AllVerdicts
      BY DEF Verdicts, AllVerdicts
  <2>2. Typed'
      BY <1>3, <2>1 DEF OwnerCompletes, Accounted, Typed, decisions
  <2>3. \A q \in Pairs : q # p => stage'[q] = stage[q] /\ verdict'[q] = verdict[q]
      BY <1>3 DEF OwnerCompletes
  <2>4. stage[p] = 1 /\ stage'[p] = 2 /\ verdict'[p] \in Verdicts(p) /\ assigned[p] # None
      BY <1>3 DEF OwnerCompletes, Accounted, Typed
  <2>5. p \notin terminal
      BY <1>1, <2>4 DEF PairHolds
  <2>6. FactsOnly
    <3>1. \A q \in Pairs : stage[q] <= stage'[q]
        BY <2>3, <2>4 DEF Accounted, Typed
    <3>2. \A q \in terminal : verdict'[q] = verdict[q]
        BY <2>3, <2>5 DEF Accounted, Typed
    <3>. QED BY <1>3, <3>1, <3>2 DEF OwnerCompletes, FactsOnly, decisions
  <2>7. PairHolds(p)'
    <3>1. outcome[p] \in {0, 2, 3}
        BY DEF Accounted, Typed
    <3>2. verdict'[p] \in Verdicts(p)'
        BY <2>4
    <3>. QED BY <1>1, <1>3, <2>4, <2>5, <3>1, <3>2 DEF OwnerCompletes, PairHolds, decisions
  <2>8. \A q \in Pairs : PairHolds(q)'
      BY <1>3, <2>3, <2>7, PairKept DEF OwnerCompletes, decisions
  <2>. QED BY <1>3, <2>2, <2>6, <2>8, FactsMove DEF OwnerCompletes
<1>4. CASE OwnerPrepares(p)
  <2>1. prepared[p] = None
      BY <1>1, <1>4 DEF OwnerPrepares, PairHolds
  <2>2. Accounted' /\ Onward
      BY <1>4, <2>1, PrepareMoves DEF OwnerPrepares
  <2>. QED BY <1>4, <2>2 DEF OwnerPrepares
<1>. QED BY <1>2, <1>3, <1>4

----------------------------------------------------------------------------
(* What a call that takes a step goes on with.                              *)

LEMMA Membership == ASSUME NEW x, NEW S PROVE \E b \in BOOLEAN : b = (x \in S)
<1>1. (x \in S) \in BOOLEAN
    OBVIOUS
<1>. QED BY <1>1, Zenon

LEMMA ViewTyped ==
    ASSUME Typed, NEW S \in SUBSET Entries
    PROVE  /\ View(S) \in Views /\ DOMAIN View(S) = S
           /\ \A e \in S : /\ View(S)[e].last = attempts[e]
                           /\ View(S)[e].ended <=> <<e, attempts[e]>> \in terminal
                           /\ View(S)[e].assigned <=> EntryAssigned(e)
                           /\ View(S)[e].retired <=> e \in retired
<1>1. ASSUME NEW e \in S
      PROVE  View(S)[e] \in Seen
  <2>1. PICK b1 \in BOOLEAN : b1 = (<<e, attempts[e]>> \in terminal)
      BY Membership
  <2>2. PICK b2 \in BOOLEAN : b2 = EntryAssigned(e)
      BY DEF EntryAssigned
  <2>3. PICK b3 \in BOOLEAN : b3 = (e \in retired)
      BY Membership
  <2>4. View(S)[e] = [last |-> attempts[e], ended |-> b1, assigned |-> b2, retired |-> b3]
      BY <2>1, <2>2, <2>3 DEF View
  <2>. QED BY <2>4 DEF Seen, Typed
<1>2. View(S) \in [S -> Seen]
    BY <1>1 DEF View
<1>3. View(S) \in Views
    BY <1>2 DEF Views
<1>. QED BY <1>2, <1>3 DEF View

\* A view that was just taken is the ledger.
LEMMA ViewFresh ==
    ASSUME Accounted, NEW S \in SUBSET Entries, NEW f \in S
    PROVE  SightHolds(View(S)[f], f, cancelled)
<1>1. /\ View(S)[f].last = attempts[f]
      /\ View(S)[f].ended <=> <<f, attempts[f]>> \in terminal
      /\ View(S)[f].assigned <=> EntryAssigned(f)
      /\ View(S)[f].retired <=> f \in retired
    BY ViewTyped DEF Accounted
<1>2. attempts[f] \in Nat
    BY SizesAssumption DEF Accounted, Typed
<1>3. <<f, attempts[f]>> \in terminal => attempts[f] > 0
    BY <1>2, EntriesNumbered, Settled DEF Accounted, Typed
<1>4. f \in retired => Finished(f) \/ cancelled
    BY DEF Accounted, Ledger
<1>. QED BY <1>1, <1>2, <1>3, <1>4 DEF SightHolds

\* What is known of the call that takes the step.
LEMMA CallIs ==
    ASSUME IInv, NEW t \in Callers
    PROVE  \E c \in Calls : c = call[t] /\ Holds(c)
BY DEF IInv, Calling

\* The next slot of an advance.
LEMMA NextSlotHolds ==
    ASSUME Accounted, NEW t \in Callers, NEW c \in Calls, c = call[t], Holds(c),
           c.at \in {"visit", "finish"},
           c.lease /\ ~c.cancelled => Finished(c.entry)
    PROVE  \E n \in Calls : n = NextSlot(t) /\ Holds(n)
<1>1. CASE ~(c.lease /\ c.entry < NumEntries)
    BY <1>1, IdleHolds DEF NextSlot
<1>2. CASE c.lease /\ c.entry < NumEntries
  <2> DEFINE e == c.entry  S == (e + 1)..NumEntries  w == [f \in S |-> c.view[f]]
             n == [at |-> "visit", lease |-> TRUE, entry |-> e + 1, view |-> w,
                   cancelled |-> c.cancelled]
  <2>1. n = NextSlot(t)
      BY <1>2 DEF NextSlot
  <2>2. /\ e \in Entries /\ c.view \in Views /\ c.cancelled \in BOOLEAN
        /\ DOMAIN c.view = e..NumEntries /\ (c.cancelled => cancelled)
        /\ ~c.cancelled => \A f \in Entries : f < e => Finished(f)
        /\ \A f \in DOMAIN c.view : SightHolds(c.view[f], f, c.cancelled)
      BY <1>2, CallsAre DEF Visiting, Working, Holds, ViewHolds
  <2>3. e + 1 \in Entries /\ S \subseteq DOMAIN c.view /\ e + 1 \in S /\ S \subseteq Entries
      BY <1>2, <2>2, SizesAssumption DEF Entries
  <2>4. \A f \in S : w[f] = c.view[f] /\ w[f] \in Seen
      BY <2>2, <2>3, ViewsAre
  <2>5. w \in Views
    <3>1. w \in [S -> Seen]
        BY <2>4
    <3>. HIDE DEF w
    <3>. QED BY <2>3, <3>1 DEF Views
  <2>6. n \in Calls
      BY <2>2, <2>3, <2>5 DEF Calls, Visiting
  <2>7. \A f \in Entries : f < e + 1 => f < e \/ f = e
      BY <2>2, SizesAssumption DEF Entries
  <2>8. ViewHolds(n)
    <3>1. \A f \in S : SightHolds(w[f], f, c.cancelled)
        BY <2>2, <2>3, <2>4
    <3>2. ~c.cancelled => \A f \in Entries : f < e + 1 => Finished(f)
        BY <1>2, <2>2, <2>7
    <3>3. DOMAIN w = S
        OBVIOUS
    <3>. HIDE DEF w, S
    <3>. QED BY <2>2, <2>3, <3>1, <3>2, <3>3 DEF ViewHolds, S
  <2>9. Holds(n)
    <3>. HIDE DEF w, S
    <3>. QED BY <2>8 DEF Holds, CutHolds, ReportHolds, WorkHolds
  <2>. QED BY <2>1, <2>6, <2>9
<1>. QED BY <1>1, <1>2

----------------------------------------------------------------------------
(* The steps of the calls.                                                  *)

Fenced == cancelled => assigned' = assigned

\* A call that keeps no cut is as true after a decision as before it.
LEMMA CarriedOn ==
    ASSUME Accounted, Typed', Onward, NEW n \in Calls, Holds(n), n.at \notin {"assign", "retain"}
    PROVE  Holds(n)'
<1>1. PICK s \in Calls : s = Stale(n) /\ Holds(s)'
    BY StaleKept DEF Accounted
<1>2. s = n
    BY <1>1, StaleIs
<1>. QED BY <1>1, <1>2

LEMMA ByAdding ==
    ASSUME IInv, Accounted', Onward, NEW t \in Callers,
           \E n \in Calls : Holds(n)' /\ Added(t, n)
    PROVE  IInv'
<1>1. PICK n \in Calls : Holds(n)' /\ Added(t, n)
    OBVIOUS
<1>2. call' \in [Callers -> Calls] /\ Calling'
    BY <1>1, OthersAdded DEF Accounted
<1>. QED BY <1>2 DEF IInv

LEMMA ByReading ==
    ASSUME IInv, Still, NEW t \in Callers, \E n \in Calls : Holds(n) /\ Same(t, n)
    PROVE  IInv' /\ Fenced
<1>1. PICK n \in Calls : Holds(n) /\ Same(t, n)
    OBVIOUS
<1>2. Accounted' /\ Onward /\ UNCHANGED decisions
    BY StillMoves DEF IInv
<1>3. Holds(n)'
    BY <1>1, <1>2, CallKept DEF IInv, Accounted
<1>4. call' \in [Callers -> Calls] /\ Calling'
    BY <1>1, <1>2, <1>3, OthersSame DEF Accounted
<1>. QED BY <1>2, <1>4 DEF IInv, Fenced, decisions

LEMMA BeginAssignStep ==
    ASSUME IInv, NEW t \in Callers, NEW e \in Entries, NEW o \in Owners, BeginAssign(t, e, o)
    PROVE  IInv' /\ Fenced
<1> DEFINE k == IF attempts[e] = 0 THEN 1 ELSE attempts[e]
           n == [at |-> "assign", fresh |-> TRUE, owner |-> o, pair |-> <<e, k>>]
<1>1. Same(t, n) /\ Still /\ ~cancelled /\ AssignmentAttempt(e)
    BY DEF BeginAssign, Still
<1>2. attempts[e] \in 0..MaxAttempts /\ e \in Entries /\ Accounted
    BY DEF IInv, Accounted, Typed
<1>3. k \in Ordinals /\ <<e, k>> \in Pairs /\ n \in Calls
    BY <1>2, SizesAssumption, EntriesNumbered DEF Calls, Assigning, Ordinals
<1>4. assigned[<<e, k>>] = None
  <2>1. CASE attempts[e] = 0
      BY <1>2, <1>3, <2>1, Settled DEF PairHolds
  <2>2. CASE attempts[e] # 0
      BY <1>2, <2>2, SizesAssumption DEF BeginAssign
  <2>. QED BY <2>1, <2>2
<1>5. Cardinality(OpenEntries \ {e}) < Ceiling
  <2>1. PICK grant \in Grants : Cardinality(OccupiedEntries(e)) < grant
      BY DEF BeginAssign
  <2>2. OpenEntries \ {e} \subseteq OccupiedEntries(e)
    <3>1. ASSUME NEW f \in Entries, f \in OpenEntries
          PROVE  attempts[f] > 0 /\ AttemptOccupied(<<f, attempts[f]>>)
      <4> DEFINE p == <<f, attempts[f]>>
      <4>1. attempts[f] > 0 /\ ~Finished(f) /\ attempts[f] \in Ordinals /\ p \in Pairs
          BY <1>2, <3>1, EntriesNumbered, SizesAssumption
             DEF OpenEntries, Accounted, Typed, Ordinals
      <4>2. SUFFICES ASSUME p \in terminal PROVE AttemptOccupied(p)
          BY <4>1 DEF AttemptOccupied
      <4>3. verdict[p] \in Verdicts(p) /\ verdict[p] \notin {"done", "lingering"}
          BY <1>2, <4>1, <4>2, Settled DEF Finished, PairHolds
      <4>. HIDE DEF p
      <4>. QED BY <1>1, <4>3 DEF Verdicts, AttemptOccupied, Permission
    <3>. QED BY <3>1 DEF OccupiedEntries, OpenEntries
  <2>3. OccupiedEntries(e) \subseteq Entries
      BY DEF OccupiedEntries
  <2>4. /\ Cardinality(OpenEntries \ {e}) <= Cardinality(OccupiedEntries(e))
        /\ Cardinality(OpenEntries \ {e}) \in Nat /\ Cardinality(OccupiedEntries(e)) \in Nat
      BY <2>2, <2>3, Fewer
  <2>. QED BY <2>1, <2>4, ParallelismAssumption DEF Grants
<1>6. Holds(n)
    BY <1>1, <1>4, <1>5 DEF Holds, CutHolds, ReportHolds, ViewHolds, WorkHolds
<1>. HIDE DEF n
<1>. QED BY <1>1, <1>3, <1>6, ByReading

LEMMA CommitAssignStep ==
    ASSUME IInv, NEW t \in Callers, CommitAssign(t)
    PROVE  IInv' /\ Fenced
<1>1. PICK c \in Calls : c = call[t] /\ Holds(c)
    BY CallIs
<1>2. c \in Assigning /\ CutHolds(c) /\ c.fresh
    BY <1>1, CallsAre DEF CommitAssign, At, Holds
<1>3. Accounted' /\ Onward /\ ~cancelled
    BY <1>1, <1>2, AssignMoves DEF CommitAssign, IInv
<1>4. IInv'
    BY <1>3, IdleHolds, ByAdding DEF CommitAssign
<1>. QED BY <1>3, <1>4 DEF Fenced

LEMMA BeginIngestStep ==
    ASSUME IInv, NEW t \in Callers, NEW p \in Pairs, NEW j \in 2..3, BeginIngest(t, p, j)
    PROVE  IInv' /\ Fenced
<1>1. PICK m \in BOOLEAN : m = (p \in terminal)
    BY Membership
<1>2. PICK due \in BOOLEAN : due = (p \notin terminal)
  <2>1. (p \notin terminal) \in BOOLEAN
      OBVIOUS
  <2>. QED BY <2>1, Zenon
<1> DEFINE a == [at |-> "terminal", pair |-> p, due |-> due]
           b == [at |-> "retain", fresh |-> TRUE, pair |-> p, report |-> j, due |-> due]
<1>3. Still /\ assigned[p] # None /\ j <= stage[p] /\ j >= outcome[p]
      /\ Same(t, IF j = outcome[p] THEN a ELSE b)
    BY <1>2 DEF BeginIngest, Still
<1>4. stage[p] \in 0..3 /\ outcome[p] \in {0, 2, 3}
    BY DEF IInv, Accounted, Typed
<1>5. a \in Calls /\ b \in Calls
    BY DEF Calls, Recording, Retaining
<1>6. Holds(a) /\ (j # outcome[p] => Holds(b))
    BY <1>3, <1>4 DEF Holds, CutHolds, ReportHolds, ViewHolds, WorkHolds
<1>. HIDE DEF a, b
<1>. QED BY <1>3, <1>5, <1>6, ByReading

LEMMA CommitOutcomeStep ==
    ASSUME IInv, NEW t \in Callers, CommitOutcome(t)
    PROVE  IInv' /\ Fenced
<1>1. PICK c \in Calls : c = call[t] /\ Holds(c)
    BY CallIs
<1>2. c \in Retaining /\ ReportHolds(c) /\ c.fresh /\ c.at = "retain"
    BY <1>1, CallsAre DEF CommitOutcome, At, Holds
<1>3. Accounted' /\ Onward
    BY <1>1, <1>2, OutcomeMoves DEF CommitOutcome, IInv
<1> DEFINE n == [at |-> "terminal", pair |-> c.pair, due |-> c.due]
<1>4. n \in Calls
    BY <1>2 DEF Retaining, Calls, Recording
<1>5. Holds(n)
    BY <1>2 DEF Holds, CutHolds, ReportHolds, ViewHolds, WorkHolds
<1>6. Added(t, n)
    BY <1>1 DEF CommitOutcome
<1>. HIDE DEF n
<1>7. n.at = "terminal"
    BY DEF n
<1>8. Holds(n)'
    BY <1>3, <1>4, <1>5, <1>7, CarriedOn DEF IInv, Accounted
<1>9. IInv'
    BY <1>3, <1>4, <1>6, <1>8, ByAdding
<1>. QED BY <1>9 DEF Fenced, CommitOutcome

LEMMA RecordIngestedStep ==
    ASSUME IInv, NEW t \in Callers, RecordIngested(t)
    PROVE  IInv' /\ Fenced
<1>1. PICK c \in Calls : c = call[t] /\ Holds(c)
    BY CallIs
<1>2. c.pair \in Pairs /\ assigned[c.pair] # None /\ stage[c.pair] >= 2
    BY <1>1, CallsAre DEF RecordIngested, At, Holds, ReportHolds, Recording
<1>3. CASE c.due /\ c.pair \notin terminal
  <2>1. c.pair[2] <= attempts[c.pair[1]]
      BY <1>2, Settled DEF IInv, PairHolds
  <2>2. Accounted' /\ Onward
      BY <1>1, <1>2, <1>3, <2>1, TerminalMoves DEF RecordIngested, IInv
  <2>3. IInv'
      BY <1>1, <1>3, <2>2, IdleHolds, ByAdding DEF RecordIngested
  <2>. QED BY <2>3 DEF Fenced, RecordIngested
<1>4. CASE ~(c.due /\ c.pair \notin terminal)
  <2>1. Still /\ Same(t, Idle)
      BY <1>1, <1>4 DEF RecordIngested, Still, decisions
  <2>. QED BY <2>1, IdleHolds, ByReading
<1>. QED BY <1>3, <1>4

LEMMA BeginAdvanceStep ==
    ASSUME IInv, NEW t \in Callers, BeginAdvance(t) \/ \E e \in Entries : BeginSelected(t, e)
    PROVE  IInv' /\ Fenced
<1>1. ASSUME NEW S \in SUBSET Entries, NEW l \in BOOLEAN, NEW e \in S, l => e = 1 /\ S = Entries,
             ~l => EntryAssigned(e)
      PROVE  LET n == [at |-> "visit", lease |-> l, entry |-> e, view |-> View(S),
                       cancelled |-> cancelled]
             IN  n \in Calls /\ Holds(n)
  <2> DEFINE n == [at |-> "visit", lease |-> l, entry |-> e, view |-> View(S),
                   cancelled |-> cancelled]
  <2>1. /\ View(S) \in Views /\ DOMAIN View(S) = S /\ View(S)[e].last = attempts[e]
        /\ \A f \in S : SightHolds(View(S)[f], f, cancelled)
      BY ViewTyped, ViewFresh DEF IInv, Accounted
  <2>2. n \in Calls
      BY <2>1 DEF Calls, Visiting, IInv, Accounted, Typed
  <2>3. ~l => attempts[e] > 0
    <3>1. SUFFICES ASSUME ~l PROVE attempts[e] > 0
        OBVIOUS
    <3>2. PICK k \in Ordinals : assigned[<<e, k>>] # None
        BY <1>1, <3>1 DEF EntryAssigned
    <3>3. <<e, k>> \in Pairs
        BY EntriesNumbered
    <3>4. PairHolds(<<e, k>>) /\ attempts[<<e, k>>[1]] \in Nat /\ <<e, k>>[2] \in Nat
        BY <3>3, Settled DEF IInv
    <3>5. k <= attempts[e] /\ attempts[e] \in Nat /\ k \in Nat /\ k > 0
        BY <3>2, <3>4, EntriesNumbered DEF PairHolds
    <3>. QED BY <3>5
  <2>4. ViewHolds(n)
    <3>1. \A f \in Entries : ~(f < 1)
        BY EntriesNumbered
    <3>2. l => DOMAIN View(S) = e..NumEntries
        BY <1>1, <2>1 DEF Entries
    <3>3. l /\ ~cancelled => \A f \in Entries : f < e => Finished(f)
        BY <1>1, <3>1
    <3>. QED BY <2>1, <2>3, <3>2, <3>3 DEF ViewHolds
  <2>5. Holds(n)
      BY <2>4 DEF Holds, CutHolds, ReportHolds, WorkHolds
  <2>. QED BY <2>2, <2>5
<1>2. CASE BeginAdvance(t)
  <2> DEFINE n == [at |-> "visit", lease |-> TRUE, entry |-> 1, view |-> View(Entries),
                   cancelled |-> cancelled]
  <2>1. 1 \in Entries
      BY SizesAssumption DEF Entries
  <2>2. n \in Calls /\ Holds(n)
      BY <1>1, <2>1
  <2>3. Still /\ Same(t, n)
      BY <1>2 DEF BeginAdvance, Still
  <2>. HIDE DEF n
  <2>. QED BY <2>2, <2>3, ByReading
<1>3. ASSUME NEW e \in Entries, BeginSelected(t, e)
      PROVE  IInv' /\ Fenced
  <2> DEFINE n == [at |-> "visit", lease |-> FALSE, entry |-> e, view |-> View({e}),
                   cancelled |-> cancelled]
  <2>1. {e} \subseteq Entries /\ EntryAssigned(e)
      BY <1>3 DEF BeginSelected
  <2>2. n \in Calls /\ Holds(n)
      BY <1>1, <2>1
  <2>3. Still /\ Same(t, n)
      BY <1>3 DEF BeginSelected, Still
  <2>. HIDE DEF n
  <2>. QED BY <2>2, <2>3, ByReading
<1>. QED BY <1>2, <1>3

\* The facts about the entry a call is at.
LEMMA VisitIs ==
    ASSUME IInv, NEW c \in Calls, Holds(c), c.at \in {"visit", "claimed", "unit", "finish"}
    PROVE  /\ c.entry \in Entries /\ c.lease \in BOOLEAN /\ c.cancelled \in BOOLEAN
           /\ c.view \in Views /\ c.entry \in DOMAIN c.view
           /\ c.view[c.entry].last \in 0..MaxAttempts /\ attempts[c.entry] \in Nat
           /\ SightHolds(c.view[c.entry], c.entry, c.cancelled)
           /\ ~c.lease => c.view[c.entry].last > 0
           /\ c.lease /\ ~c.cancelled => \A f \in Entries : f < c.entry => Finished(f)
           /\ c.cancelled => cancelled
<1>1. /\ c.entry \in Entries /\ c.lease \in BOOLEAN /\ c.cancelled \in BOOLEAN /\ c.view \in Views
    BY CallsAre DEF Visiting, Working
<1>2. ViewHolds(c)
    BY DEF Holds
<1>3. attempts[c.entry] \in Nat
    BY <1>1, SizesAssumption DEF IInv, Accounted, Typed
<1>. QED BY <1>1, <1>2, <1>3, ViewsAre DEF ViewHolds

LEMMA SkipRetiredStep ==
    ASSUME IInv, NEW t \in Callers, SkipRetired(t)
    PROVE  IInv' /\ Fenced
<1>1. PICK c \in Calls : c = call[t] /\ Holds(c)
    BY CallIs
<1>2. c.at = "visit" /\ c.view[c.entry].retired
    BY <1>1 DEF SkipRetired, At
<1>3. ~c.cancelled => Finished(c.entry)
    BY <1>1, <1>2, VisitIs DEF SightHolds
<1>4. PICK n \in Calls : n = NextSlot(t) /\ Holds(n)
    BY <1>1, <1>2, <1>3, NextSlotHolds DEF IInv
<1>5. Still /\ Same(t, n)
    BY <1>4 DEF SkipRetired, Still
<1>. QED BY <1>4, <1>5, ByReading

\* An attempt on which the call goes on to decide.
LEMMA ClaimedHolds ==
    ASSUME IInv, NEW c \in Calls, Holds(c), c.at = "visit", NEW k \in Ordinals,
           k = IF c.view[c.entry].last > 0 THEN c.view[c.entry].last ELSE 1
    PROVE  LET n == [at |-> "claimed", lease |-> c.lease, entry |-> c.entry, view |-> c.view,
                     cancelled |-> c.cancelled, ordinal |-> k]
           IN  /\ n \in Calls /\ ViewHolds(n)
               /\ k <= attempts[c.entry] => Holds(n)
               /\ k <= attempts'[c.entry] /\ ViewHolds(n)' => Holds(n)'
<1> DEFINE n == [at |-> "claimed", lease |-> c.lease, entry |-> c.entry, view |-> c.view,
                 cancelled |-> c.cancelled, ordinal |-> k]
<1>1. n \in Calls
    BY VisitIs DEF Calls, Working
<1>2. ViewHolds(n)
    BY DEF Holds, ViewHolds
<1>3. k <= attempts[c.entry] => WorkHolds(n)
    BY DEF WorkHolds
<1>4. k <= attempts'[c.entry] => WorkHolds(n)'
    BY DEF WorkHolds
<1>. QED BY <1>1, <1>2, <1>3, <1>4 DEF Holds, CutHolds, ReportHolds

LEMMA VisitStep ==
    ASSUME IInv, NEW t \in Callers, Visit(t)
    PROVE  IInv' /\ Fenced
<1>1. PICK c \in Calls : c = call[t] /\ Holds(c)
    BY CallIs
<1> DEFINE e == c.entry  v == c.view[e]
           n(k) == [at |-> "claimed", lease |-> c.lease, entry |-> c.entry, view |-> c.view,
                    cancelled |-> c.cancelled, ordinal |-> k]
<1>2. /\ c.at = "visit" /\ e \in Entries /\ v.last \in 0..MaxAttempts /\ attempts[e] \in Nat
      /\ SightHolds(v, e, c.cancelled) /\ v.last \in Nat /\ 1 \in Ordinals
      /\ ~c.lease => v.last > 0
      /\ c.lease /\ ~c.cancelled => \A f \in Entries : f < e => Finished(f)
    BY <1>1, VisitIs, SizesAssumption, EntriesNumbered DEF Visit, At
<1>3. \A k \in Ordinals : Claimed(t, k) = n(k)
    BY <1>1 DEF Claimed
<1>4. CASE v.last > 0
  <2>1. Same(t, Claimed(t, v.last)) /\ Still
      BY <1>1, <1>4 DEF Visit, Still, decisions
  <2>2. v.last \in Ordinals /\ v.last <= attempts[e]
      BY <1>2, <1>4, SizesAssumption DEF SightHolds, Ordinals
  <2>3. n(v.last) \in Calls /\ Holds(n(v.last))
      BY <1>1, <1>2, <1>4, <2>2, ClaimedHolds
  <2>4. Same(t, n(v.last))
      BY <1>3, <2>1, <2>2
  <2>. HIDE DEF n
  <2>. QED BY <2>1, <2>3, <2>4, ByReading
<1>5. CASE ~(v.last > 0) /\ (c.cancelled \/ Floor > 1)
  <2>1. Same(t, Idle) /\ Still
      BY <1>1, <1>5 DEF Visit, Still, decisions
  <2>. QED BY <2>1, IdleHolds, ByReading
<1>6. CASE ~(v.last > 0) /\ ~(c.cancelled \/ Floor > 1) /\ attempts[e] = 0
  <2>1. /\ Added(t, Claimed(t, 1)) /\ attempts' = [attempts EXCEPT ![e] = 1]
        /\ UNCHANGED <<assigned, outcome, terminal, retired, cancelled, facts>>
      BY <1>1, <1>6 DEF Visit
  <2>2. \A f \in Entries : f < e => Finished(f)
      BY <1>2, <1>6
  <2>3. Accounted' /\ Onward
      BY <1>2, <1>6, <2>1, <2>2, BeginMoves DEF IInv
  <2>4. attempts'[e] = 1
      BY <1>2, <2>1 DEF IInv, Accounted, Typed
  <2>5. /\ n(1) \in Calls /\ ViewHolds(n(1))
        /\ 1 <= attempts'[c.entry] /\ ViewHolds(n(1))' => Holds(n(1))'
      BY <1>1, <1>2, <1>6, ClaimedHolds
  <2>6. ViewHolds(n(1))'
    <3>1. ViewHolds(c)'
        BY <1>1, <2>3, ViewKept DEF IInv, Accounted, Holds
    <3>. QED BY <1>2, <3>1 DEF ViewHolds
  <2>7. Holds(n(1))' /\ Added(t, n(1))
      BY <1>2, <1>3, <2>1, <2>4, <2>5, <2>6
  <2>8. IInv'
    <3>. HIDE DEF n
    <3>. QED BY <2>3, <2>5, <2>7, ByAdding
  <2>. QED BY <2>1, <2>8 DEF Fenced
<1>7. CASE ~(v.last > 0) /\ ~(c.cancelled \/ Floor > 1) /\ attempts[e] # 0
  <2>1. (Same(t, Claimed(t, 1)) \/ Same(t, Idle)) /\ Still
      BY <1>1, <1>7 DEF Visit, Still, decisions
  <2>2. n(1) \in Calls /\ Holds(n(1))
      BY <1>1, <1>2, <1>7, ClaimedHolds
  <2>3. Same(t, n(1)) \/ Same(t, Idle)
      BY <1>2, <1>3, <2>1
  <2>. HIDE DEF n
  <2>. QED BY <2>1, <2>2, <2>3, IdleHolds, ByReading
<1>. QED BY <1>4, <1>5, <1>6, <1>7

LEMMA ReloadStep ==
    ASSUME IInv, NEW t \in Callers, Reload(t)
    PROVE  IInv' /\ Fenced
<1>1. PICK c \in Calls : c = call[t] /\ Holds(c)
    BY CallIs
<1> DEFINE e == c.entry  k == c.ordinal  p == <<e, k>>  v == c.view[e]
           n(next) == [c EXCEPT !.at = next]
<1>2. /\ c.at = "claimed" /\ c \in Working /\ e \in Entries /\ SightHolds(v, e, c.cancelled)
      /\ k \in Ordinals /\ p \in Pairs /\ v.last \in Nat /\ attempts[e] \in Nat
      /\ k \in Nat /\ k > 0
      /\ k <= attempts[e] /\ k = IF v.last > 0 THEN v.last ELSE 1
  <2>1. c.at = "claimed" /\ c \in Working
    BY <1>1, CallsAre DEF Reload, At
  <2>2. /\ e \in Entries /\ k \in Ordinals /\ SightHolds(v, e, c.cancelled)
        /\ v.last \in Nat /\ attempts[e] \in Nat
    BY <1>1, <2>1, VisitIs DEF Working
  <2>3. k <= attempts[e] /\ k = IF v.last > 0 THEN v.last ELSE 1
    BY <1>1, <2>1 DEF Holds, WorkHolds
  <2>. QED BY <2>1, <2>2, <2>3, SizesAssumption, EntriesNumbered
<1>3. Still
    BY DEF Reload, Still
<1>4. assigned[p] = None /\ ~v.assigned => ~EntryAssigned(e)
  <2>1. SUFFICES ASSUME assigned[p] = None, ~v.assigned, v.last = 0 PROVE ~EntryAssigned(e)
      BY <1>2 DEF SightHolds
  <2>2. p = <<e, 1>>
      BY <1>2, <2>1
  <2>3. ASSUME NEW j \in Ordinals, assigned[<<e, j>>] # None PROVE FALSE
    <3>1. <<e, j>> \in Pairs /\ PairHolds(<<e, j>>)
        BY <1>2, EntriesNumbered, Settled DEF IInv
    <3>. QED BY <2>1, <2>2, <2>3, <3>1 DEF PairHolds
  <2>. QED BY <2>3 DEF EntryAssigned
<1>5. \/ Same(t, Idle)
      \/ Same(t, n("finish")) /\ v.ended /\ (assigned[p] = None => ~v.assigned)
      \/ Same(t, n("unit")) /\ ~v.ended /\ assigned[p] = None /\ ~v.assigned
    BY <1>1 DEF Reload, Pair
<1>6. n("finish") \in Calls /\ n("unit") \in Calls
    BY <1>2 DEF Calls, Working
<1>7. v.ended /\ (assigned[p] = None => ~v.assigned) => Holds(n("finish"))
  <2>1. SUFFICES ASSUME v.ended, assigned[p] = None => ~v.assigned PROVE Holds(n("finish"))
      OBVIOUS
  <2>2. p \in terminal
      BY <1>2, <2>1 DEF SightHolds
  <2>3. ViewHolds(n("finish"))
      BY <1>1, <1>2 DEF Holds, ViewHolds, Working
  <2>4. WorkHolds(n("finish"))
      BY <1>2, <1>4, <2>1, <2>2 DEF WorkHolds
  <2>. QED BY <1>2, <2>3, <2>4 DEF Holds, CutHolds, ReportHolds, Working
<1>8. assigned[p] = None /\ ~v.assigned => Holds(n("unit"))
  <2>1. SUFFICES ASSUME assigned[p] = None, ~v.assigned PROVE Holds(n("unit"))
      OBVIOUS
  <2>2. ViewHolds(n("unit"))
      BY <1>1, <1>2 DEF Holds, ViewHolds, Working
  <2>3. WorkHolds(n("unit"))
      BY <1>2, <1>4, <2>1 DEF WorkHolds
  <2>. QED BY <1>2, <2>2, <2>3 DEF Holds, CutHolds, ReportHolds, Working
<1>. HIDE DEF n
<1>. QED BY <1>3, <1>5, <1>6, <1>7, <1>8, IdleHolds, ByReading

\* The attempt a call works on.
LEMMA WorkIs ==
    ASSUME IInv, NEW c \in Calls, Holds(c), c.at \in {"unit", "finish"}
    PROVE  LET p == <<c.entry, c.ordinal>> IN
           /\ c.entry \in Entries /\ c.ordinal \in Ordinals /\ p \in Pairs
           /\ c.ordinal <= attempts[c.entry] /\ attempts[c.entry] \in Nat /\ c.ordinal \in Nat
           /\ PairHolds(p)
           /\ c.at = "unit" => ~EntryAssigned(c.entry)
           /\ c.at = "finish" => p \in terminal /\ verdict[p] \in Verdicts(p)
<1>1. c.entry \in Entries /\ c.ordinal \in Ordinals /\ WorkHolds(c) /\ c.ordinal \in Nat
    BY CallsAre, EntriesNumbered DEF Working, Holds
<1>2. <<c.entry, c.ordinal>> \in Pairs
    BY <1>1, EntriesNumbered
<1>3. PairHolds(<<c.entry, c.ordinal>>) /\ attempts[c.entry] \in Nat
    BY <1>1, <1>2, Settled, SizesAssumption DEF IInv
<1>4. c.at = "finish" => verdict[<<c.entry, c.ordinal>>] \in Verdicts(<<c.entry, c.ordinal>>)
    BY <1>1, <1>3 DEF WorkHolds, PairHolds
<1>. QED BY <1>1, <1>2, <1>3, <1>4 DEF WorkHolds

LEMMA AdvanceUnitStep ==
    ASSUME IInv, NEW t \in Callers, AdvanceUnit(t)
    PROVE  IInv' /\ Fenced
<1>1. PICK c \in Calls : c = call[t] /\ Holds(c)
    BY CallIs
<1> DEFINE p == <<c.entry, c.ordinal>>
<1>2. c.at = "unit" /\ Pair(t) = p
    BY <1>1 DEF AdvanceUnit, At, Pair
<1>3. /\ p \in Pairs /\ p[1] = c.entry /\ p[2] = c.ordinal
      /\ c.ordinal <= attempts[c.entry] /\ ~EntryAssigned(c.entry)
    BY <1>1, <1>2, WorkIs
<1>4. /\ executors' = [executors EXCEPT ![p] = @ \cup {"runtime"}]
      /\ \/ /\ stage[p] < 2 /\ stage' = [stage EXCEPT ![p] = 1]
            /\ UNCHANGED <<verdict, terminal>> /\ Same(t, Idle)
         \/ /\ p \notin terminal
            /\ \E w \in Verdicts(p) \ {"lingering"} : verdict' = [verdict EXCEPT ![p] = w]
            /\ stage' = [stage EXCEPT ![p] = 2]
            /\ terminal' = terminal \cup {p} /\ Added(t, Idle)
      /\ UNCHANGED <<attempts, assigned, outcome, retired, cancelled, prepared>>
  <2>. HIDE DEF p
  <2>. QED BY <1>2 DEF AdvanceUnit
<1>. HIDE DEF p
<1>5. Accounted' /\ Onward
    BY <1>3, <1>4, UnitMoves DEF IInv
<1>6. CASE UNCHANGED terminal /\ Same(t, Idle)
  <2>1. call' \in [Callers -> Calls] /\ Calling'
      BY <1>4, <1>5, <1>6, IdleHolds, OthersSame DEF Accounted, decisions
  <2>. QED BY <1>4, <1>5, <2>1 DEF IInv, Fenced
<1>7. CASE Added(t, Idle)
    BY <1>4, <1>5, <1>7, IdleHolds, ByAdding DEF Fenced
<1>. QED BY <1>4, <1>6, <1>7

LEMMA PrepareRetryStep ==
    ASSUME IInv, NEW t \in Callers, PrepareRetry(t)
    PROVE  IInv' /\ Fenced
<1>1. PICK c \in Calls : c = call[t] /\ Holds(c)
    BY CallIs
<1> DEFINE p == <<c.entry, c.ordinal>>
<1>2. c.at = "finish" /\ Pair(t) = p
    BY <1>1 DEF PrepareRetry, At, Pair
<1>3. p \in Pairs /\ p \in terminal
    BY <1>1, <1>2, WorkIs
<1>4. /\ assigned[p] = None /\ PreparationKnown(p) = None
      /\ \E r \in {"ready", "bad"} : prepared' = [prepared EXCEPT ![p] = r]
      /\ stage' = [stage EXCEPT ![p] = 3]
      /\ UNCHANGED <<decisions, verdict, executors, call>>
  <2>. HIDE DEF p
  <2>. QED BY <1>2 DEF PrepareRetry
<1>. HIDE DEF p
<1>5. prepared[p] = None
    BY <1>4 DEF PreparationKnown
<1>6. Accounted' /\ Onward
    BY <1>3, <1>4, <1>5, PrepareMoves DEF IInv
<1>7. call' \in [Callers -> Calls] /\ Calling'
    BY <1>4, <1>6, OthersOnly DEF Accounted
<1>. QED BY <1>4, <1>6, <1>7 DEF IInv, Fenced, decisions

LEMMA NewAttemptStep ==
    ASSUME IInv, NEW t \in Callers, NewAttempt(t)
    PROVE  IInv' /\ Fenced
<1>1. PICK c \in Calls : c = call[t] /\ Holds(c)
    BY CallIs
<1> DEFINE e == c.entry  k == c.ordinal  p == <<e, k>>
<1>2. c.at = "finish" /\ Pair(t) = p
    BY <1>1 DEF NewAttempt, At, Pair
<1>3. e \in Entries /\ k \in Ordinals /\ p \in terminal /\ p[1] = e /\ p[2] = k
    BY <1>1, <1>2, WorkIs
<1>4. /\ verdict[p] \in {"retry", "prepare"}
      /\ verdict[p] = "prepare" => PreparationKnown(p) = "ready"
    BY <1>2 DEF NewAttempt, MayRetry, Permission
<1>5. CASE attempts[e] = k
  <2>1. attempts' = [attempts EXCEPT ![e] = k + 1] /\ Added(t, Idle)
        /\ UNCHANGED <<assigned, outcome, terminal, retired, cancelled, facts>>
      BY <1>2, <1>3, <1>5 DEF NewAttempt
  <2>2. Accounted' /\ Onward
      BY <1>3, <1>4, <1>5, <2>1, RetryMoves DEF IInv
  <2>3. IInv'
      BY <2>1, <2>2, IdleHolds, ByAdding
  <2>. QED BY <2>1, <2>3 DEF Fenced
<1>6. CASE attempts[e] # k
  <2>1. Still /\ Same(t, Idle)
      BY <1>2, <1>3, <1>6 DEF NewAttempt, Still, decisions
  <2>. QED BY <2>1, IdleHolds, ByReading
<1>. QED BY <1>5, <1>6

LEMMA RetireStep ==
    ASSUME IInv, NEW t \in Callers, Retire(t)
    PROVE  IInv' /\ Fenced
<1>1. PICK c \in Calls : c = call[t] /\ Holds(c)
    BY CallIs
<1> DEFINE e == c.entry  k == c.ordinal  p == <<e, k>>
<1>2. c.at = "finish" /\ Pair(t) = p
    BY <1>1 DEF Retire, At, Pair
<1>3. /\ e \in Entries /\ k \in Ordinals /\ p \in terminal /\ p[1] = e /\ p[2] = k
      /\ verdict[p] \in Verdicts(p) /\ k <= attempts[e] /\ attempts[e] \in Nat
      /\ k \in Nat /\ k > 0 /\ (c.cancelled => cancelled)
    BY <1>1, <1>2, WorkIs, VisitIs, EntriesNumbered
<1>4. verdict[p] # "unusable" /\ Permission(p, c.cancelled) = "not-permitted"
    BY <1>1, <1>2 DEF Retire
<1>5. ~c.cancelled => Finished(e)
  <2>1. SUFFICES ASSUME ~c.cancelled PROVE Finished(e)
      OBVIOUS
  <2>2. verdict[p] \in {"done", "lingering"}
      BY <1>3, <1>4, <2>1 DEF Permission, Verdicts
  <2>3. ~(k < attempts[e])
      BY <1>3, <2>2 DEF IInv, Accounted, AttemptsJustified
  <2>4. attempts[e] = k
      BY <1>3, <2>3
  <2>. QED BY <1>3, <2>2, <2>4 DEF Finished
<1>6. PICK n \in Calls : n = NextSlot(t) /\ Holds(n)
    BY <1>1, <1>2, <1>5, NextSlotHolds DEF IInv
<1>7. CASE UNCHANGED retired /\ (Same(t, n) \/ Same(t, Idle))
  <2>1. Still
      BY <1>7 DEF Retire, Still, decisions
  <2>. QED BY <1>6, <1>7, <2>1, IdleHolds, ByReading
<1>8. CASE retired' = retired \cup {e} /\ Added(t, n)
  <2>1. UNCHANGED <<attempts, assigned, outcome, terminal, cancelled, facts>>
      BY DEF Retire
  <2>2. retired' \subseteq Entries /\ cancelled \in BOOLEAN
      BY <1>3, <1>8 DEF IInv, Accounted, Typed
  <2>3. \A f \in retired' \ retired : Finished(f) \/ cancelled'
      BY <1>3, <1>5, <1>8, <2>1
  <2>4. Accounted' /\ Onward
      BY <2>1, <2>2, <2>3, RetireMoves DEF IInv
  <2>5. n.at \notin {"assign", "retain"}
      BY <1>6 DEF NextSlot, Idle
  <2>6. Holds(n)'
      BY <1>6, <2>4, <2>5, CarriedOn DEF IInv, Accounted
  <2>7. IInv'
      BY <1>6, <1>8, <2>4, <2>6, ByAdding
  <2>. QED BY <2>1, <2>7 DEF Fenced
<1>9. \/ UNCHANGED retired /\ (Same(t, n) \/ Same(t, Idle))
      \/ retired' = retired \cup {e} /\ Added(t, n)
    BY <1>2, <1>3, <1>6 DEF Retire
<1>. QED BY <1>7, <1>8, <1>9

LEMMA CancelStep ==
    ASSUME IInv, Cancel
    PROVE  IInv' /\ Fenced
<1>1. Accounted' /\ Onward
  <2>1. cancelled' \in BOOLEAN /\ retired' \subseteq Entries /\ (cancelled => cancelled')
      BY DEF Cancel, IInv, Accounted, Typed
  <2>2. \A e \in retired' \ retired : Finished(e) \/ cancelled'
      BY DEF Cancel
  <2>. QED BY <2>1, <2>2, RetireMoves DEF Cancel, IInv
<1>2. call' \in [Callers -> Calls] /\ Calling'
  <2>1. ASSUME NEW u \in Callers
        PROVE  \E d \in Calls : d = call'[u] /\ Holds(d)'
    <3>1. PICK c \in Calls : c = call[u] /\ Holds(c)
        BY CallIs
    <3>2. PICK s \in Calls : s = Stale(c) /\ Holds(s)'
        BY <1>1, <3>1, StaleKept DEF IInv, Accounted
    <3>3. call'[u] = s
        BY <3>1, <3>2 DEF Cancel
    <3>. QED BY <3>2, <3>3
  <2>2. call' = [u \in Callers |-> call'[u]]
      BY DEF Cancel
  <2>. QED BY <2>1, <2>2 DEF Calling
<1>. QED BY <1>1, <1>2 DEF IInv, Fenced, Cancel

----------------------------------------------------------------------------
(* The invariant.                                                           *)

LEMMA InitHolds == Init => IInv
<1>1. SUFFICES ASSUME Init PROVE IInv
    OBVIOUS
<1>2. Typed
  <2>1. attempts \in [Entries -> 0..MaxAttempts]
      BY <1>1, SizesAssumption DEF Init
  <2>2. \A p \in Pairs : assigned[p] = None /\ verdict[p] = None /\ prepared[p] = None
                          /\ outcome[p] = 0 /\ stage[p] = 0 /\ executors[p] = {}
      BY <1>1 DEF Init
  <2>3. /\ assigned = [p \in Pairs |-> None] /\ verdict = [p \in Pairs |-> None]
        /\ prepared = [p \in Pairs |-> None] /\ outcome = [p \in Pairs |-> 0]
        /\ stage = [p \in Pairs |-> 0] /\ executors = [p \in Pairs |-> {}]
      BY <1>1 DEF Init
  <2>4. /\ assigned \in [Pairs -> Owners \cup {None}]
        /\ outcome \in [Pairs -> {0, 2, 3}] /\ stage \in [Pairs -> 0..3]
        /\ verdict \in [Pairs -> AllVerdicts \cup {None}]
        /\ prepared \in [Pairs -> {None, "ready", "bad"}]
        /\ executors \in [Pairs -> SUBSET (Owners \cup {"runtime"})]
      BY <2>3
  <2>. QED BY <1>1, <2>1, <2>2, <2>4 DEF Init, Typed
<1>3. \A e \in Entries : attempts[e] = 0 /\ ~EntryAssigned(e)
    BY <1>1, EntriesNumbered DEF Init, EntryAssigned
<1>4. Ledger
  <2>1. ASSUME NEW p \in Pairs PROVE PairHolds(p)
      BY <1>1 DEF Init, PairHolds
  <2>. QED BY <1>1, <2>1 DEF Ledger, Init
<1>5. AttemptsJustified
    BY <1>3, EntriesNumbered DEF AttemptsJustified
<1>6. Bounded
  <2>1. OpenEntries = {}
      BY <1>3 DEF OpenEntries
  <2>2. Cardinality(OpenEntries) = 0
      BY <2>1, FS_EmptySet
  <2>. QED BY <2>2, ParallelismAssumption DEF Bounded
<1>7. call \in [Callers -> Calls] /\ Calling
    BY <1>1, IdleHolds DEF Init, Calling
<1>. QED BY <1>2, <1>4, <1>5, <1>6, <1>7 DEF IInv, Accounted

\* Every step keeps the invariant, and assigns nothing that is cancelled.
LEMMA StepHolds == IInv /\ [Next]_vars => IInv' /\ Fenced
<1>1. SUFFICES ASSUME IInv, [Next]_vars PROVE IInv' /\ Fenced
    OBVIOUS
<1>2. ASSUME NEW t \in Callers, NEW e \in Entries, NEW o \in Owners, BeginAssign(t, e, o)
      PROVE  IInv' /\ Fenced
    BY <1>1, <1>2, BeginAssignStep
<1>3. ASSUME NEW t \in Callers, CommitAssign(t)
      PROVE  IInv' /\ Fenced
    BY <1>1, <1>3, CommitAssignStep
<1>4. ASSUME NEW t \in Callers, NEW p \in Pairs, NEW j \in 2..3, BeginIngest(t, p, j)
      PROVE  IInv' /\ Fenced
    BY <1>1, <1>4, BeginIngestStep
<1>5. ASSUME NEW t \in Callers, CommitOutcome(t)
      PROVE  IInv' /\ Fenced
    BY <1>1, <1>5, CommitOutcomeStep
<1>6. ASSUME NEW t \in Callers, RecordIngested(t)
      PROVE  IInv' /\ Fenced
    BY <1>1, <1>6, RecordIngestedStep
<1>7. ASSUME NEW t \in Callers, BeginAdvance(t) \/ \E e \in Entries : BeginSelected(t, e)
      PROVE  IInv' /\ Fenced
    BY <1>1, <1>7, BeginAdvanceStep
<1>8. ASSUME NEW t \in Callers, SkipRetired(t)
      PROVE  IInv' /\ Fenced
    BY <1>1, <1>8, SkipRetiredStep
<1>9. ASSUME NEW t \in Callers, Visit(t)
      PROVE  IInv' /\ Fenced
    BY <1>1, <1>9, VisitStep
<1>10. ASSUME NEW t \in Callers, Reload(t)
       PROVE  IInv' /\ Fenced
    BY <1>1, <1>10, ReloadStep
<1>11. ASSUME NEW t \in Callers, AdvanceUnit(t)
       PROVE  IInv' /\ Fenced
    BY <1>1, <1>11, AdvanceUnitStep
<1>12. ASSUME NEW t \in Callers, FinishWaits(t) \/ Refused(t)
       PROVE  IInv' /\ Fenced
  <2>1. Still /\ Same(t, Idle)
      BY <1>12 DEF FinishWaits, Refused, Still
  <2>. QED BY <1>1, <2>1, IdleHolds, ByReading
<1>13. ASSUME NEW t \in Callers, PrepareRetry(t)
       PROVE  IInv' /\ Fenced
    BY <1>1, <1>13, PrepareRetryStep
<1>14. ASSUME NEW t \in Callers, NewAttempt(t)
       PROVE  IInv' /\ Fenced
    BY <1>1, <1>14, NewAttemptStep
<1>15. ASSUME NEW t \in Callers, Retire(t)
       PROVE  IInv' /\ Fenced
    BY <1>1, <1>15, RetireStep
<1>16. CASE Cancel
    BY <1>1, <1>16, CancelStep
<1>17. ASSUME NEW p \in Pairs, OwnerBegins(p) \/ OwnerCompletes(p) \/ OwnerPrepares(p)
       PROVE  IInv' /\ Fenced
  <2>1. Accounted' /\ Onward /\ UNCHANGED <<decisions, call>>
      BY <1>1, <1>17, OwnerMoves DEF IInv
  <2>2. call' \in [Callers -> Calls] /\ Calling'
      BY <1>1, <2>1, OthersOnly DEF Accounted
  <2>. QED BY <2>1, <2>2 DEF IInv, Fenced, decisions
<1>18. CASE UNCHANGED vars
  <2>1. Still /\ UNCHANGED call
      BY <1>18 DEF vars, Still
  <2>2. Accounted' /\ Onward /\ UNCHANGED decisions
      BY <1>1, <2>1, StillMoves DEF IInv
  <2>3. call' \in [Callers -> Calls] /\ Calling'
      BY <1>1, <2>1, <2>2, OthersOnly DEF Accounted
  <2>. QED BY <2>2, <2>3 DEF IInv, Fenced, decisions
<1>. QED BY <1>1, <1>2, <1>3, <1>4, <1>5, <1>6, <1>7, <1>8, <1>9, <1>10, <1>11, <1>12,
             <1>13, <1>14, <1>15, <1>16, <1>17, <1>18 DEF Next

LEMMA Always == Spec => []IInv
<1>1. IInv /\ [Next]_vars => IInv'
    BY StepHolds
<1>. QED BY <1>1, InitHolds, PTL DEF Spec

----------------------------------------------------------------------------
(* The theorems.                                                            *)

\* Every decision, fact and position of a call keeps its type.
THEOREM TypeCorrect == Spec => []TypeOK
<1>1. IInv => TypeOK
  <2>1. SUFFICES ASSUME IInv PROVE TypeOK
      OBVIOUS
  <2>2. \A t \in Callers : call[t].at \in
           {"idle", "assign", "retain", "terminal", "visit", "claimed", "unit", "finish"}
      BY <2>1, CallsAre DEF IInv
  <2>. QED BY <2>1, <2>2 DEF IInv, Accounted, Typed, TypeOK
<1>. QED BY <1>1, Always, PTL

\* Each attempt has one executor, and no more entries are in flight than the
\* admitted parallelism allows, for any number of callers, owners and entries.
THEOREM ExecutionBoundedAlways == Spec => []ExecutionBounded
<1>1. IInv => OneExecutor
  <2>1. SUFFICES ASSUME IInv, NEW p \in Pairs PROVE Cardinality(executors[p]) <= 1
      BY DEF OneExecutor
  <2>2. PICK x : executors[p] \subseteq {x}
      BY <2>1, Settled DEF IInv, PairHolds
  <2>3. IsFiniteSet({x}) /\ Cardinality({x}) = 1
      BY FS_Singleton
  <2>4. Cardinality(executors[p]) <= Cardinality({x})
      BY <2>2, <2>3, FS_Subset
  <2>. QED BY <2>3, <2>4
<1>2. IInv => WithinCapacity
  <2>1. SUFFICES ASSUME IInv PROVE WithinCapacity
      OBVIOUS
  <2>2. {e \in Entries : InFlight(e)} \subseteq OpenEntries /\ OpenEntries \subseteq Entries
    <3>1. ASSUME NEW e \in Entries, InFlight(e) PROVE ~Finished(e)
        BY <3>1 DEF InFlight, Finished, Permission
    <3>. QED BY <3>1 DEF OpenEntries, InFlight
  <2>3. /\ Cardinality({e \in Entries : InFlight(e)}) <= Cardinality(OpenEntries)
        /\ Cardinality({e \in Entries : InFlight(e)}) \in Nat /\ Cardinality(OpenEntries) \in Nat
      BY <2>2, Fewer
  <2>. QED BY <2>1, <2>3, ParallelismAssumption DEF WithinCapacity, IInv, Accounted, Bounded
<1>. QED BY <1>1, <1>2, Always, PTL DEF ExecutionBounded

\* An entry gets another attempt only over a recorded failure that is undone,
\* and the entries begin in the order of the schedule.
THEOREM AttemptsJustifiedAlways == Spec => []AttemptsJustified
<1>1. IInv => AttemptsJustified
    BY DEF IInv, Accounted
<1>. QED BY <1>1, Always, PTL

\* Once a cancellation is on the ledger nothing is assigned any more, whatever
\* a call has read before it.
THEOREM CancelFencesAssignmentAlways == Spec => CancelFencesAssignment
<1>1. IInv /\ [Next]_vars => [cancelled => assigned' = assigned]_vars
    BY StepHolds DEF Fenced
<1>. QED BY <1>1, Always, PTL DEF Spec, CancelFencesAssignment

====
