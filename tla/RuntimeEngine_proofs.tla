------------------------- MODULE RuntimeEngine_proofs -------------------------
(****************************************************************************)
(* The engine and its run contexts, for any number of runs, of threads, of  *)
(* calls and of faults.                                                     *)
(*                                                                          *)
(* A context gets the target by reserve, which looks at every other context *)
(* of the process and at the decisions of the ledger.  Why that is enough   *)
(* is spread over the engine: InProcess says what the contexts of a process *)
(* and its phases have in common, OnTarget whose work the target carries,   *)
(* and Bound when the claim on the backend is free for another engine.      *)
(****************************************************************************)
EXTENDS RuntimeEngine, TLAPS

Inside == Positions \ {"step"}
Mutating == {"gated", "admitted", "effect"}
Effecting == {"admitted", "effect"}

\* Retirements that were recorded while their caller waited.
Verified == retired \ doubtful

InProcess ==
    /\ phase \in {"open", "closing", "closed"} => Owner \in live
    /\ phase \notin {"open", "closing"} =>
           callbacks = {} /\ retiring = None /\ closer = "idle"
    /\ \A t \in Threads : job[t] # None /\ job[t].at \in Inside =>
           job[t].ctx \in live /\ phase \in {"open", "closing"}
    /\ \A t, u \in Threads :
           job[t] # None /\ job[t].at \in Mutating /\ job[u] # None
             /\ job[u].at \in Mutating /\ job[t].ctx = job[u].ctx => t = u
    /\ live \subseteq opened \cup {Owner}
    /\ live \cap Verified \subseteq gone /\ gone \subseteq retired

OnTarget ==
    /\ \A t \in Threads : job[t] # None /\ job[t].at \in Effecting =>
           /\ reserved = job[t].ctx
           /\ job[t].ctx \notin Verified /\ job[t].ctx # retiring
    /\ callbacks \subseteq {reserved}
    /\ retiring # None => retiring \notin Loose
    /\ Loose \subseteq opened \cup {Owner} /\ Loose \cap Verified = {}
    /\ reserved # None => Known \subseteq {reserved}
    /\ \A c, d \in Known : c = d

Bound ==
    /\ claim.by = "rival" => phase \in {"closed", "dropped"}
    /\ claim.by \in {None, "rival"} /\ phase = "closed" =>
           \A c \in live : op[c] = "none"

IInv == TypeOK /\ InProcess /\ OnTarget /\ Bound

\* A step as the target sees it: it concerns one context, which alone has or
\* may take the target, and adds work only under its reservation.
Turn(c) ==
    /\ {reserved, reserved'} \subseteq {None, c}
    /\ Known \subseteq {c} /\ Known' \subseteq {c}
    /\ Known' \subseteq Known \/ (reserved = c /\ reserved' = c)

Cut ==
    \/ reserved' = reserved /\ Known' = Known
    \/ \E c \in Contexts : Turn(c)

--------------------------------------------------------------------------------
(* What a step makes of the target and of the threads                         *)

JobRecords == [ctx : Contexts, at : Positions, claimed : BOOLEAN]

\* Thread t goes on to a position in its context.
Moved(t, at) ==
    /\ job' \in [Threads -> JobRecords \cup {None}]
    /\ job'[t].at = at /\ job'[t].ctx = job[t].ctx
    /\ \A u \in Threads \ {t} : job'[u] = job[u]

LEMMA GoMoves ==
    ASSUME TypeOK, NEW t \in Threads, job[t] # None, NEW at \in Positions,
           \/ job' = [job EXCEPT ![t].at = at]
           \/ job' = [job EXCEPT ![t].at = at, ![t].claimed = TRUE]
    PROVE  Moved(t, at)
  <1>1. job \in [Threads -> JobRecords \cup {None}] /\ job[t] \in JobRecords
    BY DEF TypeOK, JobRecords
  <1>2. PICK b \in BOOLEAN : job' = [job EXCEPT ![t] = [job[t] EXCEPT !.at = at, !.claimed = b]]
    <2>1. CASE job' = [job EXCEPT ![t].at = at]
      <3>1. [job[t] EXCEPT !.at = at] = [job[t] EXCEPT !.at = at, !.claimed = job[t].claimed]
        BY <1>1
      <3> QED
        BY <1>1, <2>1, <3>1 DEF JobRecords
    <2>2. CASE job' = [job EXCEPT ![t].at = at, ![t].claimed = TRUE]
      BY <1>1, <2>2
    <2> QED
      BY <2>1, <2>2
  <1>3. [job[t] EXCEPT !.at = at, !.claimed = b] \in JobRecords
    BY <1>1 DEF JobRecords
  <1> QED
    BY <1>1, <1>2, <1>3 DEF Moved

\* Nothing on the target changes, and nobody comes to work on it.
LEMMA TargetStill ==
    ASSUME OnTarget,
           UNCHANGED <<opened, retired, doubtful, op, entries, callbacks, reserved, retiring>>,
           \A t \in Threads : job'[t] # None /\ job'[t].at \in Effecting =>
               job[t] # None /\ job[t].at \in Effecting /\ job'[t].ctx = job[t].ctx
    PROVE  OnTarget' /\ Cut
  <1>1. UNCHANGED <<Loose, Known, Verified>>
    BY DEF Loose, Known, Verified
  <1> QED
    BY <1>1 DEF OnTarget, Cut

\* reserve: no other context has anything on the target.
LEMMA ReservedAlone ==
    ASSUME TypeOK, InProcess, OnTarget, NEW c \in live, Reservable(c)
    PROVE  /\ c \in Contexts /\ Known \subseteq {c} /\ callbacks \subseteq {c}
           /\ c \notin Verified /\ retiring = None /\ phase = "open" /\ reserved \in {None, c}
  <1>1. c \in Contexts /\ c \notin Verified /\ retiring = None /\ phase = "open" /\ reserved \in {None, c}
    BY DEF TypeOK, InProcess, Reservable
  <1>2. callbacks \subseteq {c}
    BY <1>1, EngineNames DEF TypeOK, OnTarget, Contexts
  <1>3. ASSUME NEW d \in Known PROVE d = c
    <2> SUFFICES ASSUME d # c PROVE FALSE
      OBVIOUS
    <2>1. d \in Contexts /\ d \in Loose /\ d \notin retired
      BY DEF Known, Loose, OnTarget, Verified
    <2>2. d \in live
      BY <1>1, <2>1 DEF InProcess, OnTarget, Reservable, Restored
    <2>3. op[d] = "none" /\ d \notin entries
      BY <2>1, <2>2 DEF InProcess, Reservable, OthersIdle, Unresolved
    <2> QED
      BY <1>2, <2>1, <2>3 DEF Loose
  <1> QED
    BY <1>1, <1>2, <1>3

LEMMA TakesTarget ==
    ASSUME TypeOK, InProcess, OnTarget, NEW c \in live, Reservable(c), reserved' = c,
           UNCHANGED <<opened, retired, doubtful, op, entries, callbacks, retiring>>,
           \A t \in Threads : job'[t] # None /\ job'[t].at \in Effecting =>
               \/ job[t] # None /\ job[t].at \in Effecting /\ job'[t].ctx = job[t].ctx
               \/ job'[t].ctx = c
    PROVE  OnTarget' /\ Cut
  <1>1. UNCHANGED <<Loose, Known, Verified>>
    BY DEF Loose, Known, Verified
  <1>2. /\ c \in Contexts /\ Known \subseteq {c} /\ callbacks \subseteq {c}
        /\ c \notin Verified /\ retiring = None /\ phase = "open" /\ reserved \in {None, c}
    BY ReservedAlone
  <1>3. Cut
    BY <1>1, <1>2 DEF Cut, Turn
  <1>4. c # None /\ \A t \in Threads : job[t] # None => job[t].ctx # None
    BY <1>2, EngineNames DEF TypeOK, Contexts
  <1>5. ASSUME NEW t \in Threads, job'[t] # None, job'[t].at \in Effecting
        PROVE  c = job'[t].ctx
    BY <1>2, <1>4, <1>5 DEF OnTarget
  <1> QED
    BY <1>1, <1>2, <1>3, <1>4, <1>5 DEF OnTarget

\* Only the work of c on the target changes, and no reservation: it gets more
\* under its reservation alone.
LEMMA WorkMoves ==
    ASSUME TypeOK, OnTarget, NEW c \in Contexts,
           UNCHANGED <<opened, retired, doubtful, reserved, retiring>>,
           \A d \in Contexts \ {c} : d \in Loose' <=> d \in Loose,
           callbacks' \subseteq callbacks \cup {c},
           c \in Loose' => c \in opened \cup {Owner} /\ c \notin Verified /\ c # retiring,
           c \in Loose' => c \in Loose \/ reserved = c,
           c \in callbacks' => c \in callbacks \/ reserved = c,
           \A t \in Threads : job'[t] # None /\ job'[t].at \in Effecting =>
               job[t] # None /\ job[t].at \in Effecting /\ job'[t].ctx = job[t].ctx
    PROVE  OnTarget' /\ Cut
  <1>1. Verified' = Verified
    BY DEF Verified
  <1>2. Loose \subseteq Contexts /\ Loose' \subseteq Contexts
    BY DEF Loose
  <1>3. \A d \in Contexts \ {c} : d \in Known' <=> d \in Known
    BY DEF Known
  <1>4. Known \subseteq Contexts /\ Known' \subseteq Contexts
    BY <1>2 DEF Known
  <1>5. c \in Known' => c \in Known \/ reserved = c
    BY DEF Known
  <1>6. reserved # None => Known' \subseteq {reserved}
    BY <1>3, <1>4, <1>5 DEF OnTarget
  <1>7. \A d, e \in Known' : d = e
    BY <1>3, <1>4, <1>5, EngineNames DEF OnTarget, Contexts
  <1>8. Cut
    <2>1. CASE c \in Known /\ c \notin Known'
      <3>1. Known = {c} /\ Known' = {} /\ reserved \in {None, c}
        BY <1>3, <1>4, <2>1 DEF OnTarget
      <3> QED
        BY <3>1 DEF Cut, Turn
    <2>2. CASE c \notin Known /\ c \in Known'
      <3>1. reserved = c /\ Known = {} /\ Known' = {c}
        BY <1>3, <1>4, <1>5, <1>6, <2>2, EngineNames DEF Contexts
      <3> QED
        BY <3>1 DEF Cut, Turn
    <2>3. CASE c \in Known <=> c \in Known'
      <3>1. Known' = Known
        BY <1>3, <1>4, <2>3
      <3> QED
        BY <3>1 DEF Cut
    <2> QED
      BY <2>1, <2>2, <2>3
  <1>9. callbacks' \subseteq {reserved}
    BY DEF OnTarget
  <1>10. retiring # None => retiring \notin Loose'
    BY <1>2 DEF OnTarget
  <1>11. Loose' \subseteq opened \cup {Owner} /\ Loose' \cap Verified = {}
    BY <1>2 DEF OnTarget
  <1> QED
    BY <1>1, <1>6, <1>7, <1>8, <1>9, <1>10, <1>11 DEF OnTarget

\* A new process, or none: callbacks and the reservation are gone, and what a
\* lost process left is classified.
LEMMA ProcessChanges ==
    ASSUME TypeOK, OnTarget, retired' = retired, doubtful' = doubtful,
           opened \subseteq opened', entries' = entries, callbacks' = {},
           reserved' = None, retiring' = None,
           op' \in [Contexts -> {"none", "open", "unknown"}],
           \A d \in Contexts : op'[d] # "none" => op[d] # "none",
           \A t \in Threads : ~(job'[t] # None /\ job'[t].at \in Effecting)
    PROVE  OnTarget' /\ Cut
  <1>1. Verified' = Verified /\ Loose' \subseteq Loose /\ Known' \subseteq Known /\ Known \subseteq Contexts
    BY DEF Verified, Loose, Known
  <1>2. OnTarget'
    BY <1>1 DEF OnTarget
  <1>3. Cut
    <2>1. CASE reserved # None
      <3>1. reserved \in Contexts /\ Known \subseteq {reserved}
        BY <2>1 DEF TypeOK, OnTarget
      <3> QED
        BY <1>1, <3>1 DEF Cut, Turn
    <2>2. CASE reserved = None /\ Known' = Known
      BY <2>2 DEF Cut
    <2>3. CASE reserved = None /\ Known' # Known
      <3>1. PICK c : c \in Known
        BY <1>1, <2>3
      <3>2. c \in Contexts /\ Known \subseteq {c}
        BY <1>1, <3>1 DEF OnTarget
      <3> QED
        BY <1>1, <2>3, <3>2 DEF Cut, Turn
    <2> QED
      BY <2>1, <2>2, <2>3
  <1> QED
    BY <1>2, <1>3

--------------------------------------------------------------------------------
(* The inductive invariant                                                    *)

LEMMA InitIInv == Init => IInv
  <1> SUFFICES ASSUME Init PROVE IInv
    OBVIOUS
  <1> USE EngineNames, EngineBounds DEF Init, Contexts
  <1>1. TypeOK
    <2>1. job \in [Threads -> [ctx : Contexts, at : Positions, claimed : BOOLEAN] \cup {None}]
      OBVIOUS
    <2>2. claim \in [by : {None, "engine", "rival"}, closed : BOOLEAN, unresolved : BOOLEAN]
      BY DEF Unclaimed
    <2>3. left \in 0 .. MaxCalls /\ faults \in 0 .. MaxFaults
      OBVIOUS
    <2> QED
      BY <2>1, <2>2, <2>3 DEF TypeOK
  <1>2. InProcess
    BY DEF InProcess, Verified
  <1>3. Loose = {} /\ Known = {}
    BY DEF Loose, Known
  <1>4. OnTarget
    BY <1>3 DEF OnTarget
  <1>5. Bound
    BY DEF Bound, Unclaimed
  <1> QED
    BY <1>1, <1>2, <1>4, <1>5 DEF IInv

\* The threads of a step: thread t goes on, and if it begins to mutate its
\* context no other thread does.
LEMMA ThreadsMove ==
    ASSUME TypeOK, InProcess, NEW t \in Threads, job[t] # None, NEW at \in Positions,
           Moved(t, at), UNCHANGED <<phase, live>>,
           at \in Inside => job[t].ctx \in live /\ phase \in {"open", "closing"},
           at \in Mutating => job[t].at \in Mutating \/ GateFree(job[t].ctx),
           live' \subseteq opened' \cup {Owner},
           live' \cap Verified' \subseteq gone', gone' \subseteq retired',
           phase \notin {"open", "closing"} =>
               callbacks' = {} /\ retiring' = None /\ closer' = "idle"
    PROVE  InProcess'
  <1>1. \A u \in Threads : job'[u] # None /\ job'[u].at \in Inside =>
            job'[u].ctx \in live /\ phase \in {"open", "closing"}
    BY DEF Moved, InProcess
  <1>2. ASSUME NEW u \in Threads, NEW v \in Threads,
               job'[u] # None, job'[u].at \in Mutating, job'[v] # None,
               job'[v].at \in Mutating, job'[u].ctx = job'[v].ctx
        PROVE  u = v
    <2>1. CASE u # t /\ v # t
      BY <1>2, <2>1 DEF Moved, InProcess
    <2>2. ASSUME NEW x \in Threads \ {t}, job'[x] # None, job'[x].at \in Mutating,
                 job'[x].ctx = job'[t].ctx, at \in Mutating
          PROVE  FALSE
      <3>1. job[x] # None /\ job[x].at \in Mutating /\ job[x].ctx = job[t].ctx
        BY <2>2 DEF Moved
      <3> QED
        BY <2>2, <3>1 DEF InProcess, GateFree, At, Mutating
    <2>3. job'[t].at = at
      BY DEF Moved
    <2> QED
      BY <1>2, <2>1, <2>2, <2>3
  <1> QED
    BY <1>1, <1>2 DEF InProcess

\* Every step of a caller, of retirement, of close and of the loss of the
\* process keeps it, and is a turn of one context on the target.
LEMMA StepKeepsIInv == IInv /\ [Next]_vars => IInv' /\ Cut
  <1> SUFFICES ASSUME IInv, [Next]_vars PROVE IInv' /\ Cut
    OBVIOUS
  <1> USE EngineNames, EngineBounds
  <1>0. /\ TypeOK /\ InProcess /\ OnTarget /\ Bound
        /\ job \in [Threads -> JobRecords \cup {None}]
    BY DEF IInv, TypeOK, JobRecords
  <1>Enter. ASSUME NEW t \in Threads, NEW c \in Contexts, Enter(t, c) PROVE IInv' /\ Cut
    <2>1. PICK j \in JobRecords : /\ job' = [job EXCEPT ![t] = j]
                                  /\ j.ctx = c /\ j.at = "entered"
      <3>1. [ctx |-> c, at |-> "entered", claimed |-> FALSE] \in JobRecords
        BY DEF JobRecords, Positions
      <3> QED
        BY <1>Enter, <3>1 DEF Enter
    <2>2. job'[t] = j /\ (\A u \in Threads \ {t} : job'[u] = job[u]) /\ job' \in [Threads -> JobRecords \cup {None}]
      BY <1>0, <2>1
    <2>3. UNCHANGED <<durable, engine, claim, doubtful>> /\ Enterable(c)
      BY <1>Enter DEF Enter
    <2>4. OnTarget' /\ Cut
      BY <1>0, <2>1, <2>2, <2>3, TargetStill DEF Effecting, durable, engine
    <2>5. InProcess'
      BY <1>0, <2>1, <2>2, <2>3
         DEF InProcess, Verified, Mutating, Enterable, durable, engine
    <2>6. Bound'
      BY <1>0, <2>3 DEF Bound, durable, engine
    <2>7. \A u \in Threads : job'[u] # None /\ job'[u].at = "effect" => op'[job'[u].ctx] = "open"
      BY <1>0, <2>1, <2>2, <2>3 DEF TypeOK, durable
    <2>8. TypeOK'
      <3>1. left' \in 0 .. MaxCalls
        BY <1>0, <1>Enter DEF Enter, TypeOK
      <3> QED
        BY <1>0, <1>Enter, <2>2, <2>3, <2>7, <3>1
           DEF Enter, TypeOK, JobRecords, durable, engine
    <2> QED
      BY <2>4, <2>5, <2>6, <2>8 DEF IInv
  <1>ReserveStep. ASSUME NEW t \in Threads, NEW c \in Contexts, ReserveStep(t, c) PROVE IInv' /\ Cut
    <2>1. PICK j \in JobRecords : /\ job' = [job EXCEPT ![t] = j]
                                  /\ j.ctx = c /\ j.at = "step"
      <3>1. [ctx |-> c, at |-> "step", claimed |-> FALSE] \in JobRecords
        BY DEF JobRecords, Positions
      <3> QED
        BY <1>ReserveStep, <3>1 DEF ReserveStep
    <2>2. job'[t] = j /\ (\A u \in Threads \ {t} : job'[u] = job[u]) /\ job' \in [Threads -> JobRecords \cup {None}]
      BY <1>0, <2>1
    <2>3. /\ UNCHANGED <<durable, phase, live, gone, halted, poisoned, shut, retiring, closer,
                         callbacks, late, claim, doubtful>>
          /\ c \in live /\ Reservable(c) /\ reserved' = c
      BY <1>ReserveStep DEF ReserveStep
    <2>4. OnTarget' /\ Cut
      BY <1>0, <2>1, <2>2, <2>3, TakesTarget DEF durable
    <2>5. InProcess'
      BY <1>0, <2>1, <2>2, <2>3
         DEF InProcess, Verified, Mutating, Inside, durable
    <2>6. Bound'
      BY <1>0, <2>3 DEF Bound, durable
    <2>7. \A u \in Threads : job'[u] # None /\ job'[u].at = "effect" => op'[job'[u].ctx] = "open"
      BY <1>0, <2>1, <2>2, <2>3 DEF TypeOK, durable
    <2>8. TypeOK'
      <3>1. left' \in 0 .. MaxCalls
        BY <1>0, <1>ReserveStep DEF ReserveStep, TypeOK
      <3> QED
        BY <1>0, <1>ReserveStep, <2>2, <2>3, <2>7, <3>1
           DEF ReserveStep, TypeOK, JobRecords, durable
    <2> QED
      BY <2>4, <2>5, <2>6, <2>8 DEF IInv
  <1>EnterStep. ASSUME NEW t \in Threads, EnterStep(t) PROVE IInv' /\ Cut
    <2>1. job[t] # None /\ job[t] \in JobRecords
      BY <1>0, <1>EnterStep DEF EnterStep
    <2>2. PICK c \in Contexts : c = job[t].ctx
      BY <2>1 DEF JobRecords
    <2>3. Moved(t, "gated")
      BY <1>0, <1>EnterStep, <2>1, GoMoves DEF EnterStep, Positions
    <2>4. OnTarget' /\ Cut
      BY <1>0, <1>EnterStep, <2>1, <2>3, TargetStill
         DEF EnterStep, Effecting, durable, engine
    <2>5. InProcess'
      <3>1. live' \subseteq opened' \cup {Owner} /\ live' \cap Verified' \subseteq gone' /\ gone' \subseteq retired'
        BY <1>0, <1>EnterStep
           DEF EnterStep, InProcess, Verified, durable, engine
      <3>2. UNCHANGED <<phase, live, retiring, closer>>
        BY <1>EnterStep DEF EnterStep, engine
      <3>3. job[t].ctx \in live /\ phase \in {"open", "closing"}
        BY <1>0, <1>EnterStep, <2>1 DEF EnterStep, Enterable
      <3>4. job[t].at \in Mutating \/ GateFree(job[t].ctx) \/ "gated" \notin Mutating
        BY <1>EnterStep DEF EnterStep
      <3> QED
        BY <1>0, <2>1, <2>3, <3>1, <3>2, <3>3, <3>4, ThreadsMove DEF Positions
    <2>6. Bound'
      BY <1>0, <1>EnterStep DEF EnterStep, Bound, durable, engine
    <2>7. \A u \in Threads : job'[u] # None /\ job'[u].at = "effect" => op'[job'[u].ctx] = "open"
      BY <1>0, <1>EnterStep, <2>1, <2>2, <2>3 DEF EnterStep, TypeOK, durable
    <2>8. TypeOK'
      BY <1>0, <1>EnterStep, <2>3, <2>7
         DEF EnterStep, TypeOK, JobRecords, Moved, durable, engine, bounds
    <2> QED
      BY <2>4, <2>5, <2>6, <2>8 DEF IInv
  <1>Gate. ASSUME NEW t \in Threads, Gate(t) PROVE IInv' /\ Cut
    <2>1. job[t] # None /\ job[t] \in JobRecords
      BY <1>0, <1>Gate DEF Gate
    <2>2. PICK c \in Contexts : c = job[t].ctx
      BY <2>1 DEF JobRecords
    <2>3. Moved(t, "gated")
      BY <1>0, <1>Gate, <2>1, GoMoves DEF Gate, Go, Positions
    <2>4. OnTarget' /\ Cut
      <3>1. \A u \in Threads : job'[u] # None /\ job'[u].at \in Effecting =>
               job[u] # None /\ job[u].at \in Effecting /\ job'[u].ctx = job[u].ctx
        BY <2>3 DEF Moved, Effecting
      <3>2. UNCHANGED <<opened, retired, doubtful, op, entries, callbacks, retiring>>
        BY <1>Gate DEF Gate, durable
      <3>3. CASE reserved' = reserved
        BY <1>0, <3>1, <3>2, <3>3, TargetStill
      <3>4. CASE Reservable(c) /\ reserved' = c
        <4>1. c \in live
          BY <1>0, <1>Gate, <2>1, <2>2 DEF Gate, InProcess, Inside, Positions
        <4> QED
          BY <1>0, <3>1, <3>2, <3>4, <4>1, TakesTarget
      <3> QED
        BY <1>Gate, <2>2, <3>3, <3>4 DEF Gate
    <2>5. InProcess'
      <3>1. live' \subseteq opened' \cup {Owner} /\ live' \cap Verified' \subseteq gone' /\ gone' \subseteq retired'
        BY <1>0, <1>Gate DEF Gate, InProcess, Verified, durable
      <3>2. UNCHANGED <<phase, live, retiring, closer>>
        BY <1>Gate DEF Gate
      <3>3. job[t].ctx \in live /\ phase \in {"open", "closing"}
        BY <1>0, <1>Gate, <2>1 DEF Gate, InProcess, Inside, Positions
      <3>4. job[t].at \in Mutating \/ GateFree(job[t].ctx) \/ "gated" \notin Mutating
        BY <1>Gate DEF Gate
      <3> QED
        BY <1>0, <2>1, <2>3, <3>1, <3>2, <3>3, <3>4, ThreadsMove DEF Positions
    <2>6. Bound'
      BY <1>0, <1>Gate DEF Gate, Bound, durable
    <2>7. \A u \in Threads : job'[u] # None /\ job'[u].at = "effect" => op'[job'[u].ctx] = "open"
      BY <1>0, <1>Gate, <2>1, <2>2, <2>3 DEF Gate, TypeOK, Moved, durable
    <2>8. TypeOK'
      <3>1. reserved' \in live \cup {None}
        BY <1>0, <1>Gate, <2>1 DEF Gate, TypeOK, InProcess, Inside
      <3> QED
        BY <1>0, <1>Gate, <2>3, <2>7, <3>1
           DEF Gate, TypeOK, JobRecords, Moved, durable, bounds
    <2> QED
      BY <2>4, <2>5, <2>6, <2>8 DEF IInv
  <1>AdmitEffect. ASSUME NEW t \in Threads, AdmitEffect(t) PROVE IInv' /\ Cut
    <2>1. job[t] # None /\ job[t] \in JobRecords
      BY <1>0, <1>AdmitEffect DEF AdmitEffect
    <2>2. PICK c \in Contexts : c = job[t].ctx
      BY <2>1 DEF JobRecords
    <2>3. Moved(t, "admitted")
      BY <1>0, <1>AdmitEffect, <2>1, GoMoves DEF AdmitEffect, Go, Positions
    <2>4. OnTarget' /\ Cut
      <3>1. \A u \in Threads : job'[u] # None /\ job'[u].at \in Effecting =>
               \/ job[u] # None /\ job[u].at \in Effecting /\ job'[u].ctx = job[u].ctx
               \/ job'[u].ctx = c
        BY <2>2, <2>3 DEF Moved
      <3>2. UNCHANGED <<opened, retired, doubtful, op, entries, callbacks, retiring>>
        BY <1>AdmitEffect DEF AdmitEffect, durable
      <3>3. c \in live /\ Reservable(c) /\ reserved' = c
        BY <1>0, <1>AdmitEffect, <2>1, <2>2
           DEF AdmitEffect, InProcess, Inside, Positions
      <3> QED
        BY <1>0, <3>1, <3>2, <3>3, TakesTarget
    <2>5. InProcess'
      <3>1. live' \subseteq opened' \cup {Owner} /\ live' \cap Verified' \subseteq gone' /\ gone' \subseteq retired'
        BY <1>0, <1>AdmitEffect DEF AdmitEffect, InProcess, Verified, durable
      <3>2. UNCHANGED <<phase, live, retiring, closer>>
        BY <1>AdmitEffect DEF AdmitEffect
      <3>3. job[t].ctx \in live /\ phase \in {"open", "closing"}
        BY <1>0, <1>AdmitEffect, <2>1
           DEF AdmitEffect, InProcess, Inside, Positions
      <3>4. job[t].at \in Mutating \/ GateFree(job[t].ctx) \/ "admitted" \notin Mutating
        BY <1>AdmitEffect DEF AdmitEffect, Mutating
      <3> QED
        BY <1>0, <2>1, <2>3, <3>1, <3>2, <3>3, <3>4, ThreadsMove DEF Positions
    <2>6. Bound'
      BY <1>0, <1>AdmitEffect DEF AdmitEffect, Bound, durable
    <2>7. \A u \in Threads : job'[u] # None /\ job'[u].at = "effect" => op'[job'[u].ctx] = "open"
      BY <1>0, <1>AdmitEffect, <2>1, <2>2, <2>3
         DEF AdmitEffect, TypeOK, Moved, durable
    <2>8. TypeOK'
      <3>1. reserved' \in live \cup {None}
        BY <1>0, <1>AdmitEffect, <2>1
           DEF AdmitEffect, InProcess, Inside, Positions
      <3> QED
        BY <1>0, <1>AdmitEffect, <2>3, <2>7, <3>1
           DEF AdmitEffect, TypeOK, JobRecords, Moved, durable, bounds
    <2> QED
      BY <2>4, <2>5, <2>6, <2>8 DEF IInv
  <1>ClaimRecord. ASSUME NEW t \in Threads, ClaimRecord(t) PROVE IInv' /\ Cut
    <2>1. job[t] # None /\ job[t] \in JobRecords
      BY <1>0, <1>ClaimRecord DEF ClaimRecord
    <2>2. PICK c \in Contexts : c = job[t].ctx
      BY <2>1 DEF JobRecords
    <2>3. Moved(t, "effect")
      BY <1>0, <1>ClaimRecord, <2>1, GoMoves DEF ClaimRecord, Go, Positions
    <2>4. OnTarget' /\ Cut
      <3>1. /\ UNCHANGED <<opened, retired, doubtful, reserved, retiring, callbacks, entries>>
            /\ op' = [op EXCEPT ![c] = "open"]
        BY <1>ClaimRecord, <2>2 DEF ClaimRecord, engine
      <3>2. \A d \in Contexts \ {c} : d \in Loose' <=> d \in Loose
        BY <1>0, <3>1 DEF Loose
      <3>3. c \in live /\ reserved = c /\ c \notin Verified /\ c # retiring
        BY <1>0, <1>ClaimRecord, <2>1, <2>2
           DEF ClaimRecord, InProcess, OnTarget, Inside, Positions, Effecting
      <3>4. c \in opened \cup {Owner}
        BY <1>0, <3>3 DEF InProcess
      <3>5. \A u \in Threads : job'[u] # None /\ job'[u].at \in Effecting =>
               job[u] # None /\ job[u].at \in Effecting /\ job'[u].ctx = job[u].ctx
        BY <1>ClaimRecord, <2>3 DEF ClaimRecord, Moved, Effecting
      <3> QED
        BY <1>0, <3>1, <3>2, <3>3, <3>4, <3>5, WorkMoves
    <2>5. InProcess'
      <3>1. live' \subseteq opened' \cup {Owner} /\ live' \cap Verified' \subseteq gone' /\ gone' \subseteq retired'
        BY <1>0, <1>ClaimRecord DEF ClaimRecord, InProcess, Verified, engine
      <3>2. UNCHANGED <<phase, live, retiring, closer>>
        BY <1>ClaimRecord DEF ClaimRecord, engine
      <3>3. job[t].ctx \in live /\ phase \in {"open", "closing"}
        BY <1>0, <1>ClaimRecord, <2>1
           DEF ClaimRecord, InProcess, Inside, Positions
      <3>4. job[t].at \in Mutating \/ GateFree(job[t].ctx) \/ "effect" \notin Mutating
        BY <1>ClaimRecord DEF ClaimRecord, Mutating
      <3> QED
        BY <1>0, <2>1, <2>3, <3>1, <3>2, <3>3, <3>4, ThreadsMove DEF Positions
    <2>6. Bound'
      <3>1. phase \in {"open", "closing"}
        BY <1>0, <1>ClaimRecord, <2>1
           DEF ClaimRecord, InProcess, Inside, Positions
      <3> QED
        BY <1>0, <1>ClaimRecord, <3>1 DEF ClaimRecord, Bound, engine
    <2>7. \A u \in Threads : job'[u] # None /\ job'[u].at = "effect" => op'[job'[u].ctx] = "open"
      BY <1>0, <1>ClaimRecord, <2>1, <2>2, <2>3 DEF ClaimRecord, TypeOK, Moved
    <2>8. TypeOK'
      BY <1>0, <1>ClaimRecord, <2>3, <2>7
         DEF ClaimRecord, TypeOK, JobRecords, Moved, engine, bounds
    <2> QED
      BY <2>4, <2>5, <2>6, <2>8 DEF IInv
  <1>SettleEffect. ASSUME NEW t \in Threads, SettleEffect(t) PROVE IInv' /\ Cut
    <2>1. job[t] # None /\ job[t] \in JobRecords
      BY <1>0, <1>SettleEffect DEF SettleEffect
    <2>2. PICK c \in Contexts : c = job[t].ctx
      BY <2>1 DEF JobRecords
    <2>3. Moved(t, "gated")
      BY <1>0, <1>SettleEffect, <2>1, GoMoves DEF SettleEffect, Go, Positions
    <2>4. OnTarget' /\ Cut
      <3>1. /\ UNCHANGED <<opened, retired, doubtful, reserved, retiring>>
            /\ callbacks' \subseteq callbacks \cup {c}
            /\ op' \in {op, [op EXCEPT ![c] = "none"], [op EXCEPT ![c] = "unknown"]}
            /\ entries' \in {entries, entries \cup {c}, entries \ {c}}
            /\ callbacks \subseteq callbacks'
        BY <1>SettleEffect, <2>2 DEF SettleEffect
      <3>2. \A d \in Contexts \ {c} : d \in Loose' <=> d \in Loose
        BY <1>0, <3>1 DEF Loose, TypeOK
      <3>3. c \in live /\ reserved = c /\ c \notin Verified /\ c # retiring
        BY <1>0, <1>SettleEffect, <2>1, <2>2
           DEF SettleEffect, InProcess, OnTarget, Inside, Positions, Effecting
      <3>4. c \in opened \cup {Owner}
        BY <1>0, <3>3 DEF InProcess
      <3>5. \A u \in Threads : job'[u] # None /\ job'[u].at \in Effecting =>
               job[u] # None /\ job[u].at \in Effecting /\ job'[u].ctx = job[u].ctx
        BY <2>3 DEF Moved, Effecting
      <3> QED
        BY <1>0, <3>1, <3>2, <3>3, <3>4, <3>5, WorkMoves
    <2>9. phase \in {"open", "closing"} /\ c \in live
      BY <1>0, <1>SettleEffect, <2>1, <2>2
         DEF SettleEffect, InProcess, Inside, Positions
    <2>5. InProcess'
      <3>1. live' \subseteq opened' \cup {Owner} /\ live' \cap Verified' \subseteq gone' /\ gone' \subseteq retired'
        BY <1>0, <1>SettleEffect DEF SettleEffect, InProcess, Verified
      <3>2. UNCHANGED <<phase, live, retiring, closer>>
        BY <1>SettleEffect DEF SettleEffect
      <3>3. job[t].ctx \in live /\ phase \in {"open", "closing"}
        BY <1>0, <1>SettleEffect, <2>1
           DEF SettleEffect, InProcess, Inside, Positions
      <3>4. job[t].at \in Mutating \/ GateFree(job[t].ctx) \/ "gated" \notin Mutating
        BY <1>SettleEffect DEF SettleEffect, Mutating
      <3> QED
        BY <1>0, <2>1, <2>3, <3>1, <3>2, <3>3, <3>4, ThreadsMove DEF Positions
    <2>6. Bound'
      BY <1>0, <1>SettleEffect, <2>9 DEF SettleEffect, Bound
    <2>7. \A u \in Threads : job'[u] # None /\ job'[u].at = "effect" => op'[job'[u].ctx] = "open"
      <3> SUFFICES ASSUME NEW u \in Threads, job'[u] # None, job'[u].at = "effect"
                   PROVE  op'[job'[u].ctx] = "open"
        OBVIOUS
      <3>1. u # t /\ job'[u] = job[u] /\ job[u] \in JobRecords
        BY <1>0, <2>3 DEF Moved
      <3>2. job[u].ctx # c
        BY <1>0, <1>SettleEffect, <2>1, <2>2, <3>1
           DEF SettleEffect, InProcess, Mutating
      <3>3. op'[job[u].ctx] = op[job[u].ctx]
        BY <1>0, <1>SettleEffect, <2>2, <3>1, <3>2 DEF SettleEffect, TypeOK
      <3> QED
        BY <1>0, <3>1, <3>3 DEF TypeOK
    <2>8. TypeOK'
      <3>1. op' \in [Contexts -> {"none", "open", "unknown"}] /\ entries' \subseteq Contexts
        BY <1>0, <1>SettleEffect, <2>2 DEF SettleEffect, TypeOK
      <3>2. callbacks' \subseteq live /\ poisoned' \subseteq live
        BY <1>0, <1>SettleEffect, <2>2, <2>9 DEF SettleEffect, TypeOK
      <3>3. faults' \in 0 .. MaxFaults
        BY <1>0, <1>SettleEffect DEF SettleEffect, TypeOK
      <3> QED
        BY <1>0, <1>SettleEffect, <2>3, <2>7, <3>1, <3>2, <3>3
           DEF SettleEffect, TypeOK, JobRecords, Moved
    <2> QED
      BY <2>4, <2>5, <2>6, <2>8 DEF IInv
  <1>Resolve. ASSUME NEW t \in Threads, Resolve(t) PROVE IInv' /\ Cut
    <2>1. job[t] # None /\ job[t] \in JobRecords
      BY <1>0, <1>Resolve DEF Resolve
    <2>2. PICK c \in Contexts : c = job[t].ctx
      BY <2>1 DEF JobRecords
    <2>3. /\ job' = job /\ op[c] = "unknown"
          /\ UNCHANGED <<opened, retired, stopped, engine, claim, job, doubtful, bounds>>
          /\ op' = [op EXCEPT ![c] = "none"] /\ entries' \in {entries \cup {c}, entries \ {c}}
      BY <1>Resolve, <2>2 DEF Resolve
    <2>9. phase \in {"open", "closing"} /\ c \in live
      BY <1>0, <1>Resolve, <2>1, <2>2 DEF Resolve, InProcess, Inside, Positions
    <2>4. OnTarget' /\ Cut
      <3>1. \A d \in Contexts \ {c} : d \in Loose' <=> d \in Loose
        BY <1>0, <2>3 DEF Loose, engine
      <3>2. c \in Loose
        BY <2>3 DEF Loose
      <3>3. c \in opened \cup {Owner} /\ c \notin Verified /\ c # retiring
        BY <1>0, <3>2 DEF OnTarget, Contexts
      <3>4. UNCHANGED <<opened, retired, doubtful, reserved, retiring, callbacks>>
        BY <2>3 DEF engine
      <3> QED
        BY <1>0, <2>3, <3>1, <3>2, <3>3, <3>4, WorkMoves
    <2>5. InProcess'
      BY <1>0, <2>3 DEF InProcess, Verified, engine
    <2>6. Bound'
      BY <1>0, <2>3, <2>9 DEF Bound, engine
    <2>7. \A u \in Threads : job'[u] # None /\ job'[u].at = "effect" => op'[job'[u].ctx] = "open"
      BY <1>0, <2>3 DEF TypeOK
    <2>8. TypeOK'
      BY <1>0, <2>3, <2>7 DEF TypeOK, engine, bounds
    <2> QED
      BY <2>4, <2>5, <2>6, <2>8 DEF IInv
  <1>StopAdmission. ASSUME NEW t \in Threads, StopAdmission(t) PROVE IInv' /\ Cut
    <2>1. job[t] # None /\ job[t] \in JobRecords
      BY <1>0, <1>StopAdmission DEF StopAdmission
    <2>2. PICK c \in Contexts : c = job[t].ctx
      BY <2>1 DEF JobRecords
    <2>3. UNCHANGED <<opened, retired, op, entries, phase, live, gone, poisoned, shut,
                      reserved, retiring, closer, callbacks, late, claim, job, doubtful, bounds>>
      BY <1>StopAdmission DEF StopAdmission
    <2>4. OnTarget' /\ Cut
      BY <1>0, <2>3, TargetStill
    <2>5. InProcess'
      BY <1>0, <2>3 DEF InProcess, Verified
    <2>6. Bound'
      BY <1>0, <2>3 DEF Bound
    <2>8. TypeOK'
      <3>1. halted' \subseteq live /\ stopped' \in BOOLEAN
        BY <1>0, <1>StopAdmission, <2>1
           DEF StopAdmission, TypeOK, InProcess, Inside
      <3> QED
        BY <1>0, <2>3, <3>1 DEF TypeOK, bounds
    <2> QED
      BY <2>4, <2>5, <2>6, <2>8 DEF IInv
  <1>Leave. ASSUME NEW t \in Threads, Leave(t) PROVE IInv' /\ Cut
    <2>1. job[t] # None /\ job[t] \in JobRecords
      BY <1>0, <1>Leave DEF Leave
    <2>2. PICK c \in Contexts : c = job[t].ctx
      BY <2>1 DEF JobRecords
    <2>3. /\ job' = [job EXCEPT ![t] = None] /\ UNCHANGED <<durable, engine, claim, doubtful, bounds>>
          /\ job'[t] = None /\ \A u \in Threads \ {t} : job'[u] = job[u]
      BY <1>0, <1>Leave DEF Leave
    <2>4. OnTarget' /\ Cut
      BY <1>0, <2>3, TargetStill DEF durable, engine
    <2>5. InProcess'
      BY <1>0, <2>3 DEF InProcess, Verified, durable, engine
    <2>6. Bound'
      BY <1>0, <2>3 DEF Bound, durable, engine
    <2>8. TypeOK'
      BY <1>0, <2>3 DEF TypeOK, durable, engine, bounds
    <2> QED
      BY <2>4, <2>5, <2>6, <2>8 DEF IInv
  <1>OpenEngine. ASSUME OpenEngine PROVE IInv' /\ Cut
    <2>1. phase \notin {"open", "closing"} /\ callbacks = {} /\ retiring = None /\ closer = "idle"
      BY <1>0, <1>OpenEngine DEF OpenEngine, InProcess
    <2>2. /\ op' \in [Contexts -> {"none", "open", "unknown"}]
          /\ \A d \in Contexts : op'[d] # "none" => op[d] # "none"
      BY <1>0, <1>OpenEngine DEF OpenEngine, Classified, TypeOK
    <2>3. \A t \in Threads : ~(job[t] # None /\ job[t].at \in Inside)
      BY <1>0, <2>1 DEF InProcess
    <2>4. OnTarget' /\ Cut
      BY <1>0, <1>OpenEngine, <2>1, <2>2, <2>3, ProcessChanges
         DEF OpenEngine, Effecting, Inside, Positions
    <2>5. InProcess'
      BY <1>0, <1>OpenEngine, <2>1, <2>3 DEF OpenEngine, InProcess
    <2>6. Bound'
      BY <1>OpenEngine DEF OpenEngine, Bound
    <2>7. \A u \in Threads : job'[u] # None /\ job'[u].at = "effect" => op'[job'[u].ctx] = "open"
      BY <1>OpenEngine, <2>3 DEF OpenEngine, Inside, Positions
    <2>8. TypeOK'
      BY <1>0, <1>OpenEngine, <2>1, <2>2, <2>7 DEF OpenEngine, TypeOK, bounds
    <2> QED
      BY <2>4, <2>5, <2>6, <2>8 DEF IInv
  <1>OpenRun. ASSUME NEW c \in Runs, OpenRun(c) PROVE IInv' /\ Cut
    <2>0. c \in Contexts /\ c \notin live /\ phase = "open" /\ retiring = None
      BY <1>OpenRun DEF OpenRun, Contexts
    <2>1. /\ UNCHANGED <<retired, stopped, entries, phase, poisoned, shut, reserved, retiring,
                         closer, callbacks, late, claim, job, doubtful, left>>
          /\ opened' = opened \cup {c}
      BY <1>OpenRun DEF OpenRun
    <2>2. /\ op' \in [Contexts -> {"none", "open", "unknown"}]
          /\ op'[c] # "none" => op[c] # "none"
          /\ \A d \in Contexts \ {c} : op'[d] = op[d]
      <3>1. CASE op' = op
        BY <1>0, <3>1 DEF TypeOK
      <3>2. CASE Construct(c)
        BY <1>0, <2>0, <3>2 DEF Construct, Classified, TypeOK
      <3> QED
        BY <1>OpenRun, <3>1, <3>2 DEF OpenRun
    <2>3. /\ live' \in {live, live \cup {c}}
          /\ gone' = IF live' # live /\ c \in retired THEN gone \cup {c} ELSE gone
          /\ halted' \in {halted, halted \cup {c}} /\ (live' = live => halted' = halted)
      <3>1. CASE Construct(c)
        BY <2>0, <3>1 DEF Construct
      <3>2. CASE UNCHANGED <<live, op, gone, halted>>
        BY <3>2
      <3> QED
        BY <1>OpenRun, <3>1, <3>2 DEF OpenRun
    <2>4. OnTarget' /\ Cut
      <3>1. Verified' = Verified
        BY <2>1 DEF Verified
      <3>2. Loose' \subseteq Loose /\ Known' \subseteq Known /\ Known \subseteq Contexts
        BY <2>1, <2>2 DEF Loose, Known
      <3>3. \A d \in Contexts \ {c} : d \in Known' <=> d \in Known
        BY <2>1, <2>2 DEF Loose, Known
      <3>4. OnTarget'
        BY <1>0, <2>1, <3>1, <3>2 DEF OnTarget
      <3>5. Cut
        <4>1. CASE Known' = Known
          BY <2>1, <4>1 DEF Cut
        <4>2. CASE Known' # Known
          <5>1. c \in Known /\ c \notin Known'
            BY <3>2, <3>3, <4>2
          <5>2. Known = {c} /\ reserved \in {None, c}
            BY <1>0, <5>1 DEF OnTarget
          <5> QED
            BY <2>0, <2>1, <3>2, <5>2 DEF Cut, Turn
        <4> QED
          BY <4>1, <4>2
      <3> QED
        BY <3>4, <3>5
    <2>5. InProcess'
      BY <1>0, <2>0, <2>1, <2>3 DEF InProcess, Verified
    <2>6. Bound'
      BY <1>0, <2>0, <2>1 DEF Bound
    <2>7. \A u \in Threads : job'[u] # None /\ job'[u].at = "effect" => op'[job'[u].ctx] = "open"
      <3> SUFFICES ASSUME NEW u \in Threads, job[u] # None, job[u].at = "effect"
                   PROVE  op'[job[u].ctx] = "open"
        BY <2>1
      <3>1. job[u] \in JobRecords /\ job[u].ctx \in live
        BY <1>0 DEF InProcess, Inside, Positions
      <3>2. job[u].ctx \in Contexts \ {c}
        BY <2>0, <3>1 DEF JobRecords
      <3> QED
        BY <1>0, <2>2, <3>2 DEF TypeOK
    <2>8. TypeOK'
      <3>1. faults' \in 0 .. MaxFaults
        BY <1>0, <1>OpenRun DEF OpenRun, TypeOK
      <3>2. live' \subseteq Contexts /\ gone' \subseteq live' /\ halted' \subseteq live' /\ live \subseteq live'
        BY <1>0, <2>0, <2>3 DEF TypeOK
      <3> QED
        BY <1>0, <2>1, <2>2, <2>7, <3>1, <3>2 DEF TypeOK
    <2> QED
      BY <2>4, <2>5, <2>6, <2>8 DEF IInv
  <1>CallbackEnds. ASSUME NEW c \in Contexts, CallbackEnds(c) PROVE IInv' /\ Cut
    <2>1. /\ UNCHANGED <<durable, phase, live, gone, halted, poisoned, shut, reserved,
                         retiring, closer, late, claim, job, doubtful, bounds>>
          /\ c \in callbacks /\ callbacks' = callbacks \ {c}
      BY <1>CallbackEnds DEF CallbackEnds
    <2>4. OnTarget' /\ Cut
      <3>1. \A d \in Contexts \ {c} : d \in Loose' <=> d \in Loose
        BY <2>1 DEF Loose, durable
      <3>2. c \in Loose
        BY <2>1 DEF Loose
      <3>3. c \in opened \cup {Owner} /\ c \notin Verified /\ c # retiring
        BY <1>0, <3>2 DEF OnTarget, Contexts
      <3> QED
        BY <1>0, <2>1, <3>1, <3>2, <3>3, WorkMoves DEF durable
    <2>5. InProcess'
      BY <1>0, <2>1 DEF InProcess, Verified, durable
    <2>6. Bound'
      BY <1>0, <2>1 DEF Bound, durable
    <2>8. TypeOK'
      BY <1>0, <2>1 DEF TypeOK, durable, bounds
    <2> QED
      BY <2>4, <2>5, <2>6, <2>8 DEF IInv
  <1>RetireCheck. ASSUME NEW c \in Contexts, RetireCheck(c) PROVE IInv' /\ Cut
    <2>1. /\ UNCHANGED <<durable, phase, live, gone, halted, poisoned, shut, reserved, closer,
                         callbacks, late, claim, job, doubtful, bounds>>
          /\ c \in live /\ phase \in {"open", "closing"} /\ Idle(c) /\ retiring' = c
      BY <1>RetireCheck DEF RetireCheck
    <2>2. UNCHANGED <<Loose, Known, Verified>>
      BY <2>1 DEF Loose, Known, Verified, durable
    <2>3. c \notin Loose /\ \A t \in Threads : ~(job[t] # None /\ job[t].ctx = c /\ job[t].at \in Effecting)
      BY <2>1 DEF Idle, Active, At, Unresolved, Loose, Effecting, Positions
    <2>4. OnTarget' /\ Cut
      BY <1>0, <2>1, <2>2, <2>3 DEF OnTarget, Cut, durable
    <2>5. InProcess'
      BY <1>0, <2>1 DEF InProcess, Verified, durable
    <2>6. Bound'
      BY <1>0, <2>1 DEF Bound
    <2>8. TypeOK'
      BY <1>0, <2>1 DEF TypeOK, durable, bounds
    <2> QED
      BY <2>4, <2>5, <2>6, <2>8 DEF IInv
  <1>Retire. ASSUME Retire PROVE IInv' /\ Cut
    <2>1. /\ UNCHANGED <<opened, stopped, op, entries, phase, live, poisoned, shut, closer,
                         callbacks, late, claim, job, bounds>>
          /\ retired' = retired \cup {retiring} /\ gone' = gone \cup {retiring}
          /\ halted' = halted \cup {retiring} /\ doubtful' = doubtful \ {retiring}
          /\ reserved' = IF reserved = retiring THEN None ELSE reserved
          /\ retiring # None /\ retiring' = None
      BY <1>Retire DEF Retire
    <2>2. PICK c \in live : c = retiring
      BY <1>0, <2>1 DEF TypeOK
    <2>3. c \in Contexts /\ c \notin Loose /\ Loose' = Loose /\ Verified' = Verified \cup {c}
      BY <1>0, <2>1, <2>2 DEF OnTarget, TypeOK, Loose, Verified
    <2>7. Known' = Known
      BY <2>1, <2>2, <2>3 DEF Known
    <2>4. OnTarget' /\ Cut
      <3>1. reserved = c => Known = {}
        BY <1>0, <2>2, <2>3 DEF OnTarget, Known, Contexts
      <3>2. OnTarget'
        <4>1. \A t \in Threads : job'[t] # None /\ job'[t].at \in Effecting =>
                 reserved' = job'[t].ctx /\ job'[t].ctx \notin Verified' /\ job'[t].ctx # retiring'
          <5> SUFFICES ASSUME NEW t \in Threads, job[t] # None, job[t].at \in Effecting
                       PROVE  reserved' = job[t].ctx /\ job[t].ctx \notin Verified' /\ job[t].ctx # None
            BY <2>1
          <5>1. reserved = job[t].ctx /\ job[t].ctx \notin Verified /\ job[t].ctx # c
            BY <1>0, <2>2 DEF OnTarget
          <5>2. job[t].ctx # None
            BY <1>0 DEF JobRecords, Contexts
          <5> QED
            BY <2>1, <2>2, <2>3, <5>1, <5>2
        <4>2. callbacks' \subseteq {reserved'}
          BY <1>0, <2>1, <2>2, <2>3 DEF OnTarget, Loose
        <4> QED
          BY <1>0, <2>1, <2>3, <2>7, <4>1, <4>2 DEF OnTarget
      <3>3. Cut
        <4>1. CASE reserved = c
          BY <2>1, <2>2, <2>3, <2>7, <3>1, <4>1 DEF Cut, Turn
        <4>2. CASE reserved # c
          BY <2>1, <2>2, <2>7, <4>2 DEF Cut
        <4> QED
          BY <4>1, <4>2
      <3> QED
        BY <3>2, <3>3
    <2>5. InProcess'
      BY <1>0, <2>1, <2>2, <2>3 DEF InProcess
    <2>6. Bound'
      BY <1>0, <2>1 DEF Bound
    <2>8. TypeOK'
      BY <1>0, <2>1, <2>2, <2>3 DEF TypeOK, bounds
    <2> QED
      BY <2>4, <2>5, <2>6, <2>8 DEF IInv
  <1>RetireFails. ASSUME RetireFails PROVE IInv' /\ Cut
    <2>1. /\ UNCHANGED <<durable, phase, live, gone, halted, poisoned, shut, reserved, closer,
                         callbacks, claim, job, doubtful, left>>
          /\ retiring' = None /\ late' \in {late, retiring}
      BY <1>RetireFails DEF RetireFails
    <2>2. UNCHANGED <<Loose, Known, Verified>>
      BY <2>1 DEF Loose, Known, Verified, durable
    <2>4. OnTarget' /\ Cut
      <3>1. \A t \in Threads : job[t] # None => job[t].ctx # None
        BY <1>0 DEF JobRecords, Contexts
      <3> QED
        BY <1>0, <2>1, <2>2, <3>1 DEF OnTarget, Cut, durable
    <2>5. InProcess'
      BY <1>0, <2>1 DEF InProcess, Verified, durable
    <2>6. Bound'
      BY <1>0, <2>1 DEF Bound, durable
    <2>8. TypeOK'
      <3>1. faults' \in 0 .. MaxFaults /\ late' \in Contexts \cup {None}
        BY <1>0, <1>RetireFails DEF RetireFails, TypeOK
      <3> QED
        BY <1>0, <2>1, <3>1 DEF TypeOK, durable
    <2> QED
      BY <2>4, <2>5, <2>6, <2>8 DEF IInv
  <1>LateRetirement. ASSUME LateRetirement PROVE IInv' /\ Cut
    <2>1. /\ UNCHANGED <<opened, stopped, op, entries, phase, live, gone, halted, poisoned,
                         shut, reserved, retiring, closer, callbacks, claim, job, bounds>>
          /\ \/ UNCHANGED <<retired, doubtful>>
             \/ retired' = retired \cup {late} /\ doubtful' = doubtful \cup {late}
          /\ late # None /\ late' = None
      BY <1>LateRetirement DEF LateRetirement
    <2>2. PICK c \in Contexts : c = late
      BY <1>0, <2>1 DEF TypeOK
    <2>3. Verified' \subseteq Verified /\ Loose' = Loose /\ Loose \subseteq Contexts
      BY <2>1 DEF Verified, Loose
    <2>7. Known' = Known \/ Known' = Known \ {c}
      BY <2>1, <2>2, <2>3 DEF Known
    <2>4. OnTarget' /\ Cut
      <3>1. OnTarget'
        BY <1>0, <2>1, <2>3, <2>7 DEF OnTarget
      <3>2. CASE Known' = Known
        BY <2>1, <3>1, <3>2 DEF Cut
      <3>3. CASE Known' # Known
        <4>1. c \in Known /\ Known' = Known \ {c}
          BY <2>7, <3>3
        <4>2. Known = {c} /\ reserved \in {None, c}
          BY <1>0, <4>1 DEF OnTarget
        <4> QED
          BY <2>1, <2>2, <3>1, <4>1, <4>2 DEF Cut, Turn
      <3> QED
        BY <3>2, <3>3
    <2>5. InProcess'
      BY <1>0, <2>1, <2>3 DEF InProcess
    <2>6. Bound'
      BY <1>0, <2>1 DEF Bound
    <2>8. TypeOK'
      BY <1>0, <2>1, <2>2 DEF TypeOK, bounds
    <2> QED
      BY <2>4, <2>5, <2>6, <2>8 DEF IInv
  <1>BeginClose. ASSUME BeginClose PROVE IInv' /\ Cut
    <2>4. OnTarget' /\ Cut
      BY <1>0, <1>BeginClose, TargetStill DEF BeginClose, durable
    <2>5. InProcess'
      BY <1>0, <1>BeginClose DEF BeginClose, InProcess, Verified, durable
    <2>6. Bound'
      BY <1>0, <1>BeginClose DEF BeginClose, Bound
    <2>8. TypeOK'
      BY <1>0, <1>BeginClose DEF BeginClose, TypeOK, InProcess, durable, bounds
    <2> QED
      BY <2>4, <2>5, <2>6, <2>8 DEF IInv
  <1>StartDrain. ASSUME StartDrain PROVE IInv' /\ Cut
    <2>4. OnTarget' /\ Cut
      BY <1>0, <1>StartDrain, TargetStill DEF StartDrain, durable
    <2>5. InProcess'
      BY <1>0, <1>StartDrain DEF StartDrain, InProcess, Verified, durable
    <2>6. Bound'
      BY <1>0, <1>StartDrain DEF StartDrain, Bound, InProcess
    <2>8. TypeOK'
      BY <1>0, <1>StartDrain DEF StartDrain, TypeOK, durable, bounds
    <2> QED
      BY <2>4, <2>5, <2>6, <2>8 DEF IInv
  <1>ShutContext. ASSUME NEW c \in Contexts, ShutContext(c) PROVE IInv' /\ Cut
    <2>4. OnTarget' /\ Cut
      BY <1>0, <1>ShutContext, TargetStill DEF ShutContext, durable
    <2>5. InProcess'
      BY <1>0, <1>ShutContext DEF ShutContext, InProcess, Verified, durable
    <2>6. Bound'
      BY <1>0, <1>ShutContext DEF ShutContext, Bound, durable
    <2>8. TypeOK'
      BY <1>0, <1>ShutContext DEF ShutContext, TypeOK, durable, bounds
    <2> QED
      BY <2>4, <2>5, <2>6, <2>8 DEF IInv
  <1>EndDrain. ASSUME EndDrain PROVE IInv' /\ Cut
    <2>4. OnTarget' /\ Cut
      BY <1>0, <1>EndDrain, TargetStill DEF EndDrain, durable
    <2>5. InProcess'
      BY <1>0, <1>EndDrain DEF EndDrain, InProcess, Verified, durable
    <2>6. Bound'
      BY <1>0, <1>EndDrain DEF EndDrain, Bound, durable
    <2>8. TypeOK'
      BY <1>0, <1>EndDrain DEF EndDrain, TypeOK, durable, bounds
    <2> QED
      BY <2>4, <2>5, <2>6, <2>8 DEF IInv
  <1>CloseProviders. ASSUME CloseProviders PROVE IInv' /\ Cut
    <2>4. OnTarget' /\ Cut
      BY <1>0, <1>CloseProviders, TargetStill DEF CloseProviders, durable
    <2>5. InProcess'
      BY <1>0, <1>CloseProviders
         DEF CloseProviders, InProcess, Verified, durable
    <2>6. Bound'
      BY <1>0, <1>CloseProviders DEF CloseProviders, Bound, durable
    <2>8. TypeOK'
      BY <1>0, <1>CloseProviders DEF CloseProviders, TypeOK, durable, bounds
    <2> QED
      BY <2>4, <2>5, <2>6, <2>8 DEF IInv
  <1>FinishClose. ASSUME FinishClose PROVE IInv' /\ Cut
    <2>4. OnTarget' /\ Cut
      BY <1>0, <1>FinishClose, TargetStill DEF FinishClose, durable
    <2>5. InProcess'
      BY <1>0, <1>FinishClose
         DEF FinishClose, InProcess, Verified, durable, Drained, Active, At,
             Inside
    <2>6. Bound'
      <3>1. /\ claim' = Released /\ UNCHANGED <<op, live, poisoned>> /\ phase' = "closed"
        BY <1>FinishClose DEF FinishClose, durable
      <3>2. claim'.by \in {None, "engine"} /\ (claim'.by = None => \A c \in live : op[c] = "none")
        <4>1. CASE \E c \in live : Unresolved(c)
          BY <3>1, <4>1 DEF Released
        <4>2. CASE ~\E c \in live : Unresolved(c)
          BY <3>1, <4>2 DEF Released, Unclaimed, Unresolved
        <4> QED
          BY <4>1, <4>2
      <3> QED
        BY <3>1, <3>2 DEF Bound
    <2>8. TypeOK'
      <3>1. claim' \in [by : {None, "engine", "rival"}, closed : BOOLEAN, unresolved : BOOLEAN]
        BY <1>FinishClose DEF FinishClose, Released, Unclaimed
      <3> QED
        BY <1>0, <1>FinishClose, <3>1 DEF FinishClose, TypeOK, durable, bounds
    <2> QED
      BY <2>4, <2>5, <2>6, <2>8 DEF IInv
  <1>AbortClose. ASSUME AbortClose PROVE IInv' /\ Cut
    <2>1. /\ UNCHANGED <<durable, live, gone, halted, reserved, retiring, callbacks, late, job, doubtful, left>>
          /\ closer \in {"draining", "closing", "releasing"}
          /\ claim' = [claim EXCEPT !.unresolved = TRUE]
          /\ closer' = "idle" /\ phase' = "open" /\ shut' = {} /\ poisoned' \in {poisoned, live}
      BY <1>AbortClose DEF AbortClose
    <2>2. phase \in {"open", "closing"}
      BY <1>0, <2>1 DEF InProcess
    <2>3. /\ claim' \in [by : {None, "engine", "rival"}, closed : BOOLEAN, unresolved : BOOLEAN]
          /\ claim'.by = claim.by
      BY <1>0, <2>1 DEF TypeOK
    <2>4. OnTarget' /\ Cut
      BY <1>0, <2>1, TargetStill DEF durable
    <2>5. InProcess'
      BY <1>0, <2>1, <2>2 DEF InProcess, Verified, durable
    <2>6. Bound'
      BY <1>0, <2>1, <2>2, <2>3 DEF Bound
    <2>8. TypeOK'
      <3>1. faults' \in 0 .. MaxFaults
        BY <1>0, <1>AbortClose DEF AbortClose, TypeOK
      <3> QED
        BY <1>0, <2>1, <2>3, <3>1 DEF TypeOK, durable
    <2> QED
      BY <2>4, <2>5, <2>6, <2>8 DEF IInv
  <1>Crash. ASSUME Crash PROVE IInv' /\ Cut
    <2>1. /\ EngineGone /\ phase' = "absent" /\ UNCHANGED <<durable, doubtful, left>>
          /\ claim.by = "rival" => phase \in {"closed", "dropped"}
      BY <1>0, <1>Crash DEF Crash
    <2>2. \A t \in Threads : job'[t] = None
      BY <2>1 DEF EngineGone
    <2>3. /\ claim' \in [by : {None, "engine", "rival"}, closed : BOOLEAN, unresolved : BOOLEAN]
          /\ claim'.by # "rival"
      <3>1. Unclaimed \in [by : {None, "engine", "rival"}, closed : BOOLEAN, unresolved : BOOLEAN]
            /\ Unclaimed.by # "rival"
        BY DEF Unclaimed
      <3>2. claim' \in {claim, Unclaimed} /\ (claim' = claim => claim'.by # "rival")
        BY <1>0, <1>Crash DEF Crash
      <3> QED
        BY <1>0, <3>1, <3>2 DEF TypeOK
    <2>4. OnTarget' /\ Cut
      BY <1>0, <2>1, <2>2, ProcessChanges DEF EngineGone, durable, TypeOK
    <2>5. InProcess'
      BY <1>0, <2>1, <2>2 DEF EngineGone, InProcess
    <2>6. Bound'
      BY <2>1, <2>3 DEF Bound
    <2>8. TypeOK'
      <3>1. faults' \in 0 .. MaxFaults
        BY <1>0, <1>Crash DEF Crash, TypeOK
      <3> QED
        BY <1>0, <2>1, <2>2, <2>3, <3>1 DEF EngineGone, TypeOK, durable
    <2> QED
      BY <2>4, <2>5, <2>6, <2>8 DEF IInv
  <1>OwnerGone. ASSUME OwnerGone PROVE IInv' /\ Cut
    <2>1. /\ EngineGone /\ phase' = "dropped" /\ UNCHANGED <<durable, doubtful, left>>
          /\ claim.by = "rival" => phase \in {"closed", "dropped"}
      BY <1>0, <1>OwnerGone DEF OwnerGone, Bound
    <2>2. \A t \in Threads : job'[t] = None
      BY <2>1 DEF EngineGone
    <2>3. /\ claim' \in [by : {None, "engine", "rival"}, closed : BOOLEAN, unresolved : BOOLEAN]
          /\ claim'.by # "rival"
      <3>1. Unclaimed \in [by : {None, "engine", "rival"}, closed : BOOLEAN, unresolved : BOOLEAN]
            /\ Unclaimed.by # "rival"
        BY DEF Unclaimed
      <3>2. claim' \in {claim, Unclaimed} /\ (claim' = claim => claim'.by # "rival")
        BY <1>0, <1>OwnerGone DEF OwnerGone, Bound
      <3> QED
        BY <1>0, <3>1, <3>2 DEF TypeOK
    <2>4. OnTarget' /\ Cut
      BY <1>0, <2>1, <2>2, ProcessChanges DEF EngineGone, durable, TypeOK
    <2>5. InProcess'
      BY <1>0, <2>1, <2>2 DEF EngineGone, InProcess
    <2>6. Bound'
      BY <2>1, <2>3 DEF Bound
    <2>8. TypeOK'
      <3>1. faults' \in 0 .. MaxFaults
        BY <1>0, <1>OwnerGone DEF OwnerGone, TypeOK
      <3> QED
        BY <1>0, <2>1, <2>2, <2>3, <3>1 DEF EngineGone, TypeOK, durable
    <2> QED
      BY <2>4, <2>5, <2>6, <2>8 DEF IInv
  <1>RivalOpens. ASSUME RivalOpens PROVE IInv' /\ Cut
    <2>1. UNCHANGED <<durable, engine, job, doubtful, bounds>>
      BY <1>RivalOpens DEF RivalOpens
    <2>4. OnTarget' /\ Cut
      BY <1>0, <2>1, TargetStill DEF durable, engine
    <2>5. InProcess'
      BY <1>0, <2>1 DEF InProcess, Verified, durable, engine
    <2>6. Bound'
      BY <1>0, <1>RivalOpens, <2>1
         DEF RivalOpens, RivalBindable, Bound, durable, engine
    <2>8. TypeOK'
      BY <1>0, <1>RivalOpens, <2>1
         DEF RivalOpens, TypeOK, durable, engine, bounds
    <2> QED
      BY <2>4, <2>5, <2>6, <2>8 DEF IInv
  <1>RivalCloses. ASSUME RivalCloses PROVE IInv' /\ Cut
    <2>1. UNCHANGED <<durable, engine, job, doubtful, bounds>>
      BY <1>RivalCloses DEF RivalCloses
    <2>4. OnTarget' /\ Cut
      BY <1>0, <2>1, TargetStill DEF durable, engine
    <2>5. InProcess'
      BY <1>0, <2>1 DEF InProcess, Verified, durable, engine
    <2>6. Bound'
      BY <1>0, <1>RivalCloses, <2>1 DEF RivalCloses, Bound, durable, engine
    <2>8. TypeOK'
      BY <1>0, <1>RivalCloses, <2>1
         DEF RivalCloses, Unclaimed, TypeOK, durable, engine, bounds
    <2> QED
      BY <2>4, <2>5, <2>6, <2>8 DEF IInv
  <1>stutter. ASSUME UNCHANGED vars PROVE IInv' /\ Cut
    <2>1. UNCHANGED <<durable, engine, claim, job, doubtful, bounds>>
      BY <1>stutter DEF vars
    <2>4. OnTarget' /\ Cut
      BY <1>0, <2>1, TargetStill DEF durable, engine
    <2>5. InProcess'
      BY <1>0, <2>1 DEF InProcess, Verified, durable, engine
    <2>6. Bound'
      BY <1>0, <2>1 DEF Bound, durable, engine
    <2>8. TypeOK'
      BY <1>0, <2>1 DEF TypeOK, durable, engine, bounds
    <2> QED
      BY <2>4, <2>5, <2>6, <2>8 DEF IInv
  <1>call. ASSUME NEW t \in Threads, CallStep(t) PROVE IInv' /\ Cut
    BY <1>call, <1>Enter, <1>ReserveStep, <1>EnterStep, <1>Gate, <1>AdmitEffect,
       <1>ClaimRecord, <1>SettleEffect, <1>Resolve, <1>StopAdmission, <1>Leave
       DEF CallStep
  <1>close. ASSUME CloseStep PROVE IInv' /\ Cut
    BY <1>close, <1>BeginClose, <1>StartDrain, <1>EndDrain, <1>CloseProviders,
       <1>FinishClose, <1>AbortClose, <1>ShutContext
       DEF CloseStep
  <1> QED
    BY <1>OpenEngine, <1>OpenRun, <1>call, <1>CallbackEnds, <1>RetireCheck,
       <1>Retire, <1>RetireFails, <1>LateRetirement, <1>close, <1>Crash,
       <1>OwnerGone, <1>RivalOpens, <1>RivalCloses, <1>stutter
       DEF Next

--------------------------------------------------------------------------------
(* The theorems                                                               *)

\* The engine's tables, the claim, the threads and the ledgers have their types.
THEOREM TypeCorrect == Spec => []TypeOK
  <1>1. IInv => TypeOK
    BY DEF IInv
  <1> QED
    BY <1>1, InitIInv, StepKeepsIInv, PTL DEF Spec

\* RuntimeResourceClaim: another ledger's engine gets the backend when no call
\* is inside, and after a close only when the contexts left nothing unresolved.
THEOREM RivalExcludedAlways == Spec => []RivalExcluded
  <1>1. IInv => RivalExcluded
    <2> SUFFICES ASSUME IInv PROVE RivalExcluded
      OBVIOUS
    <2>1. phase \notin {"open", "closing"} => callbacks = {} /\ \A c \in Contexts : Active(c) = {}
      BY DEF IInv, InProcess, Active, At, Inside
    <2> QED
      BY <2>1 DEF IInv, Bound, RivalExcluded
  <1> QED
    BY <1>1, InitIInv, StepKeepsIInv, PTL DEF Spec

\* The reservation tells who holds the target; without one, the work does.
HolderRight ==
    /\ Known \subseteq {Holder}
    /\ reserved # None => Holder = reserved
    /\ reserved = None /\ Known = {} => Holder = None

LEMMA HolderIs == IInv => HolderRight
  <1> SUFFICES ASSUME IInv PROVE HolderRight
    OBVIOUS
  <1>1. CASE reserved # None
    BY <1>1 DEF IInv, OnTarget, Holder, HolderRight
  <1>2. CASE reserved = None /\ Known = {}
    BY <1>2 DEF Holder, HolderRight
  <1>3. CASE reserved = None /\ Known # {}
    <2>1. (CHOOSE c \in Known : TRUE) \in Known
      BY <1>3
    <2>2. Holder = CHOOSE c \in Known : TRUE
      BY <1>3 DEF Holder
    <2> QED
      BY <1>3, <2>1, <2>2 DEF HolderRight
  <1> QED
    BY <1>1, <1>2, <1>3

\* reserve and retire: RuntimeEngine implements ExclusiveTarget.
THEOREM ImplementsTargetAlways == Spec => ImplementsTarget
  <1>1. Init => Target!TargetInit
    BY DEF Init, Target!TargetInit, Holder, Known, Loose
  <1>2. (IInv => HolderRight) /\ (IInv' => HolderRight')
    BY HolderIs, PTL
  <1>3. ASSUME IInv, IInv', Cut
        PROVE  \/ \E c \in Contexts :
                     \/ Holder = None /\ Holder' = c /\ Known' = Known
                     \/ Holder = c /\ Known' = Known \cup {c} /\ Holder' = Holder
                     \/ Known' = Known \ {c} /\ Holder' = Holder
                     \/ Holder = c /\ Holder' = None /\ Known' = Known \ {c}
               \/ Holder' = Holder /\ Known' = Known
    <2>1. HolderRight /\ HolderRight'
      BY <1>2, <1>3
    <2>2. CASE reserved' = reserved /\ Known' = Known
      <3>1. Holder' = Holder
        BY <2>2 DEF Holder
      <3> QED
        BY <2>2, <3>1
    <2>3. ASSUME NEW c \in Contexts, Turn(c)
          PROVE  \/ \E d \in Contexts :
                       \/ Holder = None /\ Holder' = d /\ Known' = Known
                       \/ Holder = d /\ Known' = Known \cup {d} /\ Holder' = Holder
                       \/ Known' = Known \ {d} /\ Holder' = Holder
                       \/ Holder = d /\ Holder' = None /\ Known' = Known \ {d}
                 \/ Holder' = Holder /\ Known' = Known
      <3>1. c # None /\ Holder \in {None, c} /\ Holder' \in {None, c}
        BY <2>1, <2>3, EngineNames DEF Turn, HolderRight, Contexts
      <3>2. (Holder = None => Known = {} /\ reserved = None) /\ (Holder' = None => Known' = {})
        BY <2>1, <2>3, <3>1 DEF Turn, HolderRight
      <3>3. CASE Holder = None
        <4>1. Known' = Known
          BY <2>3, <3>1, <3>2, <3>3 DEF Turn
        <4> QED
          BY <3>1, <3>3, <4>1
      <3>4. CASE Holder = c /\ Holder' = None
        <4>1. Known' = Known \ {c}
          BY <2>3, <3>2, <3>4 DEF Turn
        <4> QED
          BY <3>4, <4>1
      <3>5. CASE Holder = c /\ Holder' = c
        <4>1. Known' = Known \cup {c} \/ Known' = Known \ {c}
          BY <2>3 DEF Turn
        <4> QED
          BY <3>5, <4>1
      <3> QED
        BY <3>1, <3>3, <3>4, <3>5
    <2> QED
      BY <1>3, <2>2, <2>3 DEF Cut
  <1>4. IInv /\ IInv' /\ Cut => [Target!TargetNext]_(Target!targetVars)
    BY <1>3
       DEF Target!TargetNext, Target!Acquire, Target!Begin, Target!Cease,
           Target!Release, Target!targetVars
  <1> QED
    BY <1>1, <1>4, InitIInv, StepKeepsIInv, PTL
       DEF Spec, ImplementsTarget, Target!TargetSpec

=============================================================================
