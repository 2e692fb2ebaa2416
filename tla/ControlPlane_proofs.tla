-------------------------- MODULE ControlPlane_proofs --------------------------
(****************************************************************************)
(* The control plane over one store scope, for any number of operations,    *)
(* keys, store faults and crashes.                                          *)
(*                                                                          *)
(* Everything durable changes by one write at a time, issued on the state   *)
(* its issuer saw and committed now or, after a timeout, later.  Fits says  *)
(* what is true of a write from its issue until it lands; the guards of the *)
(* store do the rest.  Durable is what writes that fit preserve, the other  *)
(* parts tie the session, the supervisory cut and the write under way to    *)
(* the records.  The second part is the HTTP layer in front of the plane.   *)
(****************************************************************************)
EXTENDS ControlPlane, HttpOffload, FiniteSetTheorems, SequenceTheorems, TLAPS

\* A record keeps its reservation from the dispatch on, unless it succeeded;
\* only what was not dispatched is cancelled.
RecordFits(o, r) ==
    /\ LedgerFits(o, r)
    /\ r.st = "ACCEPTED" => r.reserved
    /\ r.consumed => r.reserved \/ r.st = "SUCCEEDED"
    /\ r.st = "CANCELLED" => o \in Native /\ ~r.consumed

\* A write, from its issue until it lands.
Fits(w) ==
    /\ w \in Writes
    /\ RecordFits(w.op, w.to)
    /\ w.kind = "claim" => w.to.st \in NonTerminal /\ rec[w.op].st = "none"
    /\ w.kind = "save" => w.to.st = "RUNNING" /\ w.op \in Native \cup Core
    /\ w.kind = "save" /\ w.op \in Native => rec[w.op].st # "none"
    /\ w.kind = "control" =>
           /\ w.op \in Native /\ w.expected.st # "none"
           /\ w.to = [w.expected EXCEPT !.control = TRUE]
    /\ w.kind = "terminal" => w.to.st \in Terminal /\ rec[w.op].st # "none"
    /\ w.kind \in {"save", "terminal"} /\ w.op \in Native => w.to.base = rec[w.op].base
    /\ w.to.st = "SUCCEEDED" /\ w.kind = "terminal" /\ w.op \in Effects =>
           world[w.op] = "applied" /\ w.bearing /\ w.op \in w.content
    /\ w.bearing => /\ w.kind = "terminal" /\ rec[w.op].st # "ACCEPTED"
                    /\ w.revision <= rev
                    /\ w.revision = rev => w.content \in {snap, snap \cup {w.op}}

\* The records, what was invoked, and what is published of it.
Durable ==
    /\ \A o \in Ops : RecordFits(o, rec[o])
    /\ \A o, p \in Effects : KeyOf[o] = KeyOf[p] /\ o # p =>
           rec[o].st = "none" \/ rec[p].st = "none"
    /\ \A o \in Effects : invoked[o] > 0 =>
           /\ invoked[o] = 1 /\ rec[o].st \notin {"none", "ACCEPTED", "CANCELLED"}
           /\ o \in Native => rec[o].consumed
    /\ SuccessIsPublished

\* The write under way.  A dispatch that timed out has poisoned the plane; a
\* terminal write has, or is of an earlier start and comes too late.
UnderWay ==
    late # None =>
        /\ Fits(late)
        /\ late.kind = "save" /\ late.op \in Native =>
               up = "ready" /\ poisoned /\ ~storeStopped /\ sess = None /\ sup = None
        /\ late.kind = "terminal" =>
               poisoned \/ up # "ready" \/ rec[late.op].st \in Terminal

\* No other effect is out whose end is not known to be harmless.
Alone(o) ==
    \A p \in Effects \ {o} : invoked[p] > 0 =>
        (p \in Native => rec[p].st = "SUCCEEDED") /\ ~Unresolved(p)

\* The session, its record and the snapshot it saw.
Holds(s) ==
    /\ up = "ready"
    /\ s.at = "validate" => s.op \in Native /\ rec[s.op].st \in {"ACCEPTED", "CANCELLED"}
    /\ s.at = "granted" => s.op \in Native /\ rec[s.op].st = "RUNNING"
    /\ s.at = "claimed" => s.op \in Plain /\ rec[s.op].st = "RUNNING"
    /\ s.at = "call" => s.op \in Effects /\ rec[s.op].st = "RUNNING"
    /\ s.at = "commit" => s.op \in Resolutions /\ rec[s.op].st = "RUNNING"
    /\ s.at \in {"validate", "granted", "claimed"} => invoked[s.op] = 0 /\ Alone(s.op)
    /\ s.base <= rev /\ (s.base = rev => s.view = snap)
    /\ s.op \in Native => rec[s.op].base = s.base

\* What may land behind the back of a session: no end of another effect.
Harmless(w) ==
    w.kind = "terminal" =>
        w.to.st = "CANCELLED" \/ w.op \in Core \/ rec[w.op].st \in Terminal

InSession == sess # None => Holds(sess) /\ (late # None => Harmless(late))

\* The supervisory cut between its two writes.
Supervised ==
    sup # None =>
        /\ up = "ready" /\ (sess # None => sess.at \in External)
        /\ sup.at = "cancel" => sup.op \in Native /\ rec[sup.op].st \notin {"none", "RUNNING"}
        /\ sup.at = "driver" => sup.op \in Core /\ rec[sup.op].st # "none"

IInv == TypeOK /\ Durable /\ UnderWay /\ InSession /\ Supervised

\* A step as the durable state sees it: a write that fits is committed, the
\* backend is entered, or nothing.
Lands(w) == StoreAccepts(w) /\ StoreApply(w)
Cut ==
    \/ \E w \in Writes :
          /\ Fits(w) /\ Lands(w) /\ UNCHANGED invoked
          /\ w.kind = "save" /\ w.op \in Native => ~storeStopped
    \/ \E o \in Effects : Invoke(o)
    \/ UNCHANGED <<rec, snap, rev, invoked>>

\* An effect that took place stays.
WorldKept == \A o \in Ops : world[o] = "applied" => world'[o] = "applied"

StoreTypes ==
    /\ rec \in [Ops -> Records] /\ snap \in SUBSET Ops /\ rev \in Nat
    /\ late \in Writes \cup {None} /\ faults \in 0 .. MaxFaults

--------------------------------------------------------------------------------
(* Records and requests                                                       *)

\* The transition relation, spelled out.
LEMMA AllowedIs ==
    ASSUME NEW s, NEW t
    PROVE  Lifecycle!Allowed(s, t) <=>
             \/ s = "ACCEPTED" /\ t \in {"RUNNING", "CANCELLED", "INDETERMINATE"}
             \/ s = "RUNNING" /\ t \in Terminal
             \/ s = "none" /\ t \in NonTerminal
  BY DEF Lifecycle!Allowed, Lifecycle!LegalTransitions, Lifecycle!Terminal,
     Lifecycle!NonTerminal, Terminal, NonTerminal

\* What the plane asks the store for.
LEMMA RequestIs ==
    ASSUME TypeOK, NEW kind \in {"claim", "save", "control", "terminal"},
           NEW o \in Ops, NEW to \in Records
    PROVE  LET w == Request(kind, o, to) IN
           /\ w \in Writes /\ w.kind = kind /\ w.op = o /\ w.to = to
           /\ w.expected = rec[o] /\ w.revision = rev /\ ~w.bearing
  BY DEF TypeOK, Request, Writes

LEMMA BearingIs ==
    ASSUME TypeOK, NEW o \in Ops, NEW to \in Records, NEW content \in SUBSET Ops
    PROVE  LET w == Bearing(o, to, content) IN
           /\ w \in Writes /\ w.kind = "terminal" /\ w.op = o /\ w.to = to
           /\ w.revision = rev /\ w.bearing /\ w.content = content
  BY DEF TypeOK, Request, Bearing, Writes

\* A record that settlement writes.
LEMMA SettledIs ==
    ASSUME TypeOK, NEW o \in Ops, NEW state \in Terminal
    PROVE  LET r == Settled(o, state) IN
           /\ r \in Records /\ r.st = state /\ r.consumed = rec[o].consumed
           /\ r.reserved <=> rec[o].consumed /\ state # "SUCCEEDED"
           /\ r.base = rec[o].base /\ r.control = rec[o].control
  <1> DEFINE f == rec[o].consumed /\ state # "SUCCEEDED"
  <1>1. PICK b \in BOOLEAN : b = f
    BY Zenon
  <1> DEFINE r == [rec[o] EXCEPT !.st = state, !.reserved = b]
  <1>2. Settled(o, state) = r
    BY <1>1, Zenon DEF Settled
  <1> HIDE DEF f
  <1>3. rec[o] \in Records /\ state \in {"SUCCEEDED", "FAILED", "CANCELLED", "INDETERMINATE"}
    BY DEF TypeOK, Terminal
  <1>4. /\ r \in Records /\ r.st = state /\ r.consumed = rec[o].consumed
        /\ r.reserved = b /\ r.base = rec[o].base /\ r.control = rec[o].control
    BY <1>3 DEF Records
  <1>5. r.reserved <=> f
    BY <1>1, <1>4
  <1>6. r.reserved <=> rec[o].consumed /\ state # "SUCCEEDED"
    BY <1>5 DEF f
  <1> HIDE DEF r
  <1> QED
    BY <1>2, <1>4, <1>6

--------------------------------------------------------------------------------
(* What a committed write does                                                *)

\* One record moves, forward, and the snapshot only grows.
LEMMA LandsMoves ==
    ASSUME TypeOK, NEW w, Fits(w), Lands(w)
    PROVE  /\ w \in Writes /\ w.op \in Ops /\ w.to \in Records
           /\ rec' = [rec EXCEPT ![w.op] = w.to] /\ rec'[w.op] = w.to
           /\ \A o \in Ops : o # w.op => rec'[o] = rec[o]
           /\ \/ /\ w.kind = "control" /\ w.op \in Native
                 /\ rec[w.op].st # "none" /\ w.to.st = rec[w.op].st
                 /\ w.to.reserved = rec[w.op].reserved
              \/ w.kind # "control" /\ Lifecycle!Allowed(rec[w.op].st, w.to.st)
           /\ rec[w.op].consumed => w.to.consumed
           /\ rec[w.op].st # "none" /\ w.to.reserved => rec[w.op].reserved
           /\ rec[w.op].st # "none" /\ w.op \in Native => w.to.base = rec[w.op].base
           /\ w.to.st # "none"
  <1>1. w \in Writes /\ w.op \in Ops /\ w.to \in Records /\ w.expected \in Records
    BY DEF Fits, Writes
  <1>2. rec' = [rec EXCEPT ![w.op] = w.to] /\ rec \in [Ops -> Records]
    BY DEF Lands, StoreApply, TypeOK
  <1>3. CASE w.kind = "control"
    <2>1. w.op \in Native /\ w.expected.st # "none" /\ rec[w.op] = w.expected
      BY <1>3 DEF Fits, Lands, StoreAccepts
    <2>2. /\ w.to.st = w.expected.st /\ w.to.reserved = w.expected.reserved
          /\ w.to.base = w.expected.base /\ w.to.consumed = w.expected.consumed
      BY <1>1, <1>3 DEF Fits, Records
    <2> QED
      BY <1>1, <1>2, <1>3, <2>1, <2>2
  <1>4. CASE w.kind # "control"
    <2>1. Lifecycle!Allowed(rec[w.op].st, w.to.st) /\ LedgerKept(rec[w.op], w.to)
      BY <1>4 DEF Lands, StoreAccepts
    <2>2. w.to.st # "none"
      BY <2>1, AllowedIs DEF Terminal, NonTerminal
    <2>3. rec[w.op].st # "none" /\ w.op \in Native => w.to.base = rec[w.op].base
      BY <1>1, <1>4 DEF Fits, Writes
    <2> QED
      BY <1>1, <1>2, <1>4, <2>1, <2>2, <2>3 DEF LedgerKept
  <1> QED
    BY <1>3, <1>4

\* The snapshot, when it changes, gains the operation of the write.
LEMMA LandsPublishes ==
    ASSUME TypeOK, NEW w, Fits(w), Lands(w)
    PROVE  /\ rev' \in Nat /\ rev <= rev' /\ snap \subseteq snap' /\ snap' \in SUBSET Ops
           /\ rev' = rev => snap' = snap
           /\ w.bearing => /\ rev' = rev + 1 /\ snap' \in {snap, snap \cup {w.op}}
                           /\ rec[w.op].st = "RUNNING" /\ w.to.st \in Terminal
                           /\ snap' = w.content
           /\ ~w.bearing => snap' = snap /\ rev' = rev
  <1>1. w \in Writes /\ w.op \in Ops /\ rev \in Nat /\ snap \in SUBSET Ops
    BY DEF Fits, Writes, TypeOK
  <1>2. CASE w.bearing
    <2>1. w.kind = "terminal" /\ rec[w.op].st # "ACCEPTED" /\ rev = w.revision
          /\ w.to.st \in Terminal
      BY <1>2 DEF Fits, Lands, StoreAccepts, RevisionHolds
    <2>2. w.content \in {snap, snap \cup {w.op}}
      BY <1>2, <2>1 DEF Fits
    <2>3. rec[w.op].st = "RUNNING"
      BY <2>1, AllowedIs DEF Lands, StoreAccepts, Terminal, NonTerminal
    <2>4. snap' = w.content /\ rev' = rev + 1
      BY <1>2 DEF Lands, StoreApply
    <2> QED
      BY <1>1, <1>2, <2>1, <2>2, <2>3, <2>4
  <1>3. CASE ~w.bearing
    BY <1>1, <1>3 DEF Lands, StoreApply
  <1> QED
    BY <1>2, <1>3

\* A terminal record stays as it is, but for a control in a native ledger.
LEMMA TerminalStays ==
    ASSUME TypeOK, NEW w, Fits(w), Lands(w), NEW o \in Ops, rec[o].st \in Terminal
    PROVE  /\ rec'[o].st = rec[o].st /\ (rec'[o].reserved => rec[o].reserved)
           /\ o \notin Native => rec'[o] = rec[o]
  BY LandsMoves, AllowedIs DEF Terminal

\* The records keep their shape, keys stay unique, nothing invoked is lost.
LEMMA DurableKept ==
    ASSUME TypeOK, Durable, NEW w, Fits(w), Lands(w), UNCHANGED invoked, WorldKept
    PROVE  Durable'
  <1> USE OpsAssumption DEF Ops, Effects
  <1>1. \A o \in Ops : RecordFits(o, rec'[o])
    BY LandsMoves DEF Durable, Fits
  <1>2. ASSUME NEW o \in Effects, NEW p \in Effects, KeyOf[o] = KeyOf[p], o # p
        PROVE  rec'[o].st = "none" \/ rec'[p].st = "none"
    <2>1. CASE rec[w.op].st = "none" /\ w.op \in Effects
      <3>1. w.kind = "claim"
        BY <2>1, LandsMoves, AllowedIs DEF Fits, Writes
      <3>2. KeyFree(w.op)
        BY <3>1 DEF Lands, StoreAccepts
      <3>3. \A q \in Effects : KeyOf[q] = KeyOf[w.op] => rec[q].st = "none"
        BY <2>1, <3>2 DEF KeyFree
      <3>4. \A q \in Effects : q # w.op => rec'[q] = rec[q]
        BY LandsMoves
      <3> QED
        BY <1>2, <3>3, <3>4 DEF Durable
    <2>2. CASE ~(rec[w.op].st = "none" /\ w.op \in Effects)
      <3>1. \A q \in Effects : rec[q].st = "none" => rec'[q] = rec[q]
        BY <2>2, LandsMoves
      <3> QED
        BY <1>2, <3>1 DEF Durable
    <2> QED
      BY <2>1, <2>2
  <1>3. ASSUME NEW o \in Effects, invoked[o] > 0
        PROVE  /\ invoked[o] = 1 /\ rec'[o].st \notin {"none", "ACCEPTED", "CANCELLED"}
               /\ o \in Native => rec'[o].consumed
    <2>1. /\ invoked[o] = 1 /\ rec[o].st \notin {"none", "ACCEPTED", "CANCELLED"}
          /\ o \in Native => rec[o].consumed
      BY <1>3 DEF Durable
    <2>2. RecordFits(o, rec'[o]) /\ (o \in Native => rec'[o].consumed)
      BY <1>1, <2>1, LandsMoves
    <2>3. rec'[o].st \notin {"none", "ACCEPTED"}
      BY <2>1, LandsMoves, AllowedIs DEF Terminal
    <2>4. rec'[o].st # "CANCELLED"
      BY <2>2 DEF RecordFits
    <2> QED
      BY <2>1, <2>2, <2>3, <2>4
  <1>4. ASSUME NEW o \in Effects, rec'[o].st = "SUCCEEDED"
        PROVE  o \in snap' /\ world'[o] = "applied"
    <2>1. CASE rec[o].st = "SUCCEEDED"
      BY <2>1, LandsPublishes DEF Durable, SuccessIsPublished, WorldKept
    <2>2. CASE rec[o].st # "SUCCEEDED"
      <3>1. w.op = o /\ w.to.st = "SUCCEEDED" /\ w.kind # "control"
        BY <1>4, <2>2, LandsMoves
      <3>2. w.kind = "terminal"
        BY <3>1 DEF Fits, Writes, NonTerminal
      <3>3. world[o] = "applied" /\ w.bearing /\ o \in w.content
        BY <3>1, <3>2 DEF Fits
      <3> QED
        BY <3>3, LandsPublishes DEF WorldKept
    <2> QED
      BY <2>1, <2>2
  <1> QED
    BY <1>1, <1>2, <1>3, <1>4 DEF Durable, SuccessIsPublished

\* A write under way fits on after another one was committed.
LEMMA FitsKept ==
    ASSUME TypeOK, NEW w, Fits(w), Lands(w), NEW v, Fits(v), WorldKept,
           rec[w.op].st = "none" => v.op # w.op
    PROVE  Fits(v)'
  <1>1. v \in Writes /\ v.op \in Ops /\ v.revision \in Nat /\ rev \in Nat
    BY DEF Fits, Writes, TypeOK
  <1>2. /\ rec[v.op].st = "none" <=> rec'[v.op].st = "none"
        /\ rec[v.op].st \notin {"none", "ACCEPTED"} => rec'[v.op].st # "ACCEPTED"
        /\ rec[v.op].st # "none" /\ v.op \in Native => rec'[v.op].base = rec[v.op].base
    BY <1>1, LandsMoves, AllowedIs DEF Terminal
  <1>3. v.bearing => /\ v.revision <= rev'
                     /\ v.revision = rev' => v.content \in {snap', snap' \cup {v.op}}
    BY <1>1, LandsPublishes DEF Fits
  <1>4. RecordFits(v.op, v.to)' = RecordFits(v.op, v.to)
    OBVIOUS
  <1>5. v.to.st = "SUCCEEDED" /\ v.kind = "terminal" /\ v.op \in Effects =>
           world'[v.op] = "applied" /\ v.bearing /\ v.op \in v.content
    BY <1>1 DEF Fits, WorldKept
  <1> QED
    BY <1>1, <1>2, <1>3, <1>5 DEF Fits

\* ... and when nothing was committed.
LEMMA Still ==
    ASSUME UNCHANGED <<rec, snap, rev>>, WorldKept
    PROVE  /\ \A v : Fits(v) => Fits(v)'
           /\ Durable /\ UNCHANGED invoked => Durable'
  <1>1. ASSUME NEW v, Fits(v) PROVE Fits(v)'
    <2>1. v.op \in Ops
      BY <1>1 DEF Fits, Writes
    <2> QED
      BY <1>1, <2>1 DEF Fits, WorldKept
  <1>2. ASSUME Durable, UNCHANGED invoked PROVE Durable'
    <2>1. SuccessIsPublished'
      BY <1>2 DEF Durable, SuccessIsPublished, WorldKept, Ops
    <2> QED
      BY <1>2, <2>1 DEF Durable
  <1> QED
    BY <1>1, <1>2

\* The three ends of a store call that fits.
LEMMA WriteKeeps ==
    ASSUME TypeOK, Durable, late # None => Fits(late), NEW w, Fits(w),
           NEW res \in Outcomes, Write(w, res), UNCHANGED invoked, WorldKept,
           rec[w.op].st = "none" /\ late # None => late.op # w.op,
           w.kind = "save" /\ w.op \in Native => ~storeStopped
    PROVE  /\ StoreTypes' /\ Durable' /\ Cut
           /\ late' # None => Fits(late)'
           /\ \/ Lands(w) /\ late' = late
              \/ UNCHANGED <<rec, snap, rev>> /\ (late' = late \/ (late' = w /\ res = "late"))
           /\ res = "ack" => Lands(w) /\ late' = late
  <1> USE BudgetAssumption
  <1>1. w \in Writes /\ faults \in 0 .. MaxFaults /\ late \in Writes \cup {None}
    BY DEF Fits, TypeOK
  <1>2. faults' \in 0 .. MaxFaults
    BY <1>1 DEF Write
  <1>3. CASE Lands(w) /\ late' = late /\ res \in {"ack", "lost"}
    <2>1. Durable'
      BY <1>3, DurableKept
    <2>2. late' # None => Fits(late)'
      BY <1>3, FitsKept
    <2>3. rec' \in [Ops -> Records]
      BY <1>3, LandsMoves DEF TypeOK
    <2>4. StoreTypes'
      BY <1>1, <1>2, <1>3, <2>3, LandsPublishes DEF StoreTypes
    <2> QED
      BY <1>1, <1>3, <2>1, <2>2, <2>4 DEF Cut
  <1>4. CASE UNCHANGED <<rec, snap, rev>> /\ res # "ack"
             /\ (late' = late \/ (late' = w /\ res = "late"))
    <2>1. Durable' /\ (Fits(w) => Fits(w)') /\ (late # None => (Fits(late) => Fits(late)'))
      BY <1>4, Still
    <2>2. late' # None => Fits(late)'
      <3>1. CASE late' = late
        BY <1>4, <3>1, Still
      <3>2. CASE late' = w
        <4>1. Fits(w)'
          BY <2>1
        <4> QED
          BY <3>2, <4>1
      <3> QED
        BY <1>4, <3>1, <3>2
    <2>3. StoreTypes'
      BY <1>1, <1>2, <1>4 DEF StoreTypes, TypeOK
    <2> QED
      BY <1>4, <2>1, <2>2, <2>3 DEF Cut
  <1> QED
    BY <1>3, <1>4 DEF Write, Lands

\* A session goes on over what lands behind its back.
LEMMA SessionKept ==
    ASSUME IInv, sess # None, sess' = sess, up' = up, UNCHANGED invoked,
           NEW w, Fits(w), Lands(w), Harmless(w), w.kind = "save" => w.op \in Core
    PROVE  Holds(sess)'
  <1> DEFINE o == sess.op
  <1> USE OpsAssumption DEF Ops, Effects
  <1>1. TypeOK /\ Durable /\ Holds(sess) /\ sess \in Sessions
    BY DEF IInv, InSession, TypeOK
  <1>2. o \in Ops /\ sess.base \in Nat /\ rev \in Nat
    BY <1>1 DEF Sessions, TypeOK
  <1>3. rec[o].st # "none" /\ rec[o].st \notin Terminal \ {"CANCELLED"}
    BY <1>1 DEF Holds, Sessions, Terminal
  <1>4. ASSUME rec[o].st = "RUNNING" PROVE rec'[o].st = "RUNNING"
    <2>1. CASE w.op # o \/ w.kind = "control"
      BY <1>1, <1>2, <1>4, <2>1, LandsMoves
    <2>2. CASE w.op = o /\ w.kind # "control"
      <3>1. w.to.st \in Terminal
        BY <1>1, <1>4, <2>2, LandsMoves, AllowedIs
      <3>2. w.kind = "terminal"
        BY <1>4, <2>2, <3>1 DEF Fits, Writes, Terminal
      <3>3. w.to.st = "CANCELLED"
        BY <1>1, <1>4, <2>2, <3>2 DEF Harmless, Holds, Sessions, Terminal
      <3>4. o \in Native /\ ~w.to.consumed
        BY <2>2, <3>3 DEF Fits, RecordFits
      <3>5. rec[o].consumed
        BY <1>1, <1>2, <1>4, <3>4 DEF Durable, RecordFits, LedgerFits
      <3> QED
        BY <1>1, <2>2, <3>4, <3>5, LandsMoves
    <2> QED
      BY <2>1, <2>2
  <1>5. ASSUME sess.at = "validate" PROVE rec'[o].st \in {"ACCEPTED", "CANCELLED"}
    BY <1>1, <1>2, <1>5, LandsMoves, AllowedIs
       DEF Holds, Terminal, NonTerminal, Harmless, Fits, Writes
  <1>6. ASSUME sess.at \in {"validate", "granted", "claimed"}, NEW p \in Effects \ {o}, invoked[p] > 0
        PROVE  (p \in Native => rec'[p].st = "SUCCEEDED") /\ ~Unresolved(p)'
    <2>1. (p \in Native => rec[p].st = "SUCCEEDED") /\ ~Unresolved(p)
      BY <1>1, <1>6 DEF Holds, Alone
    <2>2. rec[p].st \notin {"none", "ACCEPTED", "CANCELLED"} /\ p \in Ops
      BY <1>1, <1>6 DEF Durable
    <2>3. p \in Native => rec'[p].st = "SUCCEEDED"
      BY <1>1, <2>1, <2>2, TerminalStays DEF Terminal
    <2>4. CASE rec'[p].st = "INDETERMINATE"
      <3>1. p \notin Native
        BY <2>3, <2>4
      <3>2. rec[p].st = "INDETERMINATE"
        <4> SUFFICES ASSUME rec[p].st # "INDETERMINATE" PROVE FALSE
          OBVIOUS
        <4>1. p = w.op /\ w.to.st = "INDETERMINATE" /\ w.kind # "control"
          BY <1>1, <2>2, <2>4, LandsMoves
        <4>2. w.kind = "terminal"
          BY <4>1 DEF Fits, Writes, NonTerminal
        <4>3. rec[p].st \notin Terminal
          BY <1>1, <2>2, <2>4, <4>1, TerminalStays
        <4> QED
          BY <4>1, <4>2, <4>3 DEF Harmless
      <3>3. rec'[p] = rec[p]
        BY <1>1, <2>2, <3>1, <3>2, TerminalStays DEF Terminal
      <3>4. PICK c \in Resolutions : rec[c].parent = p /\ rec[c].st = "SUCCEEDED"
        BY <2>1, <3>2 DEF Unresolved
      <3>5. rec'[c] = rec[c]
        BY <1>1, <3>4, TerminalStays DEF Terminal
      <3>6. ~rec[p].reserved
        BY <2>1, <3>2 DEF Unresolved
      <3> QED
        BY <2>3, <3>3, <3>4, <3>5, <3>6 DEF Unresolved
    <2>5. CASE rec'[p].st # "INDETERMINATE"
      BY <2>3, <2>5 DEF Unresolved
    <2> QED
      BY <2>4, <2>5
  <1>7. sess.base <= rev' /\ (sess.base = rev' => sess.view = snap')
    BY <1>1, <1>2, LandsPublishes DEF Holds
  <1>8. o \in Native => rec'[o].base = sess.base
    BY <1>1, <1>2, <1>3, LandsMoves DEF Holds
  <1>9. sess.at \in {"validate", "granted", "claimed"} => invoked'[o] = 0 /\ Alone(o)'
    BY <1>1, <1>6 DEF Holds, Alone
  <1> QED
    BY <1>1, <1>4, <1>5, <1>7, <1>8, <1>9 DEF Holds

--------------------------------------------------------------------------------
(* The parts of the invariant over a step                                     *)

\* Nothing comes between a plane that may be entered and the end of an effect.
LEMMA EntryIsQuiet ==
    ASSUME IInv, Entry, late # None
    PROVE  Harmless(late) /\ (late.kind = "save" => late.op \in Core)
                          /\ (late.kind = "terminal" => rec[late.op].st \in Terminal)
  BY DEF IInv, UnderWay, Entry, Harmless, Fits

\* The write under way, while something else is written or nothing is.
LEMMA UnderWayKept ==
    ASSUME IInv, late' = late, late # None => Fits(late)',
           NEW w, Fits(w), Lands(w) \/ UNCHANGED <<rec, snap, rev>>,
           late # None /\ late.kind = "save" /\ late.op \in Native =>
               up' = "ready" /\ poisoned' /\ ~storeStopped' /\ sess' = None /\ sup' = None,
           poisoned => poisoned' \/ up' # "ready", up # "ready" => up' # "ready"
    PROVE  UnderWay' /\ (late # None /\ Harmless(late) => Harmless(late)')
  <1> SUFFICES ASSUME late # None
               PROVE  UnderWay' /\ (Harmless(late) => Harmless(late)')
    BY DEF UnderWay
  <1>1. late.op \in Ops /\ TypeOK
    BY DEF IInv, UnderWay, Fits, Writes
  <1>2. rec[late.op].st \in Terminal => rec'[late.op].st \in Terminal
    BY <1>1, TerminalStays
  <1>3. UnderWay'
    BY <1>2 DEF IInv, UnderWay
  <1>4. Harmless(late) => Harmless(late)'
    BY <1>2 DEF Harmless
  <1> QED
    BY <1>3, <1>4

\* A step that commits nothing and takes nobody in.
LEMMA NothingCommitted ==
    ASSUME IInv, UNCHANGED <<rec, snap, rev, invoked, up, late>>, WorldKept,
           sess' \in {sess, None}, sup' \in {sup, None}, poisoned => poisoned',
           poisoned => storeStopped' = storeStopped
    PROVE  Durable' /\ UnderWay' /\ InSession' /\ Supervised' /\ Cut
  <1>1. Durable'
    BY Still DEF IInv
  <1>2. UnderWay'
    BY Still DEF IInv, UnderWay
  <1>3. InSession'
    <2>1. ASSUME sess # None, sess' = sess PROVE Holds(sess)' /\ (late # None => Harmless(late)')
      BY <2>1 DEF IInv, InSession, Holds, Alone, Unresolved, Harmless
    <2> QED
      BY <2>1 DEF InSession
  <1>4. Supervised'
    BY DEF IInv, Supervised
  <1> QED
    BY <1>1, <1>2, <1>3, <1>4 DEF Cut

\* A terminal commit of the session, which ends with it, or of a supervisor
\* behind its back.
LEMMA CommitKeeps ==
    ASSUME IInv, NEW w, Fits(w), w.kind = "terminal",
           NEW res \in Outcomes, NEW readable \in BOOLEAN, CommitTerminal(w, res, readable),
           UNCHANGED <<invoked, up, storeStopped>>, UNCHANGED world, sup' = None,
           \/ sess' = None
           \/ sess' = sess /\ (w.to.st = "CANCELLED" \/ w.op \in Core)
    PROVE  /\ StoreTypes' /\ Durable' /\ UnderWay' /\ InSession' /\ Supervised' /\ Cut
           /\ poisoned' \in BOOLEAN
  <1>1. WorldKept /\ TypeOK /\ Durable /\ (late # None => Fits(late))
    BY DEF WorldKept, IInv, UnderWay
  <1>2. Write(w, res) /\ poisoned' = (poisoned \/ Poisons(res, readable, TRUE))
    BY DEF CommitTerminal
  <1>3. rec[w.op].st # "none"
    BY DEF Fits
  <1>4. /\ StoreTypes' /\ Durable' /\ Cut /\ (late' # None => Fits(late)')
        /\ \/ Lands(w) /\ late' = late
           \/ UNCHANGED <<rec, snap, rev>> /\ (late' = late \/ (late' = w /\ res = "late"))
    BY <1>1, <1>2, <1>3, WriteKeeps
  <1>5. poisoned' \in BOOLEAN /\ (poisoned => poisoned') /\ (res = "late" => poisoned')
    BY <1>2 DEF Poisons
  <1>6. CASE late' = late
    <2>1. UnderWay' /\ (late # None /\ Harmless(late) => Harmless(late)')
      BY <1>4, <1>5, <1>6, UnderWayKept DEF IInv, UnderWay
    <2>2. ASSUME sess # None, sess' = sess PROVE Holds(sess)'
      <3>1. CASE Lands(w)
        BY <2>2, <3>1, SessionKept DEF Harmless
      <3>2. CASE UNCHANGED <<rec, snap, rev>>
        BY <2>2, <3>2 DEF IInv, InSession, Holds, Alone, Unresolved
      <3> QED
        BY <1>4, <1>6, <3>1, <3>2
    <2>3. InSession'
      BY <1>6, <2>1, <2>2 DEF IInv, InSession
    <2> QED
      BY <1>4, <1>5, <2>1, <2>3 DEF Supervised
  <1>7. CASE UNCHANGED <<rec, snap, rev>> /\ late' = w /\ res = "late"
    <2>1. UnderWay'
      BY <1>4, <1>5, <1>7 DEF UnderWay
    <2>2. ASSUME sess # None, sess' = sess PROVE Holds(sess)'
      BY <1>7, <2>2 DEF IInv, InSession, Holds, Alone, Unresolved
    <2>3. sess' = sess /\ sess # None => Harmless(late)'
      BY <1>7 DEF Harmless
    <2>4. InSession'
      BY <2>2, <2>3 DEF InSession
    <2> QED
      BY <1>4, <1>5, <2>1, <2>4 DEF Supervised
  <1> QED
    BY <1>4, <1>6, <1>7

\* commit_settlement: as a commit of the session, or nothing.
LEMMA SettleKeeps ==
    ASSUME IInv, NEW w, w.kind = "terminal",
           rec[w.op].st \in NonTerminal => Fits(w),
           NEW res \in Outcomes, NEW readable \in BOOLEAN, Settle(w, res, readable),
           UNCHANGED <<invoked, up, storeStopped>>, UNCHANGED world, sup' = None,
           \/ sess' = None
           \/ sess' = sess /\ (w.to.st = "CANCELLED" \/ w.op \in Core)
    PROVE  /\ StoreTypes' /\ Durable' /\ UnderWay' /\ InSession' /\ Supervised' /\ Cut
           /\ poisoned' \in BOOLEAN
  <1>1. CASE rec[w.op].st \in NonTerminal /\ CommitTerminal(w, res, readable)
    BY <1>1, CommitKeeps
  <1>2. CASE UNCHANGED <<store, poisoned>>
    <2>1. UNCHANGED <<rec, snap, rev, late, faults, poisoned>>
      BY <1>2 DEF store
    <2>2. StoreTypes' /\ poisoned' \in BOOLEAN
      BY <2>1 DEF StoreTypes, IInv, TypeOK
    <2>3. WorldKept
      BY DEF WorldKept
    <2> QED
      BY <2>1, <2>2, <2>3, NothingCommitted
  <1> QED
    BY <1>1, <1>2 DEF Settle

\* A claim of an effect finds no other effect out.
LEMMA ClaimedAlone ==
    ASSUME IInv, NEW o \in Effects, AdmissionOpen, ~Reserved(o), rec[o].st = "none",
           \A p \in Ops \ {o} : rec'[p] = rec[p], UNCHANGED invoked
    PROVE  invoked'[o] = 0 /\ Alone(o)'
  <1> USE OpsAssumption DEF Ops, Effects
  <1>1. invoked[o] = 0
    BY DEF IInv, TypeOK, Durable
  <1>2. ASSUME NEW p \in Effects \ {o}, invoked[p] > 0
        PROVE  (p \in Native => rec[p].st = "SUCCEEDED") /\ ~Unresolved(p)
    <2>1. p \in Native => rec[p].consumed /\ RecordFits(p, rec[p])
      BY <1>2 DEF IInv, Durable
    <2>2. p \in Native => ~rec[p].reserved
      BY <1>2 DEF Reserved
    <2> QED
      BY <1>2, <2>1, <2>2 DEF RecordFits, AdmissionOpen
  <1>3. \A p \in Effects \ {o} : Unresolved(p)' = Unresolved(p)
    BY DEF Unresolved
  <1> QED
    BY <1>1, <1>2, <1>3 DEF Alone

--------------------------------------------------------------------------------
(* The steps                                                                  *)

\* No write, no session and no supervisor on a fresh store.
LEMMA InitIInv == Init => IInv
  <1> SUFFICES ASSUME Init PROVE IInv
    OBVIOUS
  <1> USE OpsAssumption, BudgetAssumption DEF Init, Ops, Effects
  <1>1. TypeOK
    <2>1. Unrecorded \in Records
      BY DEF Records, Unrecorded
    <2>2. rec \in [Ops -> Records] /\ \A o \in Ops : LedgerFits(o, rec[o])
      BY <2>1 DEF LedgerFits, Unrecorded
    <2>3. /\ invoked \in [Ops -> Nat] /\ snap \in SUBSET Ops
          /\ world \in [Ops -> {"untouched", "open", "applied", "absent"}]
      OBVIOUS
    <2>4. /\ rev \in Nat /\ storeStopped \in BOOLEAN /\ storeGen \in Nat
          /\ late \in Writes \cup {None} /\ up \in {"down", "recovering", "ready"}
          /\ gen \in Nat /\ poisoned \in BOOLEAN /\ stopped \in BOOLEAN
      OBVIOUS
    <2>5. /\ sess \in Sessions \cup {None}
          /\ sup \in [op : Ops, at : {"cancel", "driver"}] \cup {None}
      OBVIOUS
    <2>6. faults \in 0 .. MaxFaults /\ crashes \in 0 .. MaxCrashes
      OBVIOUS
    <2> HIDE DEF Init
    <2> QED
      BY <2>2, <2>3, <2>4, <2>5, <2>6 DEF TypeOK
  <1>2. Durable
    BY DEF Durable, SuccessIsPublished, RecordFits, LedgerFits, Unrecorded
  <1> QED
    BY <1>1, <1>2 DEF IInv, UnderWay, InSession, Supervised

\* What a settlement writes for an operation that was not dispatched.
LEMMA CancelFits ==
    ASSUME IInv, NEW o \in Native, rec[o].st \in NonTerminal => rec[o].st = "ACCEPTED"
    PROVE  LET w == Request("terminal", o, Settled(o, "CANCELLED")) IN
           /\ w.kind = "terminal" /\ w.op = o /\ w.to.st = "CANCELLED"
           /\ rec[w.op].st \in NonTerminal => Fits(w)
  <1> USE OpsAssumption DEF Ops, Effects
  <1>1. TypeOK /\ Durable /\ o \in Ops /\ "CANCELLED" \in Terminal
    BY DEF IInv, Terminal
  <1>2. PICK to : to = Settled(o, "CANCELLED")
    OBVIOUS
  <1>3. /\ to \in Records /\ to.st = "CANCELLED" /\ to.consumed = rec[o].consumed
        /\ to.base = rec[o].base
    BY <1>1, <1>2, SettledIs
  <1>4. PICK w : w = Request("terminal", o, to)
    OBVIOUS
  <1>5. w \in Writes /\ w.kind = "terminal" /\ w.op = o /\ w.to = to /\ ~w.bearing
    BY <1>1, <1>3, <1>4, RequestIs
  <1>6. ASSUME rec[o].st \in NonTerminal PROVE Fits(w)
    <2>1. rec[o].st = "ACCEPTED" /\ ~rec[o].consumed
      BY <1>1, <1>6 DEF Durable, RecordFits, LedgerFits
    <2> QED
      BY <1>1, <1>3, <1>5, <2>1 DEF Fits, RecordFits, LedgerFits
  <1> QED
    BY <1>2, <1>3, <1>4, <1>5, <1>6

\* ... and for one that was, with or without its result.
LEMMA EndFits ==
    ASSUME IInv, NEW o \in Native, rec[o].st = "RUNNING",
           NEW state \in {"SUCCEEDED", "INDETERMINATE"}
    PROVE  /\ LET w == Request("terminal", o, Settled(o, "INDETERMINATE")) IN
              w.kind = "terminal" /\ w.op = o /\ Fits(w)
           /\ \A content \in {snap, snap \cup {o}} :
                 LET w == Bearing(o, Settled(o, state), content) IN
                 (state = "SUCCEEDED" => world[o] = "applied" /\ o \in content) =>
                     w.kind = "terminal" /\ w.op = o /\ Fits(w)
           /\ state # "SUCCEEDED" =>
                 LET w == Request("terminal", o, Settled(o, state)) IN
                 w.kind = "terminal" /\ w.op = o /\ Fits(w)
  <1> USE OpsAssumption DEF Ops, Effects
  <1>1. TypeOK /\ Durable /\ o \in Ops /\ rec[o].consumed
    BY DEF IInv, Durable, RecordFits, LedgerFits
  <1>2. ASSUME NEW s \in {"SUCCEEDED", "INDETERMINATE"}, NEW to, to = Settled(o, s)
        PROVE  /\ to \in Records /\ to.st = s /\ to.base = rec[o].base
               /\ RecordFits(o, to) /\ s \in Terminal
    <2>1. s \in Terminal
      BY DEF Terminal
    <2>2. /\ to \in Records /\ to.st = s /\ to.consumed = rec[o].consumed
          /\ to.reserved <=> rec[o].consumed /\ s # "SUCCEEDED"
          /\ to.base = rec[o].base
      BY <1>1, <1>2, <2>1, SettledIs
    <2> QED
      BY <1>1, <2>1, <2>2 DEF RecordFits, LedgerFits
  <1>3. ASSUME NEW s \in {"SUCCEEDED", "INDETERMINATE"}, s # "SUCCEEDED",
               NEW w, w = Request("terminal", o, Settled(o, s))
        PROVE  w.kind = "terminal" /\ w.op = o /\ Fits(w)
    <2>1. PICK to : to = Settled(o, s)
      OBVIOUS
    <2>2. /\ to \in Records /\ to.st = s /\ to.base = rec[o].base
          /\ RecordFits(o, to) /\ s \in Terminal
      BY <1>2, <2>1
    <2>3. w \in Writes /\ w.kind = "terminal" /\ w.op = o /\ w.to = to /\ ~w.bearing
      BY <1>1, <1>3, <2>1, <2>2, RequestIs
    <2> QED
      BY <1>3, <2>2, <2>3 DEF Fits
  <1>4. ASSUME NEW content \in {snap, snap \cup {o}},
               state = "SUCCEEDED" => world[o] = "applied" /\ o \in content,
               NEW w, w = Bearing(o, Settled(o, state), content)
        PROVE  w.kind = "terminal" /\ w.op = o /\ Fits(w)
    <2>1. PICK to : to = Settled(o, state)
      OBVIOUS
    <2>2. /\ to \in Records /\ to.st = state /\ to.base = rec[o].base
          /\ RecordFits(o, to) /\ state \in Terminal
      BY <1>2, <2>1
    <2>3. content \in SUBSET Ops /\ rev \in Nat
      BY <1>1 DEF TypeOK
    <2>4. /\ w \in Writes /\ w.kind = "terminal" /\ w.op = o /\ w.to = to /\ w.bearing
          /\ w.revision = rev /\ w.content = content
      BY <1>1, <1>4, <2>1, <2>2, <2>3, BearingIs
    <2> QED
      BY <1>4, <2>2, <2>3, <2>4 DEF Fits
  <1> QED
    BY <1>3, <1>4

\* ... of an operation without a ledger.
Contents(o) == {snap, snap \cup {o}}
EndedAs(o, state) == [rec[o] EXCEPT !.st = state]

LEMMA EndedIs ==
    ASSUME IInv, NEW o \in Ops \ Native, rec[o].st = "RUNNING",
           NEW state \in {"SUCCEEDED", "FAILED", "INDETERMINATE"},
           NEW to, to = EndedAs(o, state)
    PROVE  to \in Records /\ to.st = state /\ RecordFits(o, to) /\ state \in Terminal
  <1>1. TypeOK /\ Durable /\ state \in Terminal /\ rec[o] \in Records
    BY DEF IInv, TypeOK, Terminal
  <1>2. /\ to \in Records /\ to.st = state /\ to.consumed = rec[o].consumed
        /\ to.reserved = rec[o].reserved /\ to.control = rec[o].control
    BY <1>1 DEF EndedAs, Records
  <1> QED
    BY <1>1, <1>2 DEF Durable, RecordFits, LedgerFits

\* ... with a snapshot
LEMMA PlainEndFits ==
    ASSUME IInv, NEW o \in Ops \ Native, rec[o].st = "RUNNING",
           NEW state \in {"SUCCEEDED", "FAILED", "INDETERMINATE"},
           NEW content \in Contents(o), NEW w,
           w = Bearing(o, EndedAs(o, state), content),
           state = "SUCCEEDED" /\ o \in Effects => world[o] = "applied" /\ o \in content
    PROVE  w.kind = "terminal" /\ w.op = o /\ Fits(w)
  <1>1. TypeOK /\ content \in SUBSET Ops /\ rev \in Nat
    BY DEF IInv, TypeOK, Contents
  <1>2. PICK to : to = EndedAs(o, state)
    OBVIOUS
  <1>3. to \in Records /\ to.st = state /\ RecordFits(o, to) /\ state \in Terminal
    BY <1>2, EndedIs
  <1>4. /\ w \in Writes /\ w.kind = "terminal" /\ w.op = o /\ w.to = to /\ w.bearing
        /\ w.revision = rev /\ w.content = content
    BY <1>1, <1>2, <1>3, BearingIs
  <1> QED
    BY <1>1, <1>3, <1>4 DEF Fits, Contents

\* ... without one
LEMMA ResolutionEndFits ==
    ASSUME IInv, NEW o \in Resolutions, rec[o].st = "RUNNING",
           NEW w, w = Request("terminal", o, EndedAs(o, "SUCCEEDED"))
    PROVE  w.kind = "terminal" /\ w.op = o /\ Fits(w)
  <1>1. TypeOK /\ o \in Ops \ Native /\ o \notin Effects
    BY OpsAssumption DEF IInv, Ops, Effects
  <1>2. PICK to : to = EndedAs(o, "SUCCEEDED")
    OBVIOUS
  <1>3. to \in Records /\ to.st = "SUCCEEDED" /\ RecordFits(o, to) /\ "SUCCEEDED" \in Terminal
    BY <1>1, <1>2, EndedIs
  <1>4. w \in Writes /\ w.kind = "terminal" /\ w.op = o /\ w.to = to /\ ~w.bearing
    BY <1>1, <1>2, <1>3, RequestIs
  <1> QED
    BY <1>1, <1>3, <1>4 DEF Fits

\* Who is claimed, and how it begins.
LEMMA ClaimKeeps ==
    ASSUME IInv, Entry, sess = None, sup = None, NEW o \in Ops, Fresh(o),
           NEW to \in Records, RecordFits(o, to), to.st \in NonTerminal,
           NEW res \in Outcomes, Write(Request("claim", o, to), res),
           NEW at \in {"validate", "claimed", "commit"},
           sess' = IF res = "ack" THEN Session(o, at) ELSE None,
           UNCHANGED <<up, poisoned, storeStopped, sup>>, UNCHANGED <<invoked, world>>,
           at = "validate" => o \in Native /\ to.st = "ACCEPTED",
           at = "claimed" => o \in Plain /\ to.st = "RUNNING",
           at = "commit" => o \in Resolutions /\ to.st = "RUNNING",
           at # "commit" => AdmissionOpen /\ ~Reserved(o),
           o \in Native => to.base = rev
    PROVE  /\ StoreTypes' /\ Durable' /\ UnderWay' /\ InSession' /\ Supervised' /\ Cut
           /\ sess' \in Sessions \cup {None}
  <1> USE OpsAssumption DEF Ops, Effects
  <1>1. WorldKept /\ TypeOK /\ Durable /\ (late # None => Fits(late))
    BY DEF WorldKept, IInv, UnderWay
  <1>2. PICK w : w = Request("claim", o, to)
    OBVIOUS
  <1>3. /\ w \in Writes /\ w.kind = "claim" /\ w.op = o /\ w.to = to /\ ~w.bearing
        /\ Write(w, res)
    BY <1>1, <1>2, RequestIs
  <1>4. rec[o].st = "none" /\ (late # None => late.op # o)
    BY DEF Fresh
  <1>5. Fits(w)
    BY <1>3, <1>4 DEF Fits
  <1>6. /\ StoreTypes' /\ Durable' /\ Cut /\ (late' # None => Fits(late)')
        /\ \/ Lands(w) /\ late' = late
           \/ UNCHANGED <<rec, snap, rev>> /\ (late' = late \/ (late' = w /\ res = "late"))
        /\ res = "ack" => Lands(w) /\ late' = late
    BY <1>1, <1>3, <1>4, <1>5, WriteKeeps
  <1>7. sess' \in Sessions \cup {None}
    BY <1>1 DEF Session, Sessions, TypeOK
  <1>8. UnderWay' /\ (late # None /\ late' = late => Harmless(late)')
    <2>1. CASE late' = late
      BY <1>5, <1>6, <2>1, UnderWayKept, EntryIsQuiet
    <2>2. CASE late' # late
      BY <1>3, <1>6, <2>2 DEF UnderWay
    <2> QED
      BY <2>1, <2>2
  <1>9. InSession'
    <2> SUFFICES ASSUME sess' # None PROVE Holds(sess)' /\ (late' # None => Harmless(late)')
      BY DEF InSession
    <2>1. res = "ack" /\ sess' = Session(o, at) /\ Lands(w) /\ late' = late
      BY <1>6
    <2>2. /\ sess' \in Sessions /\ sess'.op = o /\ sess'.at = at
          /\ sess'.view = snap /\ sess'.base = rev
      BY <1>7, <2>1 DEF Session
    <2>3. /\ rec'[o] = to /\ (\A p \in Ops \ {o} : rec'[p] = rec[p])
          /\ rev' = rev /\ snap' = snap /\ rev \in Nat
      BY <1>1, <1>3, <1>5, <2>1, LandsMoves, LandsPublishes
    <2>4. at # "commit" => invoked'[o] = 0 /\ Alone(o)'
      BY <1>4, <2>3, ClaimedAlone
    <2> QED
      BY <1>8, <2>1, <2>2, <2>3, <2>4 DEF Holds, Entry
  <1> QED
    BY <1>6, <1>7, <1>8, <1>9 DEF Supervised

\* Every step of the plane, its supervisors, the process and the world.
LEMMA StepKeepsIInv == IInv /\ [Next]_vars => IInv' /\ Cut
  <1> SUFFICES ASSUME IInv, [Next]_vars PROVE IInv' /\ Cut
    OBVIOUS
  <1> USE OpsAssumption, BudgetAssumption DEF Ops, Effects
  <1>ClaimAccepted. ASSUME NEW o \in Native, NEW res \in Outcomes, ClaimAccepted(o, res)
                     PROVE  IInv' /\ Cut
    <2>1. PICK to : to = [Unrecorded EXCEPT !.st = "ACCEPTED", !.reserved = TRUE, !.gen = gen, !.base = rev]
      OBVIOUS
    <2>2. /\ to \in Records /\ RecordFits(o, to) /\ to.st \in NonTerminal
          /\ to.st = "ACCEPTED" /\ (o \in Native => to.base = rev)
      BY <2>1
         DEF IInv, TypeOK, Records, Unrecorded, RecordFits, LedgerFits,
             NonTerminal
    <2>3. /\ StoreTypes' /\ Durable' /\ UnderWay' /\ InSession' /\ Supervised' /\ Cut
          /\ sess' \in Sessions \cup {None}
      BY <1>ClaimAccepted, <2>1, <2>2, ClaimKeeps DEF ClaimAccepted, outside
    <2>4. TypeOK'
      BY <1>ClaimAccepted, <2>3
         DEF ClaimAccepted, IInv, TypeOK, StoreTypes, Durable, RecordFits,
             outside
    <2> QED
      BY <2>3, <2>4 DEF IInv
  <1>ClaimAction. ASSUME NEW o \in Plain, NEW res \in Outcomes, ClaimAction(o, res)
                   PROVE  IInv' /\ Cut
    <2>1. PICK to : to = [Unrecorded EXCEPT !.st = "RUNNING"]
      OBVIOUS
    <2>2. /\ to \in Records /\ RecordFits(o, to) /\ to.st \in NonTerminal
          /\ to.st = "RUNNING" /\ (o \in Native => to.base = rev)
      BY <2>1 DEF Records, Unrecorded, RecordFits, LedgerFits, NonTerminal
    <2>3. /\ StoreTypes' /\ Durable' /\ UnderWay' /\ InSession' /\ Supervised' /\ Cut
          /\ sess' \in Sessions \cup {None}
      BY <1>ClaimAction, <2>1, <2>2, ClaimKeeps DEF ClaimAction, outside
    <2>4. TypeOK'
      BY <1>ClaimAction, <2>3
         DEF ClaimAction, IInv, TypeOK, StoreTypes, Durable, RecordFits, outside
    <2> QED
      BY <2>3, <2>4 DEF IInv
  <1>ClaimResolution. ASSUME NEW c \in Resolutions, NEW o \in Ops, NEW res \in Outcomes, ClaimResolution(c, o, res)
                       PROVE  IInv' /\ Cut
    <2>1. PICK to : to = [Unrecorded EXCEPT !.st = "RUNNING", !.parent = o]
      OBVIOUS
    <2>2. /\ to \in Records /\ RecordFits(c, to) /\ to.st \in NonTerminal
          /\ to.st = "RUNNING" /\ (c \in Native => to.base = rev)
      BY <2>1 DEF Records, Unrecorded, RecordFits, LedgerFits, NonTerminal
    <2>3. /\ StoreTypes' /\ Durable' /\ UnderWay' /\ InSession' /\ Supervised' /\ Cut
          /\ sess' \in Sessions \cup {None}
      BY <1>ClaimResolution, <2>1, <2>2, ClaimKeeps DEF ClaimResolution, outside
    <2>4. TypeOK'
      BY <1>ClaimResolution, <2>3
         DEF ClaimResolution, IInv, TypeOK, StoreTypes, Durable, RecordFits,
             outside
    <2> QED
      BY <2>3, <2>4 DEF IInv
  <1>ValidationFails. ASSUME NEW res \in Outcomes, NEW readable \in BOOLEAN, ValidationFails(res, readable)
                       PROVE  IInv' /\ Cut
    <2>1. sess \in Sessions /\ Holds(sess) /\ sup = None /\ sess.op \in Ops
      BY <1>ValidationFails
         DEF ValidationFails, NativeAt, IInv, TypeOK, InSession
    <2>2. sess.op \in Native /\ (rec[sess.op].st \in NonTerminal => rec[sess.op].st = "ACCEPTED")
      BY <1>ValidationFails, <2>1
         DEF ValidationFails, NativeAt, Holds, NonTerminal
    <2>3. PICK w : w = Request("terminal", sess.op, Settled(sess.op, "CANCELLED"))
      OBVIOUS
    <2>4. w.kind = "terminal" /\ w.op = sess.op /\ (rec[w.op].st \in NonTerminal => Fits(w))
      BY <2>2, <2>3, CancelFits
    <2>8. StoreTypes' /\ Durable' /\ UnderWay' /\ InSession' /\ Supervised' /\ Cut /\ poisoned' \in BOOLEAN
      <3>1. CASE Settle(w, res, readable)
        BY <1>ValidationFails, <2>1, <2>4, <3>1, SettleKeeps
           DEF ValidationFails, outside
      <3>2. CASE UNCHANGED <<store, poisoned>>
        <4>1. UNCHANGED <<rec, snap, rev, late, faults, poisoned>> /\ WorldKept
          BY <1>ValidationFails, <3>2
             DEF ValidationFails, store, outside, WorldKept
        <4>2. StoreTypes' /\ poisoned' \in BOOLEAN
          BY <4>1 DEF StoreTypes, IInv, TypeOK
        <4> QED
          BY <1>ValidationFails, <4>1, <4>2, NothingCommitted
             DEF ValidationFails, outside
      <3> QED
        BY <1>ValidationFails, <2>3, <3>1, <3>2 DEF ValidationFails
    <2>9. TypeOK'
      BY <1>ValidationFails, <2>8
         DEF ValidationFails, IInv, TypeOK, StoreTypes, Durable, RecordFits,
             outside
    <2> QED
      BY <2>8, <2>9 DEF IInv
  <1>Dispatch. ASSUME NEW res \in Outcomes, NEW readable \in BOOLEAN, Dispatch(res, readable)
                PROVE  IInv' /\ Cut
    <2>1. sess \in Sessions /\ Holds(sess) /\ sup = None /\ sess.op \in Ops
      BY <1>Dispatch DEF Dispatch, NativeAt, IInv, TypeOK, InSession
    <2>2. /\ sess # None /\ sess.op \in Native /\ sess.at = "validate"
          /\ rec[sess.op].st \in NonTerminal => rec[sess.op].st = "ACCEPTED"
      BY <1>Dispatch, <2>1 DEF Dispatch, NativeAt, Holds, NonTerminal
    <2>3. CASE rec[sess.op].st # "ACCEPTED" /\ sess' = None /\ UNCHANGED <<store, poisoned>>
      <3>1. UNCHANGED <<rec, snap, rev, late, faults, poisoned>> /\ WorldKept
        BY <1>Dispatch, <2>3 DEF Dispatch, store, outside, WorldKept
      <3>2. Durable' /\ UnderWay' /\ InSession' /\ Supervised' /\ Cut
        BY <1>Dispatch, <2>3, <3>1, NothingCommitted DEF Dispatch, outside
      <3>3. TypeOK'
        BY <1>Dispatch, <2>3, <3>1 DEF Dispatch, IInv, TypeOK, outside
      <3> QED
        BY <3>2, <3>3 DEF IInv
    <2>4. CASE /\ sess' = None
               /\ Settle(Request("terminal", sess.op, Settled(sess.op, "CANCELLED")), res, readable)
      <3>1. PICK w : w = Request("terminal", sess.op, Settled(sess.op, "CANCELLED"))
        OBVIOUS
      <3>2. w.kind = "terminal" /\ w.op = sess.op /\ (rec[w.op].st \in NonTerminal => Fits(w))
        BY <2>2, <3>1, CancelFits
      <3>3. StoreTypes' /\ Durable' /\ UnderWay' /\ InSession' /\ Supervised' /\ Cut /\ poisoned' \in BOOLEAN
        BY <1>Dispatch, <2>1, <2>4, <3>1, <3>2, SettleKeeps
           DEF Dispatch, outside
      <3>4. TypeOK'
        BY <1>Dispatch, <2>4, <3>3
           DEF Dispatch, IInv, TypeOK, StoreTypes, Durable, RecordFits, outside
      <3> QED
        BY <3>3, <3>4 DEF IInv
    <2>5. CASE /\ rec[sess.op].st = "ACCEPTED" /\ ~stopped /\ ~storeStopped
               /\ Write(Request("save", sess.op, [rec[sess.op] EXCEPT !.st = "RUNNING", !.consumed = TRUE]), res)
               /\ poisoned' = (poisoned \/ res # "ack")
               /\ sess' = IF res = "ack" THEN [sess EXCEPT !.at = "granted"] ELSE None
      <3>1. PICK to : to = [rec[sess.op] EXCEPT !.st = "RUNNING", !.consumed = TRUE]
        OBVIOUS
      <3>2. rec[sess.op] \in Records /\ RecordFits(sess.op, rec[sess.op]) /\ sess \in Sessions
        BY <2>1 DEF IInv, TypeOK, Durable
      <3>3. /\ to \in Records /\ to.st = "RUNNING" /\ to.consumed
            /\ to.reserved = rec[sess.op].reserved /\ to.base = rec[sess.op].base
            /\ to.control = rec[sess.op].control
        <4>1. PICK t \in BOOLEAN : t = TRUE
          OBVIOUS
        <4>2. to = [rec[sess.op] EXCEPT !.st = "RUNNING", !.consumed = t]
          BY <3>1, <4>1
        <4>3. PICK r \in Records : r = rec[sess.op]
          BY <3>2
        <4>4. to = [r EXCEPT !.st = "RUNNING", !.consumed = t]
          BY <4>2, <4>3
        <4>5. to \in Records
          BY <4>4 DEF Records, NonTerminal
        <4>6. to.st = "RUNNING" /\ to.consumed = t
          BY <4>4
        <4>7. to.reserved = r.reserved /\ to.base = r.base /\ to.control = r.control
          BY <4>4
        <4> QED
          BY <4>1, <4>3, <4>5, <4>6, <4>7
      <3>4. RecordFits(sess.op, to)
        BY <2>2, <2>5, <3>2, <3>3 DEF RecordFits, LedgerFits
      <3>5. PICK w : w = Request("save", sess.op, to)
        OBVIOUS
      <3>6. w \in Writes /\ w.kind = "save" /\ w.op = sess.op /\ w.to = to /\ ~w.bearing
        BY <2>1, <3>3, <3>5, RequestIs DEF IInv
      <3>7. Fits(w) /\ rec[w.op].st # "none"
        BY <2>2, <2>5, <3>3, <3>4, <3>6 DEF Fits
      <3>8. /\ StoreTypes' /\ Durable' /\ Cut /\ (late' # None => Fits(late)')
            /\ \/ Lands(w) /\ late' = late
               \/ UNCHANGED <<rec, snap, rev>> /\ (late' = late \/ (late' = w /\ res = "late"))
            /\ res = "ack" => Lands(w) /\ late' = late
        BY <1>Dispatch, <2>5, <3>1, <3>5, <3>6, <3>7, WriteKeeps
           DEF Dispatch, outside, WorldKept, IInv, UnderWay
      <3>9. poisoned' \in BOOLEAN /\ (poisoned => poisoned') /\ (res # "ack" => poisoned')
        BY <2>5
      <3>10. ~(late # None /\ late.kind = "save" /\ late.op \in Native)
        BY <2>1, <2>2 DEF IInv, UnderWay
      <3>11. UnderWay' /\ (late # None /\ late' = late => Harmless(late)')
        <4>1. CASE late' = late
          BY <1>Dispatch, <2>2, <3>7, <3>8, <3>9, <3>10, <4>1, UnderWayKept
             DEF Dispatch, IInv, InSession
        <4>2. CASE late' = w /\ res = "late"
          <5>1. up = "ready" /\ ~storeStopped /\ sup = None /\ sess' = None /\ poisoned'
            BY <2>1, <2>5, <3>9, <4>2 DEF Holds
          <5>2. UnderWay'
            BY <1>Dispatch, <3>6, <3>8, <4>2, <5>1 DEF Dispatch, UnderWay
          <5>3. late' = late => Harmless(late)'
            BY <3>6, <4>2 DEF Harmless
          <5> QED
            BY <5>2, <5>3
        <4> QED
          BY <3>8, <4>1, <4>2
      <3>12. InSession'
        <4> SUFFICES ASSUME sess' # None PROVE Holds(sess)' /\ (late' # None => Harmless(late)')
          BY DEF InSession
        <4>1. /\ res = "ack" /\ Lands(w) /\ late' = late
              /\ sess' = [sess EXCEPT !.at = "granted"]
          BY <2>5, <3>8
        <4>2. /\ sess'.op = sess.op /\ sess'.at = "granted"
              /\ sess'.view = sess.view /\ sess'.base = sess.base
          BY <2>1, <4>1
        <4>3. /\ rec'[sess.op] = to /\ (\A p \in Ops \ {sess.op} : rec'[p] = rec[p])
              /\ rev' = rev /\ snap' = snap
          BY <3>6, <3>7, <4>1, LandsMoves, LandsPublishes DEF IInv
        <4>4. invoked'[sess.op] = 0 /\ Alone(sess.op)'
          <5>1. invoked' = invoked /\ invoked[sess.op] = 0 /\ Alone(sess.op)
            BY <1>Dispatch, <2>1, <2>2 DEF Dispatch, outside, Holds
          <5>2. \A p \in Effects \ {sess.op} : Unresolved(p)' = Unresolved(p)
            BY <2>2, <4>3 DEF Unresolved
          <5> QED
            BY <4>3, <5>1, <5>2 DEF Alone
        <4> QED
          BY <1>Dispatch, <2>1, <2>2, <3>3, <3>11, <4>1, <4>2, <4>3, <4>4
             DEF Dispatch, Holds
      <3>13. sess' \in Sessions \cup {None}
        BY <2>1, <2>5 DEF Sessions
      <3>14. TypeOK'
        BY <1>Dispatch, <3>8, <3>9, <3>13
           DEF Dispatch, IInv, TypeOK, StoreTypes, Durable, RecordFits, outside
      <3>15. Supervised'
        BY <1>Dispatch, <2>1 DEF Dispatch, Supervised
      <3> QED
        BY <3>8, <3>11, <3>12, <3>14, <3>15 DEF IInv
    <2> QED
      BY <1>Dispatch, <2>3, <2>4, <2>5 DEF Dispatch
  <1>ReturnResult. ASSUME NEW state \in {"SUCCEEDED", "INDETERMINATE"}, NEW res \in Outcomes, NEW readable \in BOOLEAN, ReturnResult(state, res, readable)
                    PROVE  IInv' /\ Cut
    <2>1. sess \in Sessions /\ Holds(sess) /\ sup = None /\ sess.op \in Ops
      BY <1>ReturnResult DEF ReturnResult, NativeAt, IInv, TypeOK, InSession
    <2>2. /\ sess # None /\ sess.op \in Native /\ rec[sess.op].st = "RUNNING"
          /\ rec[sess.op].base = sess.base /\ (sess.base = rev => sess.view = snap)
      BY <1>ReturnResult, <2>1 DEF ReturnResult, NativeAt, Holds
    <2>3. ASSUME NEW published \in BOOLEAN, state = "SUCCEEDED" => published,
                 published => world[sess.op] = "applied",
                 Settle(ResultWrite(state, published), res, readable)
          PROVE  StoreTypes' /\ Durable' /\ UnderWay' /\ InSession' /\ Supervised' /\ Cut /\ poisoned' \in BOOLEAN
      <3>1. PICK w : w = ResultWrite(state, published)
        OBVIOUS
      <3>2. w.kind = "terminal" /\ w.op = sess.op /\ Fits(w)
        <4>1. CASE rev # rec[sess.op].base
          <5>1. w = Request("terminal", sess.op, Settled(sess.op, "INDETERMINATE"))
            BY <3>1, <4>1 DEF ResultWrite
          <5> QED
            BY <2>2, <5>1, EndFits
        <4>2. CASE rev = rec[sess.op].base /\ published
          <5>1. w = Bearing(sess.op, Settled(sess.op, state), snap \cup {sess.op})
            BY <2>2, <3>1, <4>2 DEF ResultWrite
          <5> QED
            BY <2>2, <2>3, <4>2, <5>1, EndFits
        <4>3. CASE rev = rec[sess.op].base /\ ~published
          <5>1. w = Request("terminal", sess.op, Settled(sess.op, state)) /\ state # "SUCCEEDED"
            BY <2>3, <3>1, <4>3 DEF ResultWrite
          <5>2. w = Request("terminal", sess.op, Settled(sess.op, "INDETERMINATE"))
            BY <5>1
          <5> QED
            BY <2>2, <5>2, EndFits
        <4> QED
          BY <4>1, <4>2, <4>3
      <3> QED
        BY <1>ReturnResult, <2>1, <2>3, <3>1, <3>2, SettleKeeps
           DEF ReturnResult, outside
    <2>8. StoreTypes' /\ Durable' /\ UnderWay' /\ InSession' /\ Supervised' /\ Cut /\ poisoned' \in BOOLEAN
      BY <1>ReturnResult, <2>3 DEF ReturnResult
    <2>9. TypeOK'
      BY <1>ReturnResult, <2>8
         DEF ReturnResult, IInv, TypeOK, StoreTypes, Durable, RecordFits,
             outside
    <2> QED
      BY <2>8, <2>9 DEF IInv
  <1>ReturnRaised. ASSUME NEW res \in Outcomes, NEW readable \in BOOLEAN, ReturnRaised(res, readable)
                    PROVE  IInv' /\ Cut
    <2>1. sess \in Sessions /\ Holds(sess) /\ sup = None /\ sess.op \in Ops
      BY <1>ReturnRaised DEF ReturnRaised, NativeAt, IInv, TypeOK, InSession
    <2>2. sess # None /\ sess.op \in Native /\ rec[sess.op].st = "RUNNING"
      BY <1>ReturnRaised, <2>1 DEF ReturnRaised, NativeAt, Holds
    <2>3. PICK w : w = Request("terminal", sess.op, Settled(sess.op, "INDETERMINATE"))
      OBVIOUS
    <2>4. w.kind = "terminal" /\ w.op = sess.op /\ Fits(w)
      BY <2>2, <2>3, EndFits
    <2>8. StoreTypes' /\ Durable' /\ UnderWay' /\ InSession' /\ Supervised' /\ Cut /\ poisoned' \in BOOLEAN
      <3>1. CASE Settle(w, res, readable)
        BY <1>ReturnRaised, <2>1, <2>4, <3>1, SettleKeeps
           DEF ReturnRaised, outside
      <3>2. CASE UNCHANGED <<store, poisoned>>
        <4>1. UNCHANGED <<rec, snap, rev, late, faults, poisoned>> /\ WorldKept
          BY <1>ReturnRaised, <3>2 DEF ReturnRaised, store, outside, WorldKept
        <4>2. StoreTypes' /\ poisoned' \in BOOLEAN
          BY <4>1 DEF StoreTypes, IInv, TypeOK
        <4> QED
          BY <1>ReturnRaised, <4>1, <4>2, NothingCommitted
             DEF ReturnRaised, outside
      <3> QED
        BY <1>ReturnRaised, <2>3, <3>1, <3>2 DEF ReturnRaised
    <2>9. TypeOK'
      BY <1>ReturnRaised, <2>8
         DEF ReturnRaised, IInv, TypeOK, StoreTypes, Durable, RecordFits,
             outside
    <2> QED
      BY <2>8, <2>9 DEF IInv
  <1>RefuseAction. ASSUME NEW res \in Outcomes, NEW readable \in BOOLEAN, RefuseAction(res, readable)
                    PROVE  IInv' /\ Cut
    <2>1. sess \in Sessions /\ Holds(sess) /\ sup = None /\ sess.op \in Ops
      BY <1>RefuseAction
         DEF RefuseAction, IInv, TypeOK, InSession, Supervised, External
    <2>2. /\ sess # None /\ sess.op \in Plain /\ rec[sess.op].st = "RUNNING"
          /\ sess.base = rev => sess.view = snap
      BY <1>RefuseAction, <2>1 DEF RefuseAction, Holds
    <2>3. ASSUME NEW state \in {"SUCCEEDED", "FAILED", "INDETERMINATE"}, NEW content \in {snap, snap \cup {sess.op}},
                 state = "SUCCEEDED" => world[sess.op] = "applied" /\ sess.op \in content,
                 EndAction(state, content, res, readable)
          PROVE  StoreTypes' /\ Durable' /\ UnderWay' /\ InSession' /\ Supervised' /\ Cut /\ poisoned' \in BOOLEAN
      <3>1. PICK w : w = Bearing(sess.op, [rec[sess.op] EXCEPT !.st = state], content)
        OBVIOUS
      <3>2. w.kind = "terminal" /\ w.op = sess.op /\ Fits(w)
        <4>1. PICK o \in Ops \ Native : o = sess.op
          BY <2>2
        <4>2. rec[o].st = "RUNNING" /\ content \in Contents(o)
          BY <2>2, <4>1 DEF Contents
        <4>3. w = Bearing(o, EndedAs(o, state), content)
          BY <3>1, <4>1 DEF EndedAs
        <4>4. state = "SUCCEEDED" /\ o \in Effects => world[o] = "applied" /\ o \in content
          BY <2>3, <4>1
        <4>5. w.kind = "terminal" /\ w.op = o /\ Fits(w)
          BY <4>2, <4>3, <4>4, PlainEndFits
        <4> QED
          BY <4>1, <4>5
      <3> QED
        BY <2>1, <2>3, <3>1, <3>2, CommitKeeps DEF EndAction, outside
    <2>8. StoreTypes' /\ Durable' /\ UnderWay' /\ InSession' /\ Supervised' /\ Cut /\ poisoned' \in BOOLEAN
      BY <1>RefuseAction, <2>2, <2>3 DEF RefuseAction
    <2>9. TypeOK'
      BY <1>RefuseAction, <2>8
         DEF RefuseAction, EndAction, IInv, TypeOK, StoreTypes, Durable,
             RecordFits, outside
    <2> QED
      BY <2>8, <2>9 DEF IInv
  <1>ReturnAction. ASSUME NEW res \in Outcomes, NEW readable \in BOOLEAN, ReturnAction(res, readable)
                    PROVE  IInv' /\ Cut
    <2>1. sess \in Sessions /\ Holds(sess) /\ sup = None /\ sess.op \in Ops
      BY <1>ReturnAction DEF ReturnAction, PlainReturn, IInv, TypeOK, InSession
    <2>2. /\ sess # None /\ sess.op \in Plain /\ rec[sess.op].st = "RUNNING"
          /\ sess.base = rev => sess.view = snap
      BY <1>ReturnAction, <2>1 DEF ReturnAction, PlainReturn, Holds
    <2>3. ASSUME NEW state \in {"SUCCEEDED", "FAILED", "INDETERMINATE"}, NEW content \in {snap, snap \cup {sess.op}},
                 state = "SUCCEEDED" => world[sess.op] = "applied" /\ sess.op \in content,
                 EndAction(state, content, res, readable)
          PROVE  StoreTypes' /\ Durable' /\ UnderWay' /\ InSession' /\ Supervised' /\ Cut /\ poisoned' \in BOOLEAN
      <3>1. PICK w : w = Bearing(sess.op, [rec[sess.op] EXCEPT !.st = state], content)
        OBVIOUS
      <3>2. w.kind = "terminal" /\ w.op = sess.op /\ Fits(w)
        <4>1. PICK o \in Ops \ Native : o = sess.op
          BY <2>2
        <4>2. rec[o].st = "RUNNING" /\ content \in Contents(o)
          BY <2>2, <4>1 DEF Contents
        <4>3. w = Bearing(o, EndedAs(o, state), content)
          BY <3>1, <4>1 DEF EndedAs
        <4>4. state = "SUCCEEDED" /\ o \in Effects => world[o] = "applied" /\ o \in content
          BY <2>3, <4>1
        <4>5. w.kind = "terminal" /\ w.op = o /\ Fits(w)
          BY <4>2, <4>3, <4>4, PlainEndFits
        <4> QED
          BY <4>1, <4>5
      <3> QED
        BY <2>1, <2>3, <3>1, <3>2, CommitKeeps DEF EndAction, outside
    <2>8. StoreTypes' /\ Durable' /\ UnderWay' /\ InSession' /\ Supervised' /\ Cut /\ poisoned' \in BOOLEAN
      BY <1>ReturnAction, <2>2, <2>3 DEF ReturnAction
    <2>9. TypeOK'
      BY <1>ReturnAction, <2>8
         DEF ReturnAction, EndAction, IInv, TypeOK, StoreTypes, Durable,
             RecordFits, outside
    <2> QED
      BY <2>8, <2>9 DEF IInv
  <1>CommitResolution. ASSUME NEW res \in Outcomes, NEW readable \in BOOLEAN, CommitResolution(res, readable)
                        PROVE  IInv' /\ Cut
    <2>1. sess \in Sessions /\ Holds(sess) /\ sup = None /\ sess.op \in Ops
      BY <1>CommitResolution
         DEF CommitResolution, IInv, TypeOK, InSession, Supervised, External,
             Sessions
    <2>2. sess # None /\ sess.op \in Resolutions /\ rec[sess.op].st = "RUNNING"
      BY <1>CommitResolution, <2>1 DEF CommitResolution, Holds
    <2>3. PICK w : w = Request("terminal", sess.op, [rec[sess.op] EXCEPT !.st = "SUCCEEDED"])
      OBVIOUS
    <2>4. w.kind = "terminal" /\ w.op = sess.op /\ Fits(w)
      <3>1. w = Request("terminal", sess.op, EndedAs(sess.op, "SUCCEEDED"))
        BY <2>3 DEF EndedAs
      <3> QED
        BY <2>2, <3>1, ResolutionEndFits
    <2>8. StoreTypes' /\ Durable' /\ UnderWay' /\ InSession' /\ Supervised' /\ Cut /\ poisoned' \in BOOLEAN
      BY <1>CommitResolution, <2>1, <2>3, <2>4, CommitKeeps
         DEF CommitResolution, outside
    <2>9. TypeOK'
      BY <1>CommitResolution, <2>8
         DEF CommitResolution, IInv, TypeOK, StoreTypes, Durable, RecordFits,
             outside
    <2> QED
      BY <2>8, <2>9 DEF IInv
  <1>Cancel. ASSUME NEW o \in Native, NEW res \in Outcomes, NEW readable \in BOOLEAN, Cancel(o, res, readable)
              PROVE  IInv' /\ Cut
    <2>1. TypeOK /\ Durable /\ Entry /\ sup = None /\ (sess # None => sess.at \in External)
      BY <1>Cancel DEF Cancel, IInv, PermitFree
    <2>2. PICK to : to = [rec[o] EXCEPT !.control = TRUE]
      OBVIOUS
    <2>3. /\ to \in Records /\ to.st = rec[o].st /\ to.consumed = rec[o].consumed
          /\ to.reserved = rec[o].reserved /\ RecordFits(o, rec[o]) /\ rec[o].st # "none"
      <3>1. RecordFits(o, rec[o]) /\ rec[o].st # "none" /\ rec[o] \in Records
        BY <1>Cancel, <2>1 DEF Cancel, TypeOK, Durable
      <3>2. PICK t \in BOOLEAN : t = TRUE
        OBVIOUS
      <3>3. to = [rec[o] EXCEPT !.control = t]
        BY <2>2, <3>2
      <3> QED
        BY <3>1, <3>2, <3>3 DEF Records
    <2>4. RecordFits(o, to)
      BY <2>3 DEF RecordFits, LedgerFits
    <2>5. PICK w : w = Request("control", o, to)
      OBVIOUS
    <2>6. /\ w \in Writes /\ w.kind = "control" /\ w.op = o /\ w.to = to /\ ~w.bearing
          /\ w.expected = rec[o]
      BY <2>1, <2>3, <2>5, RequestIs
    <2>7. Fits(w)
      BY <2>2, <2>3, <2>4, <2>6 DEF Fits
    <2>8. /\ StoreTypes' /\ Durable' /\ Cut /\ (late' # None => Fits(late)')
          /\ \/ Lands(w) /\ late' = late
             \/ UNCHANGED <<rec, snap, rev>> /\ (late' = late \/ (late' = w /\ res = "late"))
          /\ res = "ack" => Lands(w) /\ late' = late
      BY <1>Cancel, <2>2, <2>3, <2>5, <2>6, <2>7, WriteKeeps
         DEF Cancel, outside, WorldKept, IInv, UnderWay
    <2>9. UnderWay' /\ (late' # None => Harmless(late)')
      <3>1. CASE late' = late
        BY <1>Cancel, <2>1, <2>7, <2>8, <3>1, UnderWayKept, EntryIsQuiet
           DEF Entry
      <3>2. CASE late' = w
        BY <2>6, <2>8, <3>2 DEF UnderWay, Harmless
      <3> QED
        BY <2>8, <3>1, <3>2
    <2>10. InSession'
      <3>1. ASSUME sess # None PROVE Holds(sess)'
        <4>1. CASE Lands(w)
          BY <1>Cancel, <2>6, <2>7, <3>1, <4>1, SessionKept
             DEF Cancel, Harmless, outside
        <4>2. CASE UNCHANGED <<rec, snap, rev>>
          BY <1>Cancel, <3>1, <4>2
             DEF Cancel, IInv, InSession, Holds, Alone, Unresolved, outside
        <4> QED
          BY <2>8, <4>1, <4>2
      <3> QED
        BY <1>Cancel, <2>9, <3>1 DEF Cancel, InSession
    <2>11. Supervised'
      <3> SUFFICES ASSUME sup' # None PROVE Supervised'
        BY DEF Supervised
      <3>1. sup' = [op |-> o, at |-> "cancel"] /\ rec[o].st = "ACCEPTED" /\ Lands(w)
        BY <1>Cancel, <2>8 DEF Cancel
      <3>2. rec'[o].st = "ACCEPTED"
        BY <2>1, <2>3, <2>6, <2>7, <3>1, LandsMoves
      <3> QED
        BY <1>Cancel, <2>1, <3>1, <3>2 DEF Cancel, Supervised, Entry
    <2>12. poisoned' \in BOOLEAN
      BY <1>Cancel DEF Cancel, Poisons
    <2>13. sup' \in [op : Ops, at : {"cancel", "driver"}] \cup {None}
      BY <1>Cancel DEF Cancel
    <2>14. TypeOK'
      BY <1>Cancel, <2>8, <2>12, <2>13
         DEF Cancel, IInv, TypeOK, StoreTypes, Durable, RecordFits, outside
    <2> QED
      BY <2>8, <2>9, <2>10, <2>11, <2>14 DEF IInv
  <1>SettleCancelled. ASSUME NEW res \in Outcomes, NEW readable \in BOOLEAN, SettleCancelled(res, readable)
                       PROVE  IInv' /\ Cut
    <2>1. sup \in [op : Ops, at : {"cancel", "driver"}] /\ sup.op \in Native
      BY <1>SettleCancelled DEF SettleCancelled, IInv, TypeOK, Supervised
    <2>2. rec[sup.op].st \in NonTerminal => rec[sup.op].st = "ACCEPTED"
      BY <1>SettleCancelled, <2>1
         DEF SettleCancelled, IInv, Supervised, NonTerminal
    <2>3. PICK w : w = Request("terminal", sup.op, Settled(sup.op, "CANCELLED"))
      OBVIOUS
    <2>4. /\ w.kind = "terminal" /\ w.op = sup.op /\ w.to.st = "CANCELLED"
          /\ rec[w.op].st \in NonTerminal => Fits(w)
      BY <2>1, <2>2, <2>3, CancelFits
    <2>8. StoreTypes' /\ Durable' /\ UnderWay' /\ InSession' /\ Supervised' /\ Cut /\ poisoned' \in BOOLEAN
      BY <1>SettleCancelled, <2>3, <2>4, SettleKeeps
         DEF SettleCancelled, outside
    <2>9. TypeOK'
      BY <1>SettleCancelled, <2>8
         DEF SettleCancelled, IInv, TypeOK, StoreTypes, Durable, RecordFits,
             outside
    <2> QED
      BY <2>8, <2>9 DEF IInv
  <1>CommitDriverFailure. ASSUME NEW res \in Outcomes, NEW readable \in BOOLEAN, CommitDriverFailure(res, readable)
                           PROVE  IInv' /\ Cut
    <2>1. /\ sup \in [op : Ops, at : {"cancel", "driver"}] /\ sup.op \in Core
          /\ rec[sup.op].st # "none" /\ TypeOK /\ Durable
      BY <1>CommitDriverFailure
         DEF CommitDriverFailure, IInv, TypeOK, Supervised
    <2>2. PICK to : to = [rec[sup.op] EXCEPT !.st = "FAILED"]
      OBVIOUS
    <2>3. /\ to \in Records /\ to.st = "FAILED" /\ to.consumed = rec[sup.op].consumed
          /\ to.reserved = rec[sup.op].reserved /\ to.control = rec[sup.op].control
          /\ RecordFits(sup.op, rec[sup.op]) /\ rec[sup.op].st # "ACCEPTED"
      <3>1. sup.op \in Ops /\ rec[sup.op] \in Records /\ RecordFits(sup.op, rec[sup.op])
        BY <2>1 DEF TypeOK, Durable
      <3>2. rec[sup.op].st # "ACCEPTED"
        BY <2>1, <3>1 DEF RecordFits, LedgerFits
      <3>3. /\ to \in Records /\ to.st = "FAILED" /\ to.consumed = rec[sup.op].consumed
            /\ to.reserved = rec[sup.op].reserved /\ to.control = rec[sup.op].control
        BY <2>2, <3>1 DEF Records, Terminal
      <3> QED
        BY <3>1, <3>2, <3>3
    <2>4. RecordFits(sup.op, to) /\ snap \cup {sup.op} \in SUBSET Ops /\ rev \in Nat
      BY <2>1, <2>3 DEF RecordFits, LedgerFits, TypeOK
    <2>5. PICK w : w = Bearing(sup.op, to, snap \cup {sup.op})
      OBVIOUS
    <2>6. /\ w \in Writes /\ w.kind = "terminal" /\ w.op = sup.op /\ w.to = to /\ w.bearing
          /\ w.revision = rev /\ w.content = snap \cup {sup.op}
      BY <2>1, <2>3, <2>4, <2>5, BearingIs
    <2>7. Fits(w)
      BY <2>1, <2>3, <2>4, <2>6 DEF Fits, Terminal
    <2>8. StoreTypes' /\ Durable' /\ UnderWay' /\ InSession' /\ Supervised' /\ Cut /\ poisoned' \in BOOLEAN
      BY <1>CommitDriverFailure, <2>1, <2>2, <2>5, <2>6, <2>7, CommitKeeps
         DEF CommitDriverFailure, outside
    <2>9. TypeOK'
      BY <1>CommitDriverFailure, <2>8
         DEF CommitDriverFailure, IInv, TypeOK, StoreTypes, Durable, RecordFits,
             outside
    <2> QED
      BY <2>8, <2>9 DEF IInv
  <1>DriverFailure. ASSUME NEW f \in Core, NEW res \in Outcomes, DriverFailure(f, res)
                     PROVE  IInv' /\ Cut
    <2>1. TypeOK /\ Durable /\ Entry /\ sup = None /\ (sess # None => sess.at \in External)
          /\ rec[f].st = "none" /\ (late # None => late.op # f)
      BY <1>DriverFailure DEF DriverFailure, IInv, PermitFree, Fresh
    <2>2. PICK to : to = [Unrecorded EXCEPT !.st = "RUNNING"]
      OBVIOUS
    <2>3. to \in Records /\ to.st = "RUNNING" /\ RecordFits(f, to)
      <3>1. /\ to \in Records /\ to.st = "RUNNING" /\ ~to.consumed
            /\ ~to.reserved /\ ~to.control
        BY <2>2 DEF Records, Unrecorded, NonTerminal
      <3>2. f \notin Native
        OBVIOUS
      <3> QED
        BY <3>1, <3>2 DEF RecordFits, LedgerFits
    <2>5. PICK w : w = Request("save", f, to)
      OBVIOUS
    <2>6. w \in Writes /\ w.kind = "save" /\ w.op = f /\ w.to = to /\ ~w.bearing
      BY <2>1, <2>3, <2>5, RequestIs
    <2>7. Fits(w)
      BY <2>3, <2>6 DEF Fits
    <2>8. /\ StoreTypes' /\ Durable' /\ Cut /\ (late' # None => Fits(late)')
          /\ \/ Lands(w) /\ late' = late
             \/ UNCHANGED <<rec, snap, rev>> /\ (late' = late \/ (late' = w /\ res = "late"))
          /\ res = "ack" => Lands(w) /\ late' = late
      BY <1>DriverFailure, <2>1, <2>2, <2>5, <2>6, <2>7, WriteKeeps
         DEF DriverFailure, outside, WorldKept, IInv, UnderWay
    <2>9. UnderWay' /\ (late' # None => Harmless(late)')
      <3>1. CASE late' = late
        BY <1>DriverFailure, <2>1, <2>7, <2>8, <3>1, UnderWayKept, EntryIsQuiet
           DEF Entry
      <3>2. CASE late' = w
        BY <2>6, <2>8, <3>2 DEF UnderWay, Harmless
      <3> QED
        BY <2>8, <3>1, <3>2
    <2>10. InSession'
      <3>1. ASSUME sess # None PROVE Holds(sess)'
        <4>1. CASE Lands(w)
          BY <1>DriverFailure, <2>6, <2>7, <3>1, <4>1, SessionKept
             DEF DriverFailure, Harmless, outside
        <4>2. CASE UNCHANGED <<rec, snap, rev>>
          BY <1>DriverFailure, <3>1, <4>2
             DEF DriverFailure, IInv, InSession, Holds, Alone, Unresolved,
                 outside
        <4> QED
          BY <2>8, <4>1, <4>2
      <3> QED
        BY <1>DriverFailure, <2>9, <3>1 DEF DriverFailure, InSession
    <2>11. Supervised'
      <3> SUFFICES ASSUME sup' # None PROVE Supervised'
        BY DEF Supervised
      <3>1. sup' = [op |-> f, at |-> "driver"] /\ Lands(w)
        BY <1>DriverFailure, <2>8 DEF DriverFailure
      <3>2. rec'[f].st # "none"
        BY <2>1, <2>3, <2>6, <2>7, <3>1, LandsMoves
      <3> QED
        BY <1>DriverFailure, <2>1, <3>1, <3>2
           DEF DriverFailure, Supervised, Entry
    <2>13. sup' \in [op : Ops, at : {"cancel", "driver"}] \cup {None}
      BY <1>DriverFailure DEF DriverFailure
    <2>14. TypeOK'
      BY <1>DriverFailure, <2>8, <2>13
         DEF DriverFailure, IInv, TypeOK, StoreTypes, Durable, RecordFits,
             outside
    <2> QED
      BY <2>8, <2>9, <2>10, <2>11, <2>14 DEF IInv
  <1>Invoke. ASSUME NEW o \in Effects, Invoke(o)
              PROVE  IInv' /\ Cut
    <2>1. /\ sess \in Sessions /\ sess # None /\ Holds(sess) /\ sess.op = o
          /\ sess.at \in {"granted", "claimed"} /\ invoked[o] = 0 /\ rec[o].st = "RUNNING"
          /\ late # None => Harmless(late)
      BY <1>Invoke DEF Invoke, IInv, TypeOK, InSession, Holds
    <2>2. /\ sess' \in Sessions /\ sess'.op = o /\ sess'.at = "call"
          /\ sess'.view = sess.view /\ sess'.base = sess.base
      BY <1>Invoke, <2>1 DEF Invoke, Sessions
    <2>3. /\ UNCHANGED <<rec, snap, rev, late, up, poisoned, storeStopped, sup>>
          /\ invoked' = [invoked EXCEPT ![o] = 1] /\ invoked \in [Ops -> Nat]
          /\ \A p \in Ops \ {o} : world'[p] = world[p] /\ invoked'[p] = invoked[p]
      BY <1>Invoke, <2>1 DEF Invoke, store, IInv, TypeOK
    <2>4. Durable'
      BY <2>1, <2>3
         DEF IInv, Durable, SuccessIsPublished, RecordFits, LedgerFits
    <2>5. late # None => Fits(late)'
      <3> SUFFICES ASSUME late # None PROVE Fits(late)'
        OBVIOUS
      <3>1. Fits(late) /\ late.op \in Ops
        BY DEF IInv, UnderWay, Fits, Writes
      <3>2. ~(late.to.st = "SUCCEEDED" /\ late.kind = "terminal" /\ late.op = o)
        BY <2>1 DEF Harmless, Terminal
      <3> QED
        BY <2>3, <3>1, <3>2 DEF Fits
    <2>6. UnderWay'
      BY <2>1, <2>3, <2>5 DEF IInv, UnderWay
    <2>7. InSession'
      BY <2>1, <2>2, <2>3 DEF InSession, Holds, Harmless
    <2>8. Supervised' /\ Cut
      BY <1>Invoke, <2>1, <2>2, <2>3 DEF IInv, Supervised, External, Cut
    <2>9. TypeOK'
      BY <1>Invoke, <2>2, <2>3 DEF Invoke, IInv, TypeOK, store
    <2> QED
      BY <2>4, <2>6, <2>7, <2>8, <2>9 DEF IInv
  <1>Apply. ASSUME NEW o \in Effects, Apply(o)
             PROVE  IInv' /\ Cut
    <2>1. /\ UNCHANGED <<rec, snap, rev, invoked, up, late>> /\ WorldKept
          /\ sess' \in {sess, None} /\ sup' \in {sup, None} /\ (poisoned => poisoned')
          /\ poisoned => storeStopped' = storeStopped
      BY <1>Apply DEF Apply, store, process, WorldKept
    <2>2. Durable' /\ UnderWay' /\ InSession' /\ Supervised' /\ Cut
      BY <2>1, NothingCommitted
    <2>3. TypeOK'
      BY <1>Apply, <2>1 DEF Apply, IInv, TypeOK, store, process
    <2> QED
      BY <2>2, <2>3 DEF IInv
  <1>LoseCut. ASSUME LoseCut PROVE IInv' /\ Cut
    <2>1. /\ UNCHANGED <<rec, snap, rev, invoked, up, late>> /\ WorldKept
          /\ sess' \in {sess, None} /\ sup' \in {sup, None} /\ (poisoned => poisoned')
          /\ poisoned => storeStopped' = storeStopped
      BY <1>LoseCut DEF LoseCut, store, outside, WorldKept
    <2>2. Durable' /\ UnderWay' /\ InSession' /\ Supervised' /\ Cut
      BY <2>1, NothingCommitted
    <2>3. TypeOK'
      BY <1>LoseCut, <2>1 DEF LoseCut, IInv, TypeOK, store, outside
    <2> QED
      BY <2>2, <2>3 DEF IInv
  <1>ReadFails. ASSUME ReadFails PROVE IInv' /\ Cut
    <2>1. /\ UNCHANGED <<rec, snap, rev, invoked, up, late>> /\ WorldKept
          /\ sess' \in {sess, None} /\ sup' \in {sup, None} /\ (poisoned => poisoned')
          /\ poisoned => storeStopped' = storeStopped
      BY <1>ReadFails DEF ReadFails, outside, WorldKept
    <2>2. Durable' /\ UnderWay' /\ InSession' /\ Supervised' /\ Cut
      BY <2>1, NothingCommitted
    <2>3. TypeOK'
      BY <1>ReadFails, <2>1 DEF ReadFails, IInv, TypeOK, outside
    <2> QED
      BY <2>2, <2>3 DEF IInv
  <1>StopAdmission. ASSUME NEW res \in {"ack", "lost", "drop"}, StopAdmission(res)
                     PROVE  IInv' /\ Cut
    <2>1. /\ UNCHANGED <<rec, snap, rev, invoked, up, late>> /\ WorldKept
          /\ sess' \in {sess, None} /\ sup' \in {sup, None} /\ (poisoned => poisoned')
          /\ poisoned => storeStopped' = storeStopped
      BY <1>StopAdmission DEF StopAdmission, outside, WorldKept, Entry
    <2>2. Durable' /\ UnderWay' /\ InSession' /\ Supervised' /\ Cut
      BY <2>1, NothingCommitted
    <2>3. TypeOK'
      BY <1>StopAdmission, <2>1 DEF StopAdmission, IInv, TypeOK, outside
    <2> QED
      BY <2>2, <2>3 DEF IInv
  <1>Crash. ASSUME Crash PROVE IInv' /\ Cut
    <2>1. /\ UNCHANGED <<rec, snap, rev, invoked>> /\ WorldKept /\ sess' = None /\ sup' = None
          /\ late' \in {late, None}
      BY <1>Crash DEF Crash, ProcessGone, outside, WorldKept
    <2>2. Durable' /\ (late' # None => Fits(late)')
      <3>1. Durable'
        BY <2>1, Still DEF IInv
      <3>2. ASSUME late' # None PROVE Fits(late)'
        <4>1. UNCHANGED late /\ Fits(late)
          BY <2>1, <3>2 DEF IInv, UnderWay
        <4> QED
          BY <2>1, <4>1, Still
      <3> QED
        BY <3>1, <3>2
    <2>3. UnderWay'
      <3> SUFFICES ASSUME late' # None PROVE UnderWay'
        BY DEF UnderWay
      <3>1. late' = late /\ late # None /\ late \in Writes /\ up # "ready"
        BY <1>Crash, <2>1 DEF Crash
      <3>2. ~(late.kind = "save" /\ late.op \in Native)
        BY <3>1 DEF IInv, UnderWay
      <3>3. late.kind = "terminal" => up' # "ready" \/ rec'[late.op].st \in Terminal
        BY <1>Crash, <2>1, <3>1 DEF Crash
      <3> QED
        BY <2>2, <3>1, <3>2, <3>3 DEF UnderWay
    <2>4. TypeOK'
      <3>1. crashes' \in 0 .. MaxCrashes
        BY <1>Crash DEF Crash, IInv, TypeOK
      <3> QED
        BY <1>Crash, <2>1, <3>1 DEF Crash, ProcessGone, IInv, TypeOK, outside
    <2> QED
      BY <2>1, <2>2, <2>3, <2>4 DEF IInv, InSession, Supervised, Cut
  <1>Restart. ASSUME Restart PROVE IInv' /\ Cut
    <2>1. /\ UNCHANGED <<rec, snap, rev, invoked>> /\ WorldKept /\ sess' = None /\ sup' = None
          /\ late' \in {late, None}
      BY <1>Restart
         DEF Restart, store, outside, WorldKept, IInv, InSession, Supervised,
             Holds
    <2>2. Durable' /\ (late' # None => Fits(late)')
      <3>1. Durable'
        BY <2>1, Still DEF IInv
      <3>2. ASSUME late' # None PROVE Fits(late)'
        <4>1. UNCHANGED late /\ Fits(late)
          BY <2>1, <3>2 DEF IInv, UnderWay
        <4> QED
          BY <2>1, <4>1, Still
      <3> QED
        BY <3>1, <3>2
    <2>3. UnderWay'
      <3> SUFFICES ASSUME late' # None PROVE UnderWay'
        BY DEF UnderWay
      <3>1. late' = late /\ late # None /\ late \in Writes /\ up # "ready"
        BY <1>Restart, <2>1 DEF Restart, IInv, TypeOK
      <3>2. ~(late.kind = "save" /\ late.op \in Native)
        BY <3>1 DEF IInv, UnderWay
      <3>3. late.kind = "terminal" => up' # "ready" \/ rec'[late.op].st \in Terminal
        BY <1>Restart, <2>1, <3>1 DEF Restart
      <3> QED
        BY <2>2, <3>1, <3>2, <3>3 DEF UnderWay
    <2>4. TypeOK'
      <3>1. crashes' \in 0 .. MaxCrashes
        BY <1>Restart DEF Restart, IInv, TypeOK
      <3> QED
        BY <1>Restart, <2>1, <3>1 DEF Restart, IInv, TypeOK, store, outside
    <2> QED
      BY <2>1, <2>2, <2>3, <2>4 DEF IInv, InSession, Supervised, Cut
  <1>BecomeReady. ASSUME BecomeReady PROVE IInv' /\ Cut
    <2>1. /\ UNCHANGED <<rec, snap, rev, invoked>> /\ WorldKept /\ sess' = None /\ sup' = None
          /\ late' \in {late, None}
      BY <1>BecomeReady
         DEF BecomeReady, store, outside, WorldKept, IInv, InSession,
             Supervised, Holds
    <2>2. Durable' /\ (late' # None => Fits(late)')
      <3>1. Durable'
        BY <2>1, Still DEF IInv
      <3>2. ASSUME late' # None PROVE Fits(late)'
        <4>1. UNCHANGED late /\ Fits(late)
          BY <2>1, <3>2 DEF IInv, UnderWay
        <4> QED
          BY <2>1, <4>1, Still
      <3> QED
        BY <3>1, <3>2
    <2>3. UnderWay'
      <3> SUFFICES ASSUME late' # None PROVE UnderWay'
        BY DEF UnderWay
      <3>1. late' = late /\ late # None /\ late \in Writes /\ up # "ready"
        BY <1>BecomeReady, <2>1 DEF BecomeReady, IInv, TypeOK
      <3>2. ~(late.kind = "save" /\ late.op \in Native)
        BY <3>1 DEF IInv, UnderWay
      <3>3. late.kind = "terminal" => up' # "ready" \/ rec'[late.op].st \in Terminal
        BY <1>BecomeReady, <2>1, <3>1
           DEF BecomeReady, IInv, UnderWay, Fits, Writes, TypeOK, Records
      <3> QED
        BY <2>2, <3>1, <3>2, <3>3 DEF UnderWay
    <2>4. TypeOK'
      <3>1. crashes' \in 0 .. MaxCrashes
        BY <1>BecomeReady DEF BecomeReady, IInv, TypeOK
      <3> QED
        BY <1>BecomeReady, <2>1, <3>1
           DEF BecomeReady, IInv, TypeOK, store, outside
    <2> QED
      BY <2>1, <2>2, <2>3, <2>4 DEF IInv, InSession, Supervised, Cut
  <1>ReconcileRecord. ASSUME NEW o \in Ops, NEW res \in Outcomes, ReconcileRecord(o, res)
                       PROVE  IInv' /\ Cut
    <2>1. /\ up = "recovering" /\ rec[o].st \in NonTerminal /\ TypeOK /\ Durable /\ o \in Ops
          /\ sess = None /\ sup = None /\ (late # None => Fits(late)) /\ rec[o] \in Records
      BY <1>ReconcileRecord
         DEF ReconcileRecord, IInv, TypeOK, InSession, Supervised, Holds,
             UnderWay
    <2>2. PICK state \in Classified(o) :
             LET to == [rec[o] EXCEPT !.st = state, !.reserved = @ /\ rec[o].consumed]
             IN  /\ Write(IF state = "SUCCEEDED" THEN Bearing(o, to, snap \cup {o})
                                                 ELSE Request("terminal", o, to), res)
                 /\ world' = IF state = "FAILED" /\ o \in Plain
                             THEN [world EXCEPT ![o] = "absent"] ELSE world
      BY <1>ReconcileRecord DEF ReconcileRecord
    <2>3. PICK to : to = [rec[o] EXCEPT !.st = state, !.reserved = @ /\ rec[o].consumed]
      OBVIOUS
    <2>4. state \in Terminal
      BY DEF Classified, Terminal
    <2>5. PICK b \in BOOLEAN : b = (rec[o].reserved /\ rec[o].consumed)
      BY Zenon
    <2>6. to = [rec[o] EXCEPT !.st = state, !.reserved = b]
      <3>1. to = [rec[o] EXCEPT !.st = state, !.reserved = rec[o].reserved /\ rec[o].consumed]
        BY <2>1, <2>3
      <3> QED
        BY <2>5, <3>1
    <2>7. /\ to \in Records /\ to.st = state /\ to.consumed = rec[o].consumed
          /\ to.reserved = b /\ to.base = rec[o].base /\ to.control = rec[o].control
      BY <2>1, <2>4, <2>6 DEF Records
    <2>8. /\ RecordFits(o, to) /\ (state = "SUCCEEDED" => rec[o].st # "ACCEPTED")
          /\ state = "SUCCEEDED" => o \notin Effects \/ world[o] = "applied"
          /\ state = "FAILED" => o \notin Effects \/ world[o] # "applied"
      <3>1. RecordFits(o, rec[o]) /\ (b <=> rec[o].reserved /\ rec[o].consumed)
        BY <2>1, <2>5 DEF Durable
      <3>2. /\ rec[o].st = "ACCEPTED" => state = "CANCELLED"
            /\ rec[o].st # "ACCEPTED" => state # "CANCELLED"
            /\ o \in Native /\ rec[o].st # "ACCEPTED" => state = "INDETERMINATE"
        BY DEF Classified
      <3>3. RecordFits(o, to)
        <4>1. to.reserved <=> rec[o].reserved /\ rec[o].consumed
          BY <2>7, <3>1
        <4>2. LedgerFits(o, to)
          <5>1. to.st \notin {"ACCEPTED", "RUNNING"}
            BY <2>4, <2>7 DEF Terminal
          <5>2. o \notin Native => ~to.consumed /\ ~to.reserved /\ ~to.control
            BY <2>7, <3>1, <4>1 DEF RecordFits, LedgerFits
          <5> QED
            BY <5>1, <5>2 DEF LedgerFits
        <4>3. to.consumed => to.reserved \/ to.st = "SUCCEEDED"
          BY <2>1, <2>7, <3>1, <4>1 DEF RecordFits, NonTerminal
        <4>4. to.st # "ACCEPTED" /\ (to.st = "CANCELLED" => o \in Native /\ ~to.consumed)
          BY <2>4, <2>7, <3>1, <3>2 DEF RecordFits, LedgerFits, Terminal
        <4> QED
          BY <4>2, <4>3, <4>4 DEF RecordFits
      <3>4. /\ state = "SUCCEEDED" => o \notin Effects \/ world[o] = "applied"
            /\ state = "FAILED" => o \notin Effects \/ world[o] # "applied"
        BY DEF Classified
      <3> QED
        BY <3>2, <3>3, <3>4
    <2>9. PICK w : w = IF state = "SUCCEEDED" THEN Bearing(o, to, snap \cup {o})
                                             ELSE Request("terminal", o, to)
      OBVIOUS
    <2>10. /\ w \in Writes /\ w.kind = "terminal" /\ w.op = o /\ w.to = to
           /\ w.bearing <=> state = "SUCCEEDED"
           /\ w.bearing => w.revision = rev /\ w.content = snap \cup {o}
      <3>1. CASE state = "SUCCEEDED"
        <4>1. snap \cup {o} \in SUBSET Ops
          BY <2>1 DEF TypeOK
        <4> QED
          BY <2>1, <2>7, <2>9, <3>1, <4>1, BearingIs
      <3>2. CASE state # "SUCCEEDED"
        BY <2>1, <2>7, <2>9, <3>2, RequestIs
      <3> QED
        BY <3>1, <3>2
    <2>11. Fits(w) /\ rec[w.op].st # "none"
      <3>1. rev \in Nat /\ rec[o].st # "none"
        BY <2>1 DEF TypeOK, NonTerminal
      <3> QED
        BY <2>4, <2>7, <2>8, <2>10, <3>1 DEF Fits
    <2>12. WorldKept /\ UNCHANGED invoked /\ world' \in [Ops -> {"untouched", "open", "applied", "absent"}]
      BY <1>ReconcileRecord, <2>1, <2>2, <2>8
         DEF ReconcileRecord, WorldKept, TypeOK
    <2>13. Write(w, res)
      BY <2>2, <2>3, <2>9
    <2>14. /\ StoreTypes' /\ Durable' /\ Cut /\ (late' # None => Fits(late)')
           /\ \/ Lands(w) /\ late' = late
              \/ UNCHANGED <<rec, snap, rev>> /\ (late' = late \/ (late' = w /\ res = "late"))
      BY <2>1, <2>10, <2>11, <2>12, <2>13, WriteKeeps
    <2>15. sess' = None /\ sup' = None /\ up' # "ready" /\ poisoned' \in BOOLEAN
           /\ gen' = gen /\ stopped' \in BOOLEAN /\ up' \in {"down", "recovering"}
      BY <1>ReconcileRecord, <2>1
         DEF ReconcileRecord, process, ProcessGone, TypeOK
    <2>16. UnderWay'
      <3>1. CASE late' = late
        BY <2>1, <2>11, <2>14, <2>15, <3>1, UnderWayKept DEF IInv, UnderWay
      <3>2. CASE late' = w
        BY <2>10, <2>14, <2>15, <3>2 DEF UnderWay
      <3> QED
        BY <2>14, <3>1, <3>2
    <2>17. TypeOK'
      BY <1>ReconcileRecord, <2>12, <2>14, <2>15
         DEF ReconcileRecord, IInv, TypeOK, StoreTypes, Durable, RecordFits
    <2> QED
      BY <2>14, <2>15, <2>16, <2>17 DEF IInv, InSession, Supervised
  <1>LateWriteLands. ASSUME LateWriteLands PROVE IInv' /\ Cut
    <2>1. /\ late # None /\ late' = None /\ Fits(late) /\ TypeOK /\ Durable
          /\ UNCHANGED <<storeStopped, up, poisoned, sess, sup, invoked, world, faults>> /\ WorldKept
      BY <1>LateWriteLands
         DEF LateWriteLands, IInv, UnderWay, process, outside, WorldKept
    <2>2. CASE UNCHANGED <<rec, snap, rev>>
      <3>1. Durable'
        BY <2>1, <2>2, Still
      <3>2. InSession'
        BY <2>1, <2>2 DEF IInv, InSession, Holds, Alone, Unresolved
      <3>3. Supervised'
        BY <2>1, <2>2 DEF IInv, Supervised
      <3>4. TypeOK'
        BY <1>LateWriteLands, <2>1, <2>2 DEF LateWriteLands, TypeOK, process
      <3> QED
        BY <2>1, <2>2, <3>1, <3>2, <3>3, <3>4 DEF IInv, UnderWay, Cut
    <2>3. CASE Lands(late)
      <3>1. PICK w : w = late
        OBVIOUS
      <3>2. w \in Writes /\ Fits(w) /\ Lands(w)
        BY <2>1, <2>3, <3>1 DEF Fits
      <3>3. Durable'
        BY <2>1, <3>2, DurableKept
      <3>4. w.kind = "save" /\ w.op \in Native => ~storeStopped /\ sess = None /\ sup = None
        BY <2>1, <3>1 DEF IInv, UnderWay
      <3>5. InSession'
        <4>1. ASSUME sess # None PROVE Holds(sess)'
          <5>1. Harmless(w) /\ (w.kind = "save" => w.op \in Core)
            BY <2>1, <3>1, <3>2, <3>4, <4>1 DEF IInv, InSession, Fits
          <5> QED
            BY <2>1, <3>2, <4>1, <5>1, SessionKept
        <4> QED
          BY <2>1, <4>1 DEF InSession
      <3>6. Supervised'
        <4> SUFFICES ASSUME sup # None PROVE Supervised'
          BY <2>1 DEF Supervised
        <4>1. /\ up = "ready" /\ (sess # None => sess.at \in External) /\ sup.op \in Ops
              /\ sup.at = "cancel" => sup.op \in Native /\ rec[sup.op].st \notin {"none", "RUNNING"}
              /\ sup.at = "driver" => sup.op \in Core /\ rec[sup.op].st # "none"
          BY <2>1 DEF IInv, Supervised, TypeOK
        <4>2. sup.at = "cancel" => rec'[sup.op].st \notin {"none", "RUNNING"}
          <5> SUFFICES ASSUME sup.at = "cancel" PROVE rec'[sup.op].st \notin {"none", "RUNNING"}
            OBVIOUS
          <5>1. CASE w.op # sup.op \/ w.kind = "control"
            BY <2>1, <3>2, <4>1, <5>1, LandsMoves
          <5>2. CASE w.op = sup.op /\ w.kind # "control"
            <6>1. w.kind = "terminal"
              BY <3>2, <3>4, <4>1, <5>2 DEF Fits, Writes
            <6>2. w.to.st \in Terminal
              BY <3>2, <6>1 DEF Fits
            <6> QED
              BY <2>1, <3>2, <5>2, <6>2, LandsMoves DEF Terminal
          <5> QED
            BY <5>1, <5>2
        <4>3. sup.at = "driver" => rec'[sup.op].st # "none"
          BY <2>1, <3>2, <4>1, LandsMoves
        <4> QED
          BY <2>1, <4>1, <4>2, <4>3 DEF Supervised
      <3>7. TypeOK'
        BY <1>LateWriteLands, <2>1, <3>2, <3>3, LandsMoves, LandsPublishes
           DEF LateWriteLands, TypeOK, Durable, RecordFits, process, outside
      <3> QED
        BY <2>1, <3>2, <3>3, <3>4, <3>5, <3>6, <3>7 DEF IInv, UnderWay, Cut
    <2> QED
      BY <1>LateWriteLands, <2>2, <2>3 DEF LateWriteLands, Lands
  <1>stutter. ASSUME UNCHANGED vars PROVE IInv' /\ Cut
    <2>1. UNCHANGED <<rec, snap, rev, invoked, up, late>> /\ WorldKept
      BY <1>stutter DEF vars, WorldKept
    <2>2. Durable' /\ UnderWay' /\ InSession' /\ Supervised' /\ Cut
      BY <1>stutter, <2>1, NothingCommitted DEF vars
    <2>3. TypeOK'
      BY <1>stutter DEF vars, IInv, TypeOK
    <2> QED
      BY <2>2, <2>3 DEF IInv
  <1> QED
    BY <1>ClaimAccepted, <1>ClaimAction, <1>ClaimResolution, <1>ValidationFails,
       <1>Dispatch, <1>ReturnResult, <1>ReturnRaised, <1>RefuseAction,
       <1>ReturnAction, <1>CommitResolution, <1>Cancel, <1>SettleCancelled,
       <1>CommitDriverFailure, <1>DriverFailure, <1>Invoke, <1>Apply,
       <1>LoseCut, <1>ReadFails, <1>StopAdmission, <1>Crash, <1>Restart,
       <1>BecomeReady, <1>ReconcileRecord, <1>LateWriteLands, <1>stutter
       DEF Next, SessionStep, SupervisorStep, ClaimStep, ProcessStep,
           OutsideStep

--------------------------------------------------------------------------------
(* The theorems                                                               *)

\* Every state the plane, its store and the world reach has its type, and
\* every record the shape require_record_invocation demands.
THEOREM TypeCorrect == Spec => []TypeOK
  <1>1. IInv => TypeOK
    BY DEF IInv
  <1> QED
    BY <1>1, InitIInv, StepKeepsIInv, PTL DEF Spec

\* Write-ahead of _dispatch_native_invocation: what was invoked is durably
\* RUNNING or was, over crashes, lost acknowledgements and late writes.
THEOREM WriteAheadAlways == Spec => []WriteAhead
  <1>1. IInv => WriteAhead
    BY DEF IInv, Durable, WriteAhead
  <1> QED
    BY <1>1, InitIInv, StepKeepsIInv, PTL DEF Spec

\* claim_record's idempotency key: one invocation over all attempts under it.
THEOREM AtMostOncePerKeyAlways == Spec => []AtMostOncePerKey
  <1>1. IInv => AtMostOncePerKey
    <2> SUFFICES ASSUME IInv, NEW o \in Effects, NEW p \in Effects,
                        KeyOf[o] = KeyOf[p], invoked[o] > 0
                 PROVE  invoked[o] = 1 /\ (p # o => invoked[p] = 0)
      BY DEF AtMostOncePerKey
    <2>1. invoked[o] = 1 /\ rec[o].st # "none"
      BY DEF IInv, Durable
    <2>2. p # o => ~(invoked[p] > 0)
      BY <2>1 DEF IInv, Durable
    <2>3. invoked[p] \in Nat
      BY DEF IInv, TypeOK, Ops
    <2> QED
      BY <2>1, <2>2, <2>3
  <1> QED
    BY <1>1, InitIInv, StepKeepsIInv, PTL DEF Spec

\* The quarantine of a consumed invocation: only a recorded success releases
\* the reservation of a native effect that was let loose.
THEOREM QuarantineKeptAlways == Spec => []QuarantineKept
  <1>1. IInv => QuarantineKept
    BY DEF IInv, Durable, RecordFits, QuarantineKept, Effects, Ops
  <1> QED
    BY <1>1, InitIInv, StepKeepsIInv, PTL DEF Spec

\* A recorded success is true, and stays in every later snapshot.
THEOREM SuccessIsPublishedAlways == Spec => []SuccessIsPublished
  <1>1. IInv => SuccessIsPublished
    BY DEF IInv, Durable
  <1> QED
    BY <1>1, InitIInv, StepKeepsIInv, PTL DEF Spec

\* _admission_claim_options and the stop boundary of the store: no effect
\* begins over an unresolved one, none is claimed RUNNING behind the stop.
THEOREM EffectsAdmittedAlways == Spec => EffectsAdmitted
  <1> USE OpsAssumption DEF Ops, Effects
  <1>1. ASSUME IInv, [Next]_vars, NEW o \in Effects, invoked'[o] # invoked[o]
        PROVE  Alone(o)
    <2>1. PICK e \in Effects : Invoke(e)
      BY <1>1, StepKeepsIInv DEF Cut
    <2>2. e = o /\ sess # None /\ sess.op = o /\ sess.at \in {"granted", "claimed"}
      BY <1>1, <2>1 DEF Invoke
    <2>3. Holds(sess)
      BY <1>1, <2>2 DEF IInv, InSession
    <2> QED
      BY <2>2, <2>3 DEF Holds
  <1>2. ASSUME IInv, [Next]_vars, NEW o \in Effects, storeStopped, rec'[o].st = "RUNNING"
        PROVE  rec[o].st = "RUNNING"
    <2> SUFFICES ASSUME rec[o].st # "RUNNING" PROVE FALSE
      OBVIOUS
    <2>1. TypeOK /\ Cut
      BY <1>2, StepKeepsIInv DEF IInv
    <2>2. PICK w \in Writes : /\ Fits(w) /\ Lands(w)
                              /\ w.kind = "save" /\ w.op \in Native => ~storeStopped
      BY <1>2, <2>1 DEF Cut, Invoke, store
    <2>3. w.op = o /\ w.kind # "control" /\ w.to.st = "RUNNING"
      BY <1>2, <2>1, <2>2, LandsMoves
    <2>4. CASE w.kind = "claim"
      BY <1>2, <2>2, <2>3, <2>4 DEF Lands, StoreAccepts
    <2>5. CASE w.kind = "save"
      BY <1>2, <2>2, <2>3, <2>5 DEF Fits
    <2>6. CASE w.kind = "terminal"
      BY <2>2, <2>3, <2>6 DEF Fits, Terminal
    <2> QED
      BY <2>2, <2>3, <2>4, <2>5, <2>6 DEF Writes
  <1>3. ASSUME IInv, [Next]_vars
        PROVE  \A o \in Effects :
                  /\ invoked'[o] # invoked[o] =>
                         \A p \in Effects \ {o} : invoked[p] > 0 =>
                             (p \in Native => rec[p].st = "SUCCEEDED") /\ ~Unresolved(p)
                  /\ storeStopped /\ rec'[o].st = "RUNNING" => rec[o].st = "RUNNING"
    BY <1>1, <1>2, <1>3 DEF Alone
  <1> QED
    BY <1>3, InitIInv, StepKeepsIInv, PTL DEF Spec, EffectsAdmitted

\* The plane implements the lifecycle contract: every step of its processes,
\* stores and supervisors is a legal transition, a publication together with
\* its terminal record, a first invocation behind RUNNING, or nothing.
THEOREM ImplementsLifecycleAlways == Spec => ImplementsLifecycle
  <1>1. Init => Lifecycle!LifecycleInit
    BY DEF Init, Lifecycle!LifecycleInit, Unrecorded
  <1>2. ASSUME IInv, [Next]_vars
        PROVE  Lifecycle!LifecycleNext \/ UNCHANGED Lifecycle!lifecycleVars
    <2> DEFINE st == [o \in Ops |-> rec[o].st]
    <2>1. TypeOK /\ Cut
      BY <1>2, StepKeepsIInv DEF IInv
    <2>2. CASE UNCHANGED <<rec, snap, rev, invoked>>
      BY <2>2 DEF Lifecycle!lifecycleVars
    <2>3. ASSUME NEW w, Fits(w), Lands(w), UNCHANGED invoked
          PROVE  Lifecycle!LifecycleNext \/ UNCHANGED Lifecycle!lifecycleVars
      <3>0. PICK o \in Ops : o = w.op
        BY <2>1, <2>3, LandsMoves
      <3>1. rec \in [Ops -> Records] /\ rec' = [rec EXCEPT ![o] = w.to]
        BY <2>1, <2>3, <3>0, LandsMoves DEF TypeOK
      <3>2. st' = [st EXCEPT ![o] = w.to.st] /\ st[o] = rec[o].st /\ st'[o] = w.to.st
        BY <3>1
      <3>3. CASE w.kind = "control"
        <4>1. st' = st /\ ~w.bearing
          BY <2>1, <2>3, <3>0, <3>2, <3>3, LandsMoves DEF Fits
        <4>2. snap' = snap /\ rev' = rev
          BY <2>1, <2>3, <4>1, LandsPublishes
        <4> QED
          BY <2>3, <4>1, <4>2 DEF Lifecycle!lifecycleVars
      <3>4. CASE w.kind # "control" /\ ~w.bearing
        <4>1. Lifecycle!Allowed(st[o], st'[o])
          BY <2>1, <2>3, <3>0, <3>2, <3>4, LandsMoves
        <4>2. snap' = snap /\ rev' = rev
          BY <2>1, <2>3, <3>4, LandsPublishes
        <4>3. Lifecycle!Move(o, st'[o])
          BY <2>3, <3>2, <4>1, <4>2 DEF Lifecycle!Move
        <4> QED
          BY <4>3 DEF Lifecycle!LifecycleNext
      <3>5. CASE w.bearing
        <4>1. /\ rev' = rev + 1 /\ snap' \in {snap, snap \cup {o}}
              /\ rec[o].st = "RUNNING" /\ w.to.st \in Terminal
          BY <2>1, <2>3, <3>0, <3>5, LandsPublishes
        <4>2. Lifecycle!Publish(o, st'[o])
          BY <2>3, <3>2, <4>1
             DEF Lifecycle!Publish, Lifecycle!Terminal, Terminal
        <4> QED
          BY <4>2 DEF Lifecycle!LifecycleNext
      <3> QED
        BY <3>3, <3>4, <3>5
    <2>4. ASSUME NEW o \in Effects, Invoke(o)
          PROVE  Lifecycle!LifecycleNext
      <3>1. /\ UNCHANGED <<rec, snap, rev>> /\ invoked' = [invoked EXCEPT ![o] = @ + 1]
            /\ sess # None /\ sess.op = o /\ sess.at \in {"granted", "claimed"}
        BY <2>4 DEF Invoke, store
      <3>2. rec[o].st = "RUNNING" /\ invoked[o] = 0
        BY <1>2, <3>1 DEF IInv, InSession, Holds
      <3>3. o \in Ops /\ st[o] = "RUNNING" /\ st' = st
        BY <3>1, <3>2 DEF Ops
      <3>4. invoked' = [invoked EXCEPT ![o] = 1]
        BY <3>1, <3>2
      <3>5. Lifecycle!Invoke(o)
        BY <3>1, <3>2, <3>3, <3>4 DEF Lifecycle!Invoke
      <3> QED
        BY <3>3, <3>5 DEF Lifecycle!LifecycleNext
    <2> QED
      BY <2>1, <2>2, <2>3, <2>4 DEF Cut
  <1> QED
    BY <1>1, <1>2, InitIInv, StepKeepsIInv, PTL
       DEF Spec, ImplementsLifecycle, Lifecycle!LifecycleSpec

--------------------------------------------------------------------------------
(****************************************************************************)
(* The HTTP layer that calls the plane: for any number of requests, lanes   *)
(* of any capacity, and any number of attempts to close and of cancelled    *)
(* actors.                                                                  *)
(*                                                                          *)
(* Counts are of sets of actors, so each step is shown to take or give what *)
(* it counts (CountOne).  The reservation is with one actor or outside, and *)
(* in the queue are the other actors that wait for it; a call runs under it *)
(* only where that is so.  A caller that left during the probe is seen by   *)
(* the probe (cancelled), one that left later by the wait (told).           *)
(****************************************************************************)

LiveIn(l) == InLane(l, {r \in Requests : actor[r] \in Live})
Inside == {r \in Requests : actor[r] \in {"probe", "reserve", "run"}}

\* Slots and admitted calls are counts of actors.
Counts ==
    /\ \A l \in Lanes : /\ IsFiniteSet(LiveIn(l))
                        /\ pending[l] = Cardinality(LiveIn(l))
                        /\ pending[l] <= Capacity[l]
    /\ IsFiniteSet(Inside) /\ calls = Cardinality(Inside)

\* A request begins without an actor.  The stage says where the actor is, and a
\* thread is at work for it only in two places.
Stages ==
    \A r \in Requests :
        /\ caller[r] = "new" => actor[r] = "none"
        /\ r \in active <=> actor[r] = "probe"
        /\ r \in granted <=> actor[r] = "run"
        /\ worker[r] # "none" => actor[r] \in {"probe", "run"}

\* Who runs has the reservation, and who has it does not wait for it.
HttpReserved ==
    /\ owner \notin ToSet(queue)
    /\ \A r \in Requests : actor[r] = "run" => owner = r

\* After close nothing is admitted.
Gate ==
    /\ gate = "closing" <=> closer = "drains"
    /\ gate = "closed" => calls = 0

\* A caller that left early has left its mark where its actor looks next.
Marked ==
    \A r \in early : /\ r \in cancelled /\ actor[r] \in {"probe", "reserve"}
                     /\ actor[r] = "reserve" => r \in told

HttpIInv == HttpTypeOK /\ Counts /\ Stages /\ HttpReserved /\ Gate /\ Marked

--------------------------------------------------------------------------------
(* Counting                                                                   *)

\* One more, or one less.
LEMMA CountOne ==
    ASSUME NEW S, IsFiniteSet(S), NEW r
    PROVE  /\ Cardinality(S) \in Nat
           /\ IsFiniteSet(S \cup {r}) /\ IsFiniteSet(S \ {r})
           /\ r \notin S => Cardinality(S \cup {r}) = Cardinality(S) + 1
           /\ r \in S => Cardinality(S \ {r}) = Cardinality(S) - 1 /\ Cardinality(S) # 0
  BY FS_CardinalityType, FS_AddElement, FS_RemoveElement, FS_EmptySet

\* A step in which no actor begins or ends.
LEMMA LiveKept ==
    ASSUME Counts, UNCHANGED pending,
           \A r \in Requests : actor'[r] \in Live <=> actor[r] \in Live
    PROVE  \A l \in Lanes : /\ IsFiniteSet(LiveIn(l))'
                            /\ pending'[l] = Cardinality(LiveIn(l)')
                            /\ pending'[l] <= Capacity[l]
  <1>1. \A l \in Lanes : LiveIn(l)' = LiveIn(l)
    BY DEF LiveIn, InLane
  <1> QED
    BY <1>1 DEF Counts

\* A step in which no call is admitted or over.
LEMMA InsideKept ==
    ASSUME Counts, UNCHANGED calls,
           \A r \in Requests : actor'[r] \in {"probe", "reserve", "run"}
                                  <=> actor[r] \in {"probe", "reserve", "run"}
    PROVE  IsFiniteSet(Inside)' /\ calls' = Cardinality(Inside')
  <1>1. Inside' = Inside
    BY DEF Inside
  <1> QED
    BY <1>1 DEF Counts

\* A step that leaves the actors and the counts alone.
LEMMA CountsKept ==
    ASSUME Counts, UNCHANGED <<actor, pending, calls>> PROVE Counts'
  <1> QED
    BY LiveKept, InsideKept DEF Counts

\* The end of an actor gives its slot back.
LEMMA LiveGiven ==
    ASSUME HttpTypeOK, Counts, NEW r \in Requests, actor[r] \in Live,
           actor' = [actor EXCEPT ![r] = "done"],
           pending' = [pending EXCEPT ![LaneOf[r]] = @ - 1]
    PROVE  /\ pending' \in [Lanes -> Nat]
           /\ \A l \in Lanes : /\ IsFiniteSet(LiveIn(l))'
                               /\ pending'[l] = Cardinality(LiveIn(l)')
                               /\ pending'[l] <= Capacity[l]
  <1> DEFINE k == LaneOf[r]
  <1>1. k \in Lanes /\ Capacity \in [Lanes -> Nat]
    BY LanesAssumption
  <1>2. LiveIn(k)' = LiveIn(k) \ {r} /\ r \in LiveIn(k)
    BY DEF LiveIn, InLane, Live, HttpTypeOK
  <1>3. \A l \in Lanes \ {k} : LiveIn(l)' = LiveIn(l)
    BY DEF LiveIn, InLane, HttpTypeOK
  <1>4. /\ IsFiniteSet(LiveIn(k))' /\ Cardinality(LiveIn(k)') = pending[k] - 1
        /\ pending[k] \in Nat \ {0}
    <2>1. IsFiniteSet(LiveIn(k)) /\ pending[k] = Cardinality(LiveIn(k))
      BY <1>1 DEF Counts
    <2>2. /\ IsFiniteSet(LiveIn(k) \ {r}) /\ Cardinality(LiveIn(k) \ {r}) = pending[k] - 1
          /\ pending[k] \in Nat \ {0}
      BY <1>2, <2>1, CountOne
    <2> QED
      BY <1>2, <2>2
  <1>5. pending' \in [Lanes -> Nat] /\ pending'[k] = pending[k] - 1
    BY <1>1, <1>4 DEF HttpTypeOK
  <1>6. \A l \in Lanes \ {k} : pending'[l] = pending[l]
    BY DEF HttpTypeOK
  <1>7. ASSUME NEW l \in Lanes
        PROVE  /\ IsFiniteSet(LiveIn(l))' /\ pending'[l] = Cardinality(LiveIn(l)')
               /\ pending'[l] <= Capacity[l]
    <2>1. CASE l = k
      BY <1>1, <1>4, <1>5, <2>1 DEF Counts
    <2>2. CASE l # k
      BY <1>3, <1>6, <2>2 DEF Counts
    <2> QED
      BY <2>1, <2>2
  <1> QED
    BY <1>5, <1>7

\* The end of an admitted call.
LEMMA InsideGiven ==
    ASSUME HttpTypeOK, Counts, NEW r \in Requests, actor[r] \in {"probe", "reserve", "run"},
           actor' = [actor EXCEPT ![r] = "done"], calls' = calls - 1
    PROVE  /\ calls' \in Nat /\ calls # 0
           /\ IsFiniteSet(Inside)' /\ calls' = Cardinality(Inside')
  <1>1. Inside' = Inside \ {r} /\ r \in Inside
    BY DEF Inside, HttpTypeOK
  <1> QED
    BY <1>1, CountOne DEF Counts

--------------------------------------------------------------------------------
(* The queue                                                                  *)

\* Dropping the first of a queue without repetitions.
LEMMA TailLeavesRest ==
    ASSUME NEW q \in Seq(Requests), IsInjective(q), q # <<>>
    PROVE  /\ Tail(q) \in Seq(Requests) /\ IsInjective(Tail(q)) /\ Head(q) \in Requests
           /\ \A r : r \in ToSet(q) <=> r = Head(q) \/ r \in ToSet(Tail(q))
           /\ Head(q) \notin ToSet(Tail(q))
  <1>1. /\ Len(q) \in Nat \ {0} /\ DOMAIN q = 1 .. Len(q) /\ Head(q) = q[1]
        /\ Head(q) \in Requests /\ Tail(q) \in Seq(Requests)
        /\ DOMAIN Tail(q) = 1 .. Len(q) - 1
        /\ \A i \in 1 .. Len(q) - 1 : Tail(q)[i] = q[i + 1]
    BY HeadTailProperties, LenProperties, EmptySeq
  <1>2. IsInjective(Tail(q)) /\ Head(q) \notin ToSet(Tail(q))
    BY <1>1 DEF IsInjective, ToSet
  <1>3. ASSUME NEW r PROVE r \in ToSet(q) <=> r = Head(q) \/ r \in ToSet(Tail(q))
    <2>1. ASSUME NEW i \in 1 .. Len(q), q[i] = r PROVE r = Head(q) \/ r \in ToSet(Tail(q))
      <3>1. CASE i = 1
        BY <1>1, <2>1, <3>1
      <3>2. CASE i # 1
        <4>1. i - 1 \in 1 .. Len(q) - 1 /\ Tail(q)[i - 1] = r
          BY <1>1, <2>1, <3>2
        <4> QED
          BY <1>1, <4>1 DEF ToSet
      <3> QED
        BY <3>1, <3>2
    <2>2. r = Head(q) => r \in ToSet(q)
      BY <1>1 DEF ToSet
    <2>3. ASSUME NEW i \in 1 .. Len(q) - 1, Tail(q)[i] = r PROVE r \in ToSet(q)
      BY <1>1, <2>3 DEF ToSet
    <2> QED
      BY <1>1, <2>1, <2>2, <2>3 DEF ToSet
  <1> QED
    BY <1>1, <1>2, <1>3

\* A new one at the end.
LEMMA AppendAdds ==
    ASSUME NEW q \in Seq(Requests), IsInjective(q), NEW r \in Requests, r \notin ToSet(q)
    PROVE  /\ Append(q, r) \in Seq(Requests) /\ IsInjective(Append(q, r))
           /\ \A s : s \in ToSet(Append(q, r)) <=> s = r \/ s \in ToSet(q)
  <1>1. /\ Len(q) \in Nat /\ DOMAIN q = 1 .. Len(q)
        /\ Append(q, r) \in Seq(Requests)
        /\ DOMAIN Append(q, r) = 1 .. Len(q) + 1
        /\ \A i \in 1 .. Len(q) : Append(q, r)[i] = q[i]
        /\ Append(q, r)[Len(q) + 1] = r
    BY AppendProperties, LenProperties
  <1>2. IsInjective(Append(q, r))
    BY <1>1 DEF IsInjective, ToSet
  <1>3. \A s : s \in ToSet(Append(q, r)) <=> s = r \/ s \in ToSet(q)
    BY <1>1 DEF ToSet
  <1> QED
    BY <1>1, <1>2, <1>3

\* deque.remove of one of the queue.
LEMMA RemovalLeavesRest ==
    ASSUME NEW q \in Seq(Requests), IsInjective(q), NEW i \in DOMAIN q
    PROVE  /\ RemoveAt(q, i) \in Seq(Requests) /\ IsInjective(RemoveAt(q, i))
           /\ \A s : s \in ToSet(RemoveAt(q, i)) <=> s # q[i] /\ s \in ToSet(q)
  <1> DEFINE n == Len(q)
             a == SubSeq(q, 1, i - 1)
             b == SubSeq(q, i + 1, n)
             t == RemoveAt(q, i)
  <1>1. /\ n \in Nat /\ DOMAIN q = 1 .. n /\ \A j \in 1 .. n : q[j] \in Requests
        /\ i \in 1 .. n
    BY LenProperties, ElementOfSeq
  <1>2. /\ a \in Seq(Requests) /\ Len(a) = i - 1
        /\ \A j \in 1 .. i - 1 : a[j] = q[j]
    BY <1>1, SubSeqProperties
  <1>3. /\ b \in Seq(Requests) /\ Len(b) = n - i
        /\ \A j \in 1 .. n - i : b[j] = q[i + j]
    BY <1>1, SubSeqProperties
  <1>4. t = a \o b
    BY DEF RemoveAt
  <1> HIDE DEF n, a, b, t
  <1>5. /\ t \in Seq(Requests) /\ DOMAIN t = 1 .. n - 1
        /\ \A j \in 1 .. n - 1 : t[j] = IF j < i THEN q[j] ELSE q[j + 1]
    <2>1. /\ t \in Seq(Requests) /\ Len(t) = Len(a) + Len(b)
          /\ \A j \in 1 .. Len(a) + Len(b) :
                t[j] = IF j <= Len(a) THEN a[j] ELSE b[j - Len(a)]
      BY <1>2, <1>3, <1>4, ConcatProperties
    <2>2. Len(a) + Len(b) = n - 1 /\ DOMAIN t = 1 .. n - 1
      BY <1>1, <1>2, <1>3, <2>1, LenProperties
    <2>3. ASSUME NEW j \in 1 .. n - 1 PROVE t[j] = IF j < i THEN q[j] ELSE q[j + 1]
      <3>1. CASE j < i
        <4>1. j \in 1 .. Len(a) + Len(b) /\ j \in 1 .. i - 1 /\ j <= Len(a)
          BY <1>1, <1>2, <2>2, <3>1
        <4>2. t[j] = a[j]
          BY <2>1, <4>1
        <4> QED
          BY <1>2, <3>1, <4>1, <4>2
      <3>2. CASE ~(j < i)
        <4>1. j - Len(a) \in 1 .. n - i /\ i + (j - Len(a)) = j + 1
          BY <1>1, <1>2, <3>2
        <4>2. b[j - Len(a)] = q[j + 1]
          BY <1>3, <4>1
        <4> QED
          BY <1>1, <1>2, <2>1, <2>2, <3>2, <4>2
      <3> QED
        BY <3>1, <3>2
    <2> QED
      BY <2>1, <2>2, <2>3
  <1> DEFINE At(j) == IF j < i THEN j ELSE j + 1
  <1>6. \A j \in 1 .. n - 1 : At(j) \in (1 .. n) \ {i} /\ t[j] = q[At(j)]
    BY <1>1, <1>5
  <1>7. \A j \in (1 .. n) \ {i} : \E k \in 1 .. n - 1 : At(k) = j
    <2> SUFFICES ASSUME NEW j \in (1 .. n) \ {i} PROVE \E k \in 1 .. n - 1 : At(k) = j
      OBVIOUS
    <2>1. j < i => j \in 1 .. n - 1 /\ At(j) = j
      BY <1>1
    <2>2. ~(j < i) => j - 1 \in 1 .. n - 1 /\ At(j - 1) = j
      BY <1>1
    <2> QED
      BY <2>1, <2>2
  <1>8. \A j, k \in 1 .. n - 1 : At(j) = At(k) => j = k
    BY <1>1
  <1> HIDE DEF At
  <1>9. IsInjective(t)
    BY <1>1, <1>5, <1>6, <1>8 DEF IsInjective
  <1>10. ASSUME NEW s PROVE s \in ToSet(t) <=> s # q[i] /\ s \in ToSet(q)
    <2>1. ASSUME s \in ToSet(t) PROVE s # q[i] /\ s \in ToSet(q)
      <3>1. PICK j \in 1 .. n - 1 : t[j] = s
        BY <1>5, <2>1 DEF ToSet
      <3>2. At(j) \in (1 .. n) \ {i} /\ q[At(j)] = s
        BY <1>6, <3>1
      <3> QED
        BY <1>1, <3>2 DEF IsInjective, ToSet
    <2>2. ASSUME s # q[i], s \in ToSet(q) PROVE s \in ToSet(t)
      <3>1. PICK j \in (1 .. n) \ {i} : q[j] = s
        BY <1>1, <2>2 DEF ToSet
      <3>2. PICK k \in 1 .. n - 1 : At(k) = j
        BY <1>7
      <3> QED
        BY <1>5, <1>6, <3>1, <3>2 DEF ToSet
    <2> QED
      BY <2>1, <2>2
  <1> QED
    BY <1>5, <1>9, <1>10 DEF t

\* The reservation passes to the first that waits, or to nobody.
LEMMA HandOverServes ==
    ASSUME HttpTypeOK, HandOver
    PROVE  /\ queue' \in Seq(Requests) /\ IsInjective(queue')
           /\ owner' \in Requests \cup {Nobody} /\ owner' \notin ToSet(queue')
           /\ \A r \in Requests : r \in ToSet(queue) <=> r = owner' \/ r \in ToSet(queue')
  <1>1. queue \in Seq(Requests) /\ IsInjective(queue) /\ Nobody \notin Requests
    BY NamesAssumption DEF HttpTypeOK
  <1>2. CASE queue = <<>>
    <2>1. queue' = <<>> /\ owner' = Nobody
      BY <1>2 DEF HandOver
    <2>2. ToSet(<<>>) = {}
      BY DEF ToSet
    <2>3. ToSet(queue) = {} /\ ToSet(queue') = {}
      BY <1>2, <2>1, <2>2
    <2>4. queue' \in Seq(Requests) /\ IsInjective(queue')
      BY <1>1, <1>2, <2>1
    <2> QED
      BY <1>1, <2>1, <2>3, <2>4
  <1>3. CASE queue # <<>>
    <2>1. queue' = Tail(queue) /\ owner' = Head(queue)
      BY <1>3 DEF HandOver
    <2>2. /\ Tail(queue) \in Seq(Requests) /\ IsInjective(Tail(queue))
          /\ Head(queue) \in Requests
          /\ \A r : r \in ToSet(queue) <=> r = Head(queue) \/ r \in ToSet(Tail(queue))
          /\ Head(queue) \notin ToSet(Tail(queue))
      BY <1>1, <1>3, TailLeavesRest
    <2> QED
      BY <2>1, <2>2
  <1> QED
    BY <1>2, <1>3

--------------------------------------------------------------------------------
(* The steps                                                                  *)

\* An offload that nobody has called.
LEMMA HttpInitIInv == HttpInit => HttpIInv
  <1> SUFFICES ASSUME HttpInit PROVE HttpIInv
    OBVIOUS
  <1> USE NamesAssumption, LanesAssumption, BoundsAssumption
  <1>1. ToSet(queue) = {} /\ IsInjective(queue) /\ queue \in Seq(Requests)
    <2>1. ToSet(<<>>) = {} /\ IsInjective(<<>>) /\ <<>> \in Seq(Requests)
      BY DEF ToSet, IsInjective
    <2> QED
      BY <2>1 DEF HttpInit
  <1>2. HttpTypeOK
    BY <1>1 DEF HttpInit, HttpTypeOK
  <1>3. Counts
    <2>1. Inside = {} /\ \A l \in Lanes : LiveIn(l) = {}
      BY DEF HttpInit, Inside, LiveIn, InLane, Live
    <2>2. IsFiniteSet({}) /\ Cardinality({}) = 0
      BY FS_EmptySet
    <2>3. calls = 0 /\ \A l \in Lanes : pending[l] = 0 /\ pending[l] <= Capacity[l]
      BY DEF HttpInit
    <2> QED
      BY <2>1, <2>2, <2>3 DEF Counts
  <1>4. Stages /\ HttpReserved /\ Gate /\ Marked
    BY <1>1 DEF HttpInit, Stages, HttpReserved, Gate, Marked
  <1> QED
    BY <1>2, <1>3, <1>4 DEF HttpIInv

\* The end of an actor that had been admitted is one in every count.
LEMMA FinishKeepsCounts ==
    ASSUME HttpTypeOK, Counts, NEW r \in Requests,
           actor[r] \in {"probe", "reserve", "run"}, Finish(r)
    PROVE  Counts' /\ pending' \in [Lanes -> Nat] /\ calls' \in Nat /\ calls # 0
  <1>1. actor[r] \in Live
    BY DEF Live
  <1> QED
    BY <1>1, LiveGiven, InsideGiven DEF Finish, Ended, Counts

\* What the end of an actor leaves behind.
LEMMA FinishClears ==
    ASSUME HttpTypeOK, Stages, Marked, NEW r \in Requests,
           actor[r] \in {"probe", "reserve", "run"}, Finish(r), worker[r] # "running"
    PROVE  /\ Stages' /\ Marked'
           /\ caller' \in [Requests -> {"new", "waits", "gone"}]
           /\ actor' \in [Requests -> {"none", "done"} \cup Live]
           /\ worker' \in [Requests -> {"none", "running", "required", "ended"}]
           /\ {active, granted, cancelled, told, early}' \subseteq SUBSET Requests
  <1>1. /\ caller' \in [Requests -> {"new", "waits", "gone"}]
        /\ actor' \in [Requests -> {"none", "done"} \cup Live]
        /\ worker' \in [Requests -> {"none", "running", "required", "ended"}]
        /\ {active, granted, cancelled, told, early}' \subseteq SUBSET Requests
    BY DEF HttpTypeOK, Finish, Ended, Forgotten
  <1>2. \A q \in Requests \ {r} :
            /\ caller'[q] = caller[q] /\ actor'[q] = actor[q] /\ worker'[q] = worker[q]
            /\ q \in active' <=> q \in active
            /\ q \in granted' <=> q \in granted
    BY DEF HttpTypeOK, Finish, Ended, Forgotten
  <1>3. /\ caller'[r] = "gone" /\ actor'[r] = "done" /\ worker'[r] = "none"
        /\ r \notin active' /\ r \notin granted' /\ r \notin early'
    BY DEF HttpTypeOK, Finish, Ended, Forgotten
  <1>4. Stages'
    BY <1>2, <1>3 DEF Stages
  <1>5. Marked'
    BY <1>2, <1>3 DEF Marked, Finish, Ended, Forgotten
  <1> QED
    BY <1>1, <1>4, <1>5

\* A step of the stage, of the counts and of nobody's place in the queue.
LEMMA QueueUntouched ==
    ASSUME HttpTypeOK, UNCHANGED lock,
           \A r \in Requests : /\ actor'[r] = "reserve" <=> actor[r] = "reserve"
                               /\ r = owner => (r \in granted' <=> r \in granted)
    PROVE  /\ owner' \in Requests \cup {Outsider, Nobody}
           /\ queue' \in Seq(Requests) /\ IsInjective(queue')
           /\ \A r \in Requests :
                 actor'[r] = "reserve"
                    <=> r \in ToSet(queue') \/ (r = owner' /\ r \notin granted')
  BY DEF HttpTypeOK, lock

\* Every step of a caller, an actor, a thread and of close keeps the invariant.
LEMMA HttpStepKeepsIInv == HttpIInv /\ [HttpNext]_httpVars => HttpIInv'
  <1> SUFFICES ASSUME HttpIInv, [HttpNext]_httpVars PROVE HttpIInv'
    OBVIOUS
  <1> USE NamesAssumption, LanesAssumption, BoundsAssumption
  <1>0. HttpTypeOK /\ Counts /\ Stages /\ HttpReserved /\ Gate /\ Marked
    BY DEF HttpIInv
  <1>Start. ASSUME NEW r \in Requests, Start(r) PROVE HttpIInv'
    <2> USE <1>0, <1>Start
    <2>1. CASE gate = "open" /\ pending[LaneOf[r]] < Capacity[LaneOf[r]]
      <3> DEFINE k == LaneOf[r]
      <3>1. /\ pending' = [pending EXCEPT ![k] = @ + 1]
            /\ actor' = [actor EXCEPT ![r] = "created"]
            /\ caller' = [caller EXCEPT ![r] = "waits"]
            /\ k \in Lanes /\ Capacity[k] \in Nat /\ pending[k] \in Nat
        BY <2>1 DEF Start, HttpTypeOK
      <3>2. actor[r] = "none"
        BY DEF Start, Stages
      <3>3. HttpTypeOK'
        <4>1. /\ pending' \in [Lanes -> Nat]
              /\ caller' \in [Requests -> {"new", "waits", "gone"}]
              /\ actor' \in [Requests -> {"none", "done"} \cup Live]
          BY <3>1 DEF HttpTypeOK, Live
        <4>2. \A q \in Requests : actor'[q] = "reserve" <=> actor[q] = "reserve"
          BY <3>1, <3>2
        <4>3. /\ owner' \in Requests \cup {Outsider, Nobody}
              /\ queue' \in Seq(Requests) /\ IsInjective(queue')
              /\ \A q \in Requests :
                    actor'[q] = "reserve"
                       <=> q \in ToSet(queue') \/ (q = owner' /\ q \notin granted')
          BY <4>2, QueueUntouched DEF Start, stages
        <4> QED
          BY <4>1, <4>3 DEF Start, HttpTypeOK, stages, closing
      <3>4. Counts'
        <4>1. LiveIn(k)' = LiveIn(k) \cup {r} /\ r \notin LiveIn(k)
          BY <3>1, <3>2 DEF LiveIn, InLane, Live, HttpTypeOK
        <4>2. \A l \in Lanes \ {k} : LiveIn(l)' = LiveIn(l)
          BY <3>1 DEF LiveIn, InLane
        <4>3. IsFiniteSet(LiveIn(k)) /\ pending[k] = Cardinality(LiveIn(k))
          BY <3>1 DEF Counts
        <4>4. /\ IsFiniteSet(LiveIn(k) \cup {r})
              /\ Cardinality(LiveIn(k) \cup {r}) = pending[k] + 1
          BY <4>1, <4>3, CountOne
        <4>5. pending'[k] = pending[k] + 1 /\ pending'[k] <= Capacity[k]
          BY <2>1, <3>1 DEF HttpTypeOK
        <4>6. \A l \in Lanes \ {k} : pending'[l] = pending[l]
          BY <3>1
        <4>7. IsFiniteSet(Inside)' /\ calls' = Cardinality(Inside')
          BY <3>1, <3>2, InsideKept DEF Start
        <4> QED
          BY <4>1, <4>2, <4>4, <4>5, <4>6, <4>7 DEF Counts
      <3>5. Stages' /\ HttpReserved' /\ Gate' /\ Marked'
        BY <3>1, <3>2
           DEF Start, HttpTypeOK, Stages, HttpReserved, Gate, Marked, lock, stages,
               closing
      <3> QED
        BY <3>3, <3>4, <3>5 DEF HttpIInv
    <2>2. CASE ~(gate = "open" /\ pending[LaneOf[r]] < Capacity[LaneOf[r]])
      <3>1. HttpTypeOK'
        BY <2>2 DEF Start, HttpTypeOK, lock, stages, closing
      <3>2. Counts'
        BY <2>2, CountsKept DEF Start
      <3>3. Stages' /\ HttpReserved' /\ Gate' /\ Marked'
        BY <2>2
           DEF Start, HttpTypeOK, Stages, HttpReserved, Gate, Marked, lock, stages,
               closing
      <3> QED
        BY <3>1, <3>2, <3>3 DEF HttpIInv
    <2> QED
      BY <2>1, <2>2
  <1>Leave. ASSUME NEW r \in Requests, Leave(r) PROVE HttpIInv'
    <2> USE <1>0, <1>Leave
    <2>1. HttpTypeOK'
      BY DEF Leave, HttpTypeOK, lock, closing
    <2>2. Counts'
      BY CountsKept DEF Leave
    <2>3. Stages' /\ HttpReserved' /\ Gate'
      BY DEF Leave, Stages, HttpReserved, Gate, lock, closing
    <2>4. Marked'
      BY DEF Leave, Stages, Marked
    <2> QED
      BY <2>1, <2>2, <2>3, <2>4 DEF HttpIInv
  <1>NotAdmitted. ASSUME NEW r \in Requests, NotAdmitted(r) PROVE HttpIInv'
    <2> USE <1>0, <1>NotAdmitted
    <2>1. actor[r] = "created" /\ actor' = [actor EXCEPT ![r] = "done"] /\ actor'[r] = "done"
      BY DEF NotAdmitted, Ended, HttpTypeOK
    <2>2. Counts' /\ pending' \in [Lanes -> Nat]
      <3>1. actor[r] \in Live
        BY <2>1 DEF Live
      <3>2. IsFiniteSet(Inside)' /\ calls' = Cardinality(Inside')
        BY <2>1, InsideKept DEF NotAdmitted
      <3> QED
        BY <2>1, <3>1, <3>2, LiveGiven DEF NotAdmitted, Ended, Counts
    <2>3. r \notin active /\ r \notin granted /\ r \notin early
      BY <2>1 DEF Stages, Marked
    <2>4. HttpTypeOK'
      <3>1. active' = active /\ granted' = granted /\ early' = early
        BY <2>3 DEF NotAdmitted, Ended, Forgotten
      <3>2. \A q \in Requests : actor'[q] = "reserve" <=> actor[q] = "reserve"
        BY <2>1
      <3>3. /\ owner' \in Requests \cup {Outsider, Nobody}
            /\ queue' \in Seq(Requests) /\ IsInjective(queue')
            /\ \A q \in Requests :
                  actor'[q] = "reserve"
                     <=> q \in ToSet(queue') \/ (q = owner' /\ q \notin granted')
        BY <3>1, <3>2, QueueUntouched DEF NotAdmitted
      <3>4. /\ caller' \in [Requests -> {"new", "waits", "gone"}]
            /\ actor' \in [Requests -> {"none", "done"} \cup Live]
            /\ {active, granted, cancelled, told, early}' \subseteq SUBSET Requests
        BY DEF NotAdmitted, Ended, Forgotten, HttpTypeOK
      <3> QED
        BY <2>2, <3>3, <3>4 DEF NotAdmitted, HttpTypeOK, closing
    <2>5. Stages' /\ HttpReserved' /\ Gate' /\ Marked'
      BY <2>1, <2>3
         DEF NotAdmitted, Ended, Forgotten, Stages, HttpReserved, Gate, Marked, lock,
             closing
    <2> QED
      BY <2>2, <2>4, <2>5 DEF HttpIInv
  <1>Admitted. ASSUME NEW r \in Requests, Admitted(r) PROVE HttpIInv'
    <2> USE <1>0, <1>Admitted
    <2>1. actor[r] = "created" /\ actor' = [actor EXCEPT ![r] = "probe"] /\ actor'[r] = "probe"
      BY DEF Admitted, HttpTypeOK
    <2>2. HttpTypeOK'
      BY <2>1 DEF Admitted, HttpTypeOK, Live, lock, closing
    <2>3. Counts'
      <3>1. Inside' = Inside \cup {r} /\ r \notin Inside
        BY <2>1 DEF Inside
      <3>2. IsFiniteSet(Inside)' /\ calls' = Cardinality(Inside')
        BY <3>1, CountOne DEF Counts, Admitted
      <3>3. \A q \in Requests : actor'[q] \in Live <=> actor[q] \in Live
        BY <2>1 DEF Live
      <3> QED
        BY <3>2, <3>3, LiveKept DEF Admitted, Counts
    <2>4. Stages' /\ Marked'
      BY <2>1 DEF Admitted, Stages, Marked
    <2>5. HttpReserved' /\ Gate'
      BY <2>1 DEF Admitted, HttpReserved, Gate, lock, closing
    <2> QED
      BY <2>2, <2>3, <2>4, <2>5 DEF HttpIInv
  <1>WorkerEnds. ASSUME NEW r \in Requests, WorkerEnds(r) PROVE HttpIInv'
    <2> USE <1>0, <1>WorkerEnds
    <2>1. HttpTypeOK'
      BY DEF WorkerEnds, HttpTypeOK, lock, stages, closing
    <2>2. Counts'
      BY CountsKept DEF WorkerEnds
    <2>3. Stages' /\ HttpReserved' /\ Gate' /\ Marked'
      BY DEF WorkerEnds, HttpTypeOK, Stages, HttpReserved, Gate, Marked, lock, stages,
             closing
    <2> QED
      BY <2>1, <2>2, <2>3 DEF HttpIInv
  <1>Unreserved. ASSUME NEW r \in Requests, actor[r] = "probe", Finish(r),
                        worker[r] # "running", UNCHANGED <<lock, closing, cancels>>
                 PROVE  HttpIInv'
    <2> USE <1>0, <1>Unreserved
    <2>1. Counts' /\ pending' \in [Lanes -> Nat] /\ calls' \in Nat /\ calls # 0
      BY FinishKeepsCounts
    <2>2. /\ Stages' /\ Marked'
          /\ caller' \in [Requests -> {"new", "waits", "gone"}]
          /\ actor' \in [Requests -> {"none", "done"} \cup Live]
          /\ worker' \in [Requests -> {"none", "running", "required", "ended"}]
          /\ {active, granted, cancelled, told, early}' \subseteq SUBSET Requests
      BY FinishClears
    <2>3. /\ actor' = [actor EXCEPT ![r] = "done"] /\ actor'[r] = "done"
          /\ granted' = granted \ {r} /\ r \notin granted
      BY DEF Finish, Ended, Forgotten, HttpTypeOK, Stages
    <2>4. HttpTypeOK'
      <3>1. /\ owner' \in Requests \cup {Outsider, Nobody}
            /\ queue' \in Seq(Requests) /\ IsInjective(queue')
            /\ \A q \in Requests :
                  actor'[q] = "reserve"
                     <=> q \in ToSet(queue') \/ (q = owner' /\ q \notin granted')
        BY <2>3, QueueUntouched
      <3> QED
        BY <2>1, <2>2, <3>1 DEF HttpTypeOK, closing
    <2>5. HttpReserved' /\ Gate'
      BY <2>1, <2>3 DEF HttpReserved, Gate, lock, closing
    <2> QED
      BY <2>1, <2>2, <2>4, <2>5 DEF HttpIInv
  <1>ProbeOver. ASSUME NEW r \in Requests, ProbeOver(r) PROVE HttpIInv'
    BY <1>Unreserved, <1>ProbeOver DEF ProbeOver, WorkerSettled
  <1>ProbeAbandoned. ASSUME NEW r \in Requests, ProbeAbandoned(r) PROVE HttpIInv'
    BY <1>Unreserved, <1>ProbeAbandoned DEF ProbeAbandoned
  <1>Reserve. ASSUME NEW r \in Requests, Reserve(r) PROVE HttpIInv'
    <2> USE <1>0, <1>Reserve
    <2>1. /\ actor[r] = "probe" /\ r \notin early /\ active' = active \ {r}
          /\ r \notin granted /\ r # owner /\ r \notin ToSet(queue)
      BY DEF Reserve, Abandoned, Stages, Marked, HttpTypeOK
    <2>2. CASE owner = Nobody
      <3>1. /\ owner' = r /\ queue' = queue /\ granted' = granted \cup {r}
            /\ actor' = [actor EXCEPT ![r] = "run"] /\ actor'[r] = "run"
            /\ worker' = [worker EXCEPT ![r] = "running"]
        BY <2>2 DEF Reserve, RunReserved, HttpTypeOK
      <3>2. HttpTypeOK'
        BY <2>1, <2>2, <3>1 DEF Reserve, HttpTypeOK, Live, closing
      <3>3. Counts'
        <4>1. \A q \in Requests :
                 /\ actor'[q] \in Live <=> actor[q] \in Live
                 /\ actor'[q] \in {"probe", "reserve", "run"}
                       <=> actor[q] \in {"probe", "reserve", "run"}
          BY <2>1, <3>1 DEF Live
        <4> QED
          BY <4>1, LiveKept, InsideKept DEF Reserve, Counts
      <3>4. Stages' /\ HttpReserved' /\ Gate' /\ Marked'
        BY <2>1, <2>2, <3>1 DEF Reserve, Stages, HttpReserved, Gate, Marked, closing
      <3> QED
        BY <3>2, <3>3, <3>4 DEF HttpIInv
    <2>3. CASE owner # Nobody
      <3>1. /\ owner' = owner /\ queue' = Append(queue, r) /\ granted' = granted
            /\ actor' = [actor EXCEPT ![r] = "reserve"] /\ actor'[r] = "reserve"
            /\ worker' = [worker EXCEPT ![r] = "none"]
        BY <2>3 DEF Reserve, HttpTypeOK
      <3>2. /\ queue' \in Seq(Requests) /\ IsInjective(queue')
            /\ \A q : q \in ToSet(queue') <=> q = r \/ q \in ToSet(queue)
        BY <2>1, <3>1, AppendAdds DEF HttpTypeOK
      <3>3. HttpTypeOK'
        BY <2>1, <3>1, <3>2 DEF Reserve, HttpTypeOK, Live, closing
      <3>4. Counts'
        <4>1. \A q \in Requests :
                 /\ actor'[q] \in Live <=> actor[q] \in Live
                 /\ actor'[q] \in {"probe", "reserve", "run"}
                       <=> actor[q] \in {"probe", "reserve", "run"}
          BY <2>1, <3>1 DEF Live
        <4> QED
          BY <4>1, LiveKept, InsideKept DEF Reserve, Counts
      <3>5. Stages' /\ HttpReserved' /\ Gate' /\ Marked'
        BY <2>1, <3>1, <3>2
           DEF Reserve, HttpTypeOK, Stages, HttpReserved, Gate, Marked, closing
      <3> QED
        BY <3>3, <3>4, <3>5 DEF HttpIInv
    <2> QED
      BY <2>2, <2>3
  <1>Granted. ASSUME NEW r \in Requests, Granted(r) PROVE HttpIInv'
    <2> USE <1>0, <1>Granted
    <2>1. /\ actor[r] = "reserve" /\ owner = r /\ r \notin early
          /\ granted' = granted \cup {r}
          /\ actor' = [actor EXCEPT ![r] = "run"] /\ actor'[r] = "run"
          /\ worker' = [worker EXCEPT ![r] = "running"]
      BY DEF Granted, RunReserved, Marked, HttpTypeOK
    <2>2. HttpTypeOK'
      BY <2>1 DEF Granted, HttpTypeOK, Live, HttpReserved, lock, closing
    <2>3. Counts'
      <3>1. \A q \in Requests :
               /\ actor'[q] \in Live <=> actor[q] \in Live
               /\ actor'[q] \in {"probe", "reserve", "run"}
                     <=> actor[q] \in {"probe", "reserve", "run"}
        BY <2>1 DEF Live
      <3> QED
        BY <3>1, LiveKept, InsideKept DEF Granted, Counts
    <2>4. Stages' /\ HttpReserved' /\ Gate' /\ Marked'
      BY <2>1 DEF Granted, Stages, HttpReserved, Gate, Marked, lock, closing
    <2> QED
      BY <2>2, <2>3, <2>4 DEF HttpIInv
  \* The end of one that has the reservation, or that gives up its place.
  <1>Returned. ASSUME NEW r \in Requests, actor[r] \in {"reserve", "run"}, Finish(r),
                      worker[r] # "running", UNCHANGED <<closing, cancels>>,
                      \/ owner = r /\ HandOver
                      \/ owner # r /\ LeavesQueue(r)
               PROVE  HttpIInv'
    <2> USE <1>0, <1>Returned
    <2>1. Counts' /\ pending' \in [Lanes -> Nat] /\ calls' \in Nat /\ calls # 0
      BY FinishKeepsCounts
    <2>2. /\ Stages' /\ Marked'
          /\ caller' \in [Requests -> {"new", "waits", "gone"}]
          /\ actor' \in [Requests -> {"none", "done"} \cup Live]
          /\ worker' \in [Requests -> {"none", "running", "required", "ended"}]
          /\ {active, granted, cancelled, told, early}' \subseteq SUBSET Requests
      BY FinishClears
    <2>3. /\ actor' = [actor EXCEPT ![r] = "done"] /\ actor'[r] = "done"
          /\ granted' = granted \ {r}
      BY DEF Finish, Ended, Forgotten, HttpTypeOK
    <2>4. /\ queue' \in Seq(Requests) /\ IsInjective(queue')
          /\ owner' \in Requests \cup {Outsider, Nobody} /\ owner' \notin ToSet(queue')
          /\ r # owner' /\ r \notin ToSet(queue')
          /\ \A q \in Requests \ {r} :
                q \in ToSet(queue) \/ q = owner <=> q = owner' \/ q \in ToSet(queue')
          /\ \A q \in Requests \ {r} : q = owner => q = owner'
      <3>1. CASE owner = r /\ HandOver
        BY <3>1, HandOverServes DEF HttpReserved
      <3>2. CASE owner # r /\ LeavesQueue(r)
        <4>1. PICK i \in DOMAIN queue : queue[i] = r /\ queue' = RemoveAt(queue, i)
          BY <3>2 DEF LeavesQueue
        <4>2. /\ queue' \in Seq(Requests) /\ IsInjective(queue')
              /\ \A q : q \in ToSet(queue') <=> q # r /\ q \in ToSet(queue)
          BY <4>1, RemovalLeavesRest DEF HttpTypeOK
        <4> QED
          BY <3>2, <4>2 DEF LeavesQueue, HttpReserved, HttpTypeOK
      <3> QED
        BY <3>1, <3>2
    <2>5. \A q \in Requests \ {r} : actor'[q] = actor[q] /\ (q \in granted' <=> q \in granted)
      BY <2>3
    <2>6. \A q \in Requests :
             actor'[q] = "reserve" <=> q \in ToSet(queue') \/ (q = owner' /\ q \notin granted')
      <3>1. \A q \in Requests \ {r} : q \in granted => q = owner
        BY DEF Stages, HttpReserved
      <3> QED
        BY <2>3, <2>4, <2>5, <3>1 DEF HttpTypeOK, HttpReserved
    <2>7. HttpTypeOK'
      BY <2>1, <2>2, <2>4, <2>6 DEF HttpTypeOK, closing
    <2>8. HttpReserved' /\ Gate'
      BY <2>1, <2>3, <2>4, <2>5 DEF HttpReserved, Gate, closing
    <2> QED
      BY <2>1, <2>2, <2>7, <2>8 DEF HttpIInv
  <1>ReserveFails. ASSUME NEW r \in Requests, ReserveFails(r) PROVE HttpIInv'
    <2>1. worker[r] # "running"
      BY <1>0, <1>ReserveFails DEF ReserveFails, Stages
    <2> QED
      BY <1>Returned, <1>ReserveFails, <2>1 DEF ReserveFails, Withdrawn
  <1>RunOver. ASSUME NEW r \in Requests, RunOver(r) PROVE HttpIInv'
    <2>1. owner = r
      BY <1>0, <1>RunOver DEF RunOver, HttpReserved
    <2> QED
      BY <1>Returned, <1>RunOver, <2>1 DEF RunOver, WorkerSettled
  <1>LoopCancels. ASSUME NEW r \in Requests, LoopCancels(r) PROVE HttpIInv'
    <2> USE <1>0, <1>LoopCancels
    <2>1. HttpTypeOK'
      BY DEF LoopCancels, HttpTypeOK, lock, stages, closing
    <2>2. Counts'
      BY CountsKept DEF LoopCancels
    <2>3. Stages' /\ HttpReserved' /\ Gate' /\ Marked'
      BY DEF LoopCancels, Stages, HttpReserved, Gate, Marked, lock, stages, closing
    <2> QED
      BY <2>1, <2>2, <2>3 DEF HttpIInv
  <1>OutsiderTakes. CASE OutsiderTakes
    <2> USE <1>0, <1>OutsiderTakes
    <2>1. ToSet(queue) \subseteq Requests
      BY LenProperties, ElementOfSeq DEF HttpTypeOK, ToSet
    <2>2. HttpTypeOK'
      BY DEF OutsiderTakes, HttpTypeOK, lock, stages, closing
    <2>3. Counts'
      BY CountsKept DEF OutsiderTakes
    <2>4. Stages' /\ HttpReserved' /\ Gate' /\ Marked'
      BY <2>1 DEF OutsiderTakes, Stages, HttpReserved, Gate, Marked, stages, closing
    <2> QED
      BY <2>2, <2>3, <2>4 DEF HttpIInv
  <1>OutsiderReleases. CASE OutsiderReleases
    <2> USE <1>0, <1>OutsiderReleases
    <2>1. /\ queue' \in Seq(Requests) /\ IsInjective(queue')
          /\ owner' \in Requests \cup {Nobody} /\ owner' \notin ToSet(queue')
          /\ \A r \in Requests : r \in ToSet(queue) <=> r = owner' \/ r \in ToSet(queue')
          /\ owner = Outsider
      BY HandOverServes DEF OutsiderReleases
    <2>2. granted = {} /\ granted' = {}
      BY <2>1 DEF OutsiderReleases, Stages, HttpReserved, HttpTypeOK, stages
    <2>3. HttpTypeOK'
      BY <2>1, <2>2 DEF OutsiderReleases, HttpTypeOK, stages, closing
    <2>4. Counts'
      BY CountsKept DEF OutsiderReleases
    <2>5. Stages' /\ HttpReserved' /\ Gate' /\ Marked'
      BY <2>1 DEF OutsiderReleases, Stages, HttpReserved, Gate, Marked, stages, closing
    <2> QED
      BY <2>3, <2>4, <2>5 DEF HttpIInv
  <1>Close. CASE CloseBegins \/ CloseDone \/ CloseFails
    <2> USE <1>0, <1>Close
    <2>1. HttpTypeOK'
      BY DEF CloseBegins, CloseDone, CloseFails, HttpTypeOK, lock, stages
    <2>2. Counts'
      BY CountsKept DEF CloseBegins, CloseDone, CloseFails
    <2>3. Stages' /\ HttpReserved' /\ Marked'
      BY DEF CloseBegins, CloseDone, CloseFails, Stages, HttpReserved, Marked, lock,
             stages
    <2>4. Gate'
      BY DEF CloseBegins, CloseDone, CloseFails, HttpTypeOK, Gate, Drained
    <2> QED
      BY <2>1, <2>2, <2>3, <2>4 DEF HttpIInv
  <1>stutter. CASE UNCHANGED httpVars
    <2> USE <1>0, <1>stutter
    <2>1. HttpTypeOK' /\ Stages' /\ HttpReserved' /\ Gate' /\ Marked'
      BY DEF httpVars, HttpTypeOK, Stages, HttpReserved, Gate, Marked, lock, stages,
             closing
    <2>2. Counts'
      BY CountsKept DEF httpVars
    <2> QED
      BY <2>1, <2>2 DEF HttpIInv
  <1> QED
    BY <1>Start, <1>Leave, <1>NotAdmitted, <1>Admitted, <1>WorkerEnds, <1>ProbeOver,
       <1>ProbeAbandoned, <1>Reserve, <1>Granted, <1>ReserveFails, <1>RunOver,
       <1>LoopCancels, <1>OutsiderTakes, <1>OutsiderReleases, <1>Close, <1>stutter
       DEF HttpNext, ActorStep

\* The types of the offload and of its reservation; an actor waits for it just
\* when it is in the queue or has been granted it without knowing.
THEOREM HttpTypeCorrect == HttpSpec => []HttpTypeOK
  <1>1. HttpIInv => HttpTypeOK
    BY DEF HttpIInv
  <1> QED
    BY <1>1, HttpInitIInv, HttpStepKeepsIInv, PTL DEF HttpSpec

\* Slots agree with threads, the reservation with the call that runs under it,
\* and a closed executor has neither.
THEOREM OffloadAccountedAlways == HttpSpec => []OffloadAccounted
  <1>1. HttpIInv => OffloadAccounted
    <2> SUFFICES ASSUME HttpIInv PROVE OffloadAccounted
      OBVIOUS
    <2>1. ReservationCoversRun
      BY DEF HttpIInv, HttpTypeOK, Stages, HttpReserved, ReservationCoversRun
    <2>2. ASSUME NEW l \in Lanes
          PROVE  /\ pending[l] = Cardinality(LiveIn(l))
                 /\ Cardinality(InLane(l, {r \in Requests : worker[r] = "running"}))
                       <= Capacity[l]
      <3> DEFINE busy == InLane(l, {r \in Requests : worker[r] = "running"})
      <3>1. busy \subseteq LiveIn(l)
        BY DEF HttpIInv, Stages, LiveIn, InLane, Live
      <3>2. /\ IsFiniteSet(LiveIn(l)) /\ pending[l] = Cardinality(LiveIn(l))
            /\ pending[l] <= Capacity[l]
        BY DEF HttpIInv, Counts
      <3>3. /\ IsFiniteSet(busy) /\ Cardinality(busy) <= Cardinality(LiveIn(l))
        BY <3>1, <3>2, FS_Subset
      <3>4. /\ Cardinality(busy) \in Nat /\ Cardinality(LiveIn(l)) \in Nat
            /\ Capacity[l] \in Nat
        BY <3>2, <3>3, FS_CardinalityType, LanesAssumption
      <3> QED
        BY <3>2, <3>3, <3>4
    <2>3. ASSUME gate = "closed"
          PROVE  /\ \A r \in Requests : worker[r] # "running"
                 /\ owner \notin Requests /\ queue = <<>>
      <3>1. Inside = {}
        BY <2>3, FS_EmptySet DEF HttpIInv, Gate, Counts
      <3>2. \A r \in Requests : actor[r] \notin {"probe", "reserve", "run"}
        BY <3>1 DEF Inside
      <3>3. owner \notin Requests
        BY <3>2 DEF HttpIInv, HttpTypeOK, Stages
      <3>4. queue = <<>>
        <4>1. \A r \in Requests : r \notin ToSet(queue)
          BY <3>2 DEF HttpIInv, HttpTypeOK
        <4>2. queue \in Seq(Requests)
          BY DEF HttpIInv, HttpTypeOK
        <4>3. SUFFICES ASSUME queue # <<>> PROVE FALSE
          OBVIOUS
        <4>4. 1 \in DOMAIN queue /\ queue[1] \in Requests
          BY <4>2, <4>3, EmptySeq, LenProperties, ElementOfSeq
        <4> QED
          BY <4>1, <4>4 DEF ToSet
      <3> QED
        BY <3>2, <3>3, <3>4 DEF HttpIInv, Stages
    <2> QED
      BY <2>1, <2>2, <2>3 DEF OffloadAccounted, LanesAccounted, LiveIn
  <1> QED
    BY <1>1, HttpInitIInv, HttpStepKeepsIInv, PTL DEF HttpSpec

\* A call that its caller left early does not come to run.
LEMMA StepLeavesAbandoned ==
    HttpIInv /\ [HttpNext]_httpVars => \A r \in early : r \notin granted'
  <1> SUFFICES ASSUME HttpIInv, [HttpNext]_httpVars, NEW r \in early PROVE r \notin granted'
    OBVIOUS
  <1>1. r \in Requests /\ r \notin granted /\ r \in cancelled
    BY DEF HttpIInv, HttpTypeOK, Stages, Marked
  <1>2. ASSUME NEW q \in Requests, Reserve(q) \/ Granted(q) PROVE r \notin granted'
    <2>1. r # q
      BY <1>1, <1>2 DEF HttpIInv, Marked, Reserve, Granted, Abandoned
    <2> QED
      BY <1>1, <1>2, <2>1 DEF Reserve, Granted, RunReserved
  <1>3. CASE granted' \subseteq granted
    BY <1>1, <1>3
  <1> QED
    BY <1>2, <1>3
       DEF HttpNext, ActorStep, httpVars, stages, Start, Leave, LoopCancels, WorkerEnds,
           NotAdmitted, Admitted, ProbeOver, ProbeAbandoned, RunOver, ReserveFails,
           Finish, Ended, Forgotten, OutsiderTakes, OutsiderReleases, CloseBegins,
           CloseDone, CloseFails

\* Whoever leaves during the probe or the wait, even with the grant on its way,
\* does not find its call run afterwards.
THEOREM AbandonedIsNotRunAlways == HttpSpec => AbandonedIsNotRun
  BY HttpInitIInv, HttpStepKeepsIInv, StepLeavesAbandoned, PTL
     DEF HttpSpec, AbandonedIsNotRun

================================================================================
