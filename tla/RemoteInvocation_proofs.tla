------------------------ MODULE RemoteInvocation_proofs -----------------------
(****************************************************************************)
(* Provider operations delivered through an engine, for any number of       *)
(* operations, workers and controls, of repeated activities and of faults.  *)
(*                                                                          *)
(* The ledger is the only thing that all parties share.  Records says what  *)
(* its reservation and its consumed grant mean for the effect outside,      *)
(* Working that the activities that were let through to the provider are    *)
(* those the ledger has on record, each once.  A handler is         *)
(* reduced to what it makes of a record (Moves) and of the activities.      *)
(****************************************************************************)
EXTENDS RemoteInvocation, TLAPS

Final == {"applied", "absent"}

\* The record of an operation: it is reserved until it settles, and beyond
\* that while a granted effect may still happen.
Fit(o) ==
    /\ LedgerFits(rec[o])
    /\ rec[o].st \in NonTerminal => rec[o].reserved
    /\ rec[o].st = "none" =>
           ~rec[o].reserved /\ ~rec[o].consumed /\ rec[o].controls = {}
    /\ rec[o].st = "CANCELLED" /\ rec[o].consumed => world[o] \in Final
    /\ o \in resolved => rec[o].st = "INDETERMINATE"
    /\ rec[o].consumed /\ world[o] \notin Final => Holds(o)
    /\ world[o] = "open" \/ starts[o] > 0 => rec[o].consumed
    /\ starts[o] <= 1
    /\ rec[o].st = "SUCCEEDED" => world[o] = "applied"
    /\ rec[o].st = "FAILED" => world[o] \in Final

\* One operation at a time has the target, and one has a control.
Records ==
    /\ \A o \in Ops : Fit(o)
    /\ \A o, p \in Ops : Holds(o) /\ Holds(p) => o = p
    /\ \A o, p \in Ops : \A c \in rec[o].controls : c \in rec[p].controls => o = p

\* An activity with the grant of o, and one that may call for control c.
Starting(w, o) == job[w] # None /\ job[w].at = "start" /\ job[w].op = o
Calling(w, c) == job[w] # None /\ job[w].at = "call" /\ job[w].ctl = c

Working ==
    /\ \A o \in Ops, w \in Workers : Starting(w, o) =>
           /\ rec[o].consumed /\ starts[o] = 0
           /\ \A v \in Workers : Starting(v, o) => v = w
    /\ \A c \in Controls, w \in Workers : Calling(w, c) =>
           /\ c \in rec[job[w].op].delivered /\ calls[c] = 0
           /\ \A v \in Workers : Calling(v, c) => v = w
    /\ \A c \in Controls : calls[c] > 0 =>
           calls[c] = 1 /\ \E o \in Ops : c \in rec[o].delivered
    /\ \A k \in cuts : k.msg \in Recons => k.msg = "ceased"

IInv == TypeOK /\ Records /\ Working

\* A verdict stands, and what was used up stays used.
Onward ==
    \A o \in Ops :
        /\ rec[o].st \in Terminal => rec'[o].st = rec[o].st
        /\ rec[o].consumed => rec'[o].consumed
        /\ rec[o].delivered \subseteq rec'[o].delivered

\* A step as the target sees it: a claim of the free target, a release or
\* nothing, and a turn of the effect of one operation.
Cut ==
    \/ /\ UNCHANGED world /\ \A p \in Ops : ~Holds(p)
       /\ \E o \in Ops : \A p \in Ops : Holds(p)' => p = o
    \/ UNCHANGED world /\ \A o \in Ops : Holds(o)' => Holds(o)
    \/ /\ \A p \in Ops : Holds(p)' <=> Holds(p)
       /\ \E o \in Ops : /\ \A p \in Ops \ {o} : world'[p] = world[p]
                         /\ world'[o] = "open" => Holds(o) \/ world[o] = "open"

--------------------------------------------------------------------------------
(* What a handler may make of a record                                        *)

Moves(o) ==
    /\ rec'[o] \in Ledgers /\ LedgerFits(rec'[o])
    /\ rec'[o].st \in NonTerminal => rec'[o].reserved
    /\ rec'[o].st = "none" =>
           ~rec'[o].reserved /\ ~rec'[o].consumed /\ rec'[o].controls = {}
    /\ rec'[o].st = "CANCELLED" /\ rec'[o].consumed => world[o] \in Final
    /\ rec'[o].reserved => rec[o].reserved
    /\ rec'[o].consumed /\ world[o] \notin Final => rec'[o].reserved
    /\ rec[o].consumed => rec'[o].consumed
    /\ rec[o].delivered \subseteq rec'[o].delivered
    /\ rec[o].st \in Terminal =>
           rec'[o].st = rec[o].st /\ (rec'[o].consumed => rec[o].consumed)
    /\ rec'[o].st = "SUCCEEDED" => world[o] = "applied"
    /\ rec'[o].st = "FAILED" => world[o] \in Final

SameControls == \A o \in Ops : rec'[o].controls = rec[o].controls

\* A record that a handler leaves alone is well treated.
LEMMA StillMoves ==
    ASSUME NEW o \in Ops, rec[o] \in Ledgers, Fit(o), rec'[o] = rec[o]
    PROVE  Moves(o)
  <1>1. rec[o].consumed /\ world[o] \notin Final => rec[o].reserved
    BY DEF Fit, Holds
  <1> QED
    BY <1>1 DEF Fit, Moves

\* What Moves grants is what Fit asks for.
LEMMA MovesFit ==
    ASSUME NEW o \in Ops, rec[o] \in Ledgers, Fit(o), Moves(o),
           UNCHANGED <<resolved, world, starts>>
    PROVE  Fit(o)'
  <1>1. LedgerFits(rec[o])' = LedgerFits(rec'[o])
    BY DEF LedgerFits
  <1>2. rec[o] \in Ledgers /\ rec'[o] \in Ledgers
    BY DEF Moves
  <1>3. (o \in resolved => rec[o].st = "INDETERMINATE")'
    BY DEF Fit, Moves, Terminal
  <1>4. (rec[o].consumed /\ world[o] \notin Final => Holds(o))'
    <2> SUFFICES ASSUME rec'[o].consumed, world[o] \notin Final PROVE Holds(o)'
      OBVIOUS
    <2>1. rec'[o].reserved
      BY DEF Moves
    <2>2. o \notin resolved
      <3> SUFFICES ASSUME o \in resolved PROVE FALSE
        OBVIOUS
      <3>1. rec[o].consumed
        BY DEF Fit, Moves, Terminal
      <3> QED
        BY <3>1 DEF Fit, Holds
    <2> QED
      BY <2>1, <2>2 DEF Holds
  <1> QED
    BY <1>1, <1>3, <1>4 DEF Fit, Moves

\* All of the ledger moves and the world stands still.
LEMMA RecordsMove ==
    ASSUME rec \in [Ops -> Ledgers], Records, \A o \in Ops : Moves(o),
           \A o, p \in Ops : \A c \in rec'[o].controls :
               c \in rec'[p].controls => o = p,
           UNCHANGED <<resolved, world, starts>>
    PROVE  Records' /\ Onward /\ Cut
  <1>1. \A o \in Ops : Fit(o)'
    BY MovesFit DEF Records
  <1>2. \A o \in Ops : Holds(o)' => Holds(o)
    BY DEF Moves, Holds
  <1>3. Onward
    BY DEF Moves, Onward
  <1> QED
    BY <1>1, <1>2, <1>3 DEF Records, Cut

\* Only the record of o moves.
LEMMA OneMoves ==
    ASSUME rec \in [Ops -> Ledgers], Records, NEW o \in Ops,
           rec' \in [Ops -> Ledgers], Moves(o),
           \A p \in Ops \ {o} : rec'[p] = rec[p],
           rec'[o].controls \subseteq rec[o].controls,
           UNCHANGED <<resolved, world, starts>>
    PROVE  Records' /\ Onward /\ Cut /\ (\A p \in Ops : LedgerFits(rec'[p]))
  <1>1. \A p \in Ops : Moves(p)
    BY StillMoves DEF Records
  <1>2. \A p, q \in Ops : \A c \in rec'[p].controls : c \in rec'[q].controls => p = q
    BY DEF Records
  <1> QED
    BY <1>1, <1>2, RecordsMove DEF Moves

\* No record moves.
LEMMA NoneMoves ==
    ASSUME rec \in [Ops -> Ledgers], Records, UNCHANGED <<rec, resolved, world, starts>>
    PROVE  Records' /\ Onward /\ Cut
  <1>1. \A p \in Ops : Moves(p)
    BY StillMoves DEF Records
  <1>2. \A p, q \in Ops : \A c \in rec'[p].controls : c \in rec'[q].controls => p = q
    BY DEF Records
  <1> QED
    BY <1>1, <1>2, RecordsMove

\* commit_settlement: with nothing known, by the grant, or with what is true.
LEMMA Settled ==
    ASSUME rec \in [Ops -> Ledgers], armed \subseteq Ops, Records, NEW o \in Ops,
           NEW state \in Terminal, NEW release \in BOOLEAN,
           Settle(o, state, release),
           state = "CANCELLED" /\ rec[o].consumed => world[o] \in Final,
           state = "SUCCEEDED" => world[o] = "applied",
           state = "FAILED" \/ release => world[o] \in Final,
           UNCHANGED <<resolved, world, starts>>
    PROVE  /\ Records' /\ Onward /\ Cut
           /\ rec' \in [Ops -> Ledgers] /\ \A p \in Ops : LedgerFits(rec'[p])
           /\ armed' \subseteq Ops
  <1>1. CASE rec[o].st \in NonTerminal /\ rec[o].gen = gen
    <2>1. PICK b \in BOOLEAN : b = (rec[o].consumed /\ ~release)
      BY Zenon
    <2>2. rec' = [rec EXCEPT ![o].st = state, ![o].reserved = b] /\ armed' = armed \ {o}
      BY <1>1, <2>1 DEF Settle
    <2>3. rec[o] \in Ledgers
      OBVIOUS
    <2>4. rec'[o] = [rec[o] EXCEPT !.st = state, !.reserved = b]
      BY <2>2, <2>3
    <2>5. /\ rec'[o] \in Ledgers /\ rec'[o].st = state /\ rec'[o].reserved = b
          /\ rec'[o].consumed = rec[o].consumed
          /\ rec'[o].controls = rec[o].controls
          /\ rec'[o].delivered = rec[o].delivered
      BY <2>3, <2>4 DEF Ledgers
    <2>6. rec' \in [Ops -> Ledgers] /\ \A p \in Ops \ {o} : rec'[p] = rec[p]
      BY <2>2, <2>4, <2>5
    <2>7. Fit(o)
      BY DEF Records
    <2>8. Moves(o)
      BY <1>1, <2>1, <2>5, <2>7
         DEF Moves, Fit, Terminal, NonTerminal, LedgerFits
    <2> QED
      BY <2>2, <2>5, <2>6, <2>8, OneMoves
  <1>2. CASE ~(rec[o].st \in NonTerminal /\ rec[o].gen = gen)
    <2>1. UNCHANGED <<rec, armed>>
      BY <1>2 DEF Settle
    <2> QED
      BY <2>1, NoneMoves DEF Records, Fit
  <1> QED
    BY <1>1, <1>2

LEMMA UnknownFits ==
    ASSUME NEW o \in Ops
    PROVE  Unknown(o) \in Terminal /\ (Unknown(o) = "CANCELLED" => ~rec[o].consumed)
           /\ Unknown(o) \notin {"SUCCEEDED", "FAILED"}
  BY DEF Unknown, Terminal

\* reconcile_startup_operations and the shutdown classify every record.
LEMMA Classified ==
    ASSUME rec \in [Ops -> Ledgers], Records,
           rec' = [o \in Ops |-> Classify(rec[o])],
           UNCHANGED <<resolved, world, starts>>
    PROVE  /\ Records' /\ Onward /\ Cut
           /\ rec' \in [Ops -> Ledgers] /\ \A p \in Ops : LedgerFits(rec'[p])
  <1>1. ASSUME NEW o \in Ops
        PROVE  Moves(o) /\ rec'[o].controls = rec[o].controls
    <2>1. rec'[o] = Classify(rec[o]) /\ rec[o] \in Ledgers /\ Fit(o)
      BY DEF Records
    <2>2. CASE rec[o].st = "ACCEPTED"
      <3>1. rec'[o] = [rec[o] EXCEPT !.st = "CANCELLED", !.reserved = FALSE]
        BY <2>1, <2>2 DEF Classify
      <3>2. /\ rec'[o] \in Ledgers /\ rec'[o].st = "CANCELLED" /\ ~rec'[o].reserved
            /\ rec'[o].consumed = rec[o].consumed
            /\ rec'[o].controls = rec[o].controls
            /\ rec'[o].delivered = rec[o].delivered
        BY <2>1, <3>1 DEF Ledgers, Terminal
      <3> QED
        BY <2>1, <2>2, <3>2 DEF Moves, Fit, NonTerminal, Terminal, LedgerFits
    <2>3. CASE rec[o].st = "RUNNING"
      <3>1. rec'[o] = [rec[o] EXCEPT !.st = "INDETERMINATE"]
        BY <2>1, <2>3 DEF Classify
      <3>2. /\ rec'[o] \in Ledgers /\ rec'[o].st = "INDETERMINATE"
            /\ rec'[o].reserved = rec[o].reserved
            /\ rec'[o].consumed = rec[o].consumed
            /\ rec'[o].controls = rec[o].controls
            /\ rec'[o].delivered = rec[o].delivered
        BY <2>1, <3>1 DEF Ledgers, Terminal
      <3> QED
        BY <2>1, <2>3, <3>2 DEF Moves, Fit, NonTerminal, Terminal, LedgerFits
    <2>4. CASE rec[o].st \notin NonTerminal
      BY <2>1, <2>4, StillMoves DEF Classify, NonTerminal
    <2> QED
      BY <2>2, <2>3, <2>4 DEF NonTerminal
  <1>2. \A p, q \in Ops : \A c \in rec'[p].controls : c \in rec'[q].controls => p = q
    BY <1>1 DEF Records
  <1> QED
    BY <1>1, <1>2, RecordsMove DEF Moves

--------------------------------------------------------------------------------
(* The activities                                                             *)

\* Nobody gets closer to the provider.
Held ==
    /\ \A w \in Workers, o \in Ops : Starting(w, o)' => Starting(w, o)
    /\ \A w \in Workers, c \in Controls :
           Calling(w, c)' => Calling(w, c) /\ job'[w].op = job[w].op

LEMMA WorkingKept ==
    ASSUME TypeOK, Working, Onward, Held, UNCHANGED <<starts, calls>>,
           \A k \in cuts' : k.msg \in Recons => k.msg = "ceased"
    PROVE  Working'
  <1>1. ASSUME NEW o \in Ops, NEW w \in Workers, Starting(w, o)'
        PROVE  /\ (rec[o].consumed /\ starts[o] = 0)'
               /\ \A v \in Workers : Starting(v, o)' => v = w
    BY <1>1 DEF Held, Working, Onward
  <1>2. ASSUME NEW c \in Controls, NEW w \in Workers, Calling(w, c)'
        PROVE  /\ (c \in rec[job[w].op].delivered /\ calls[c] = 0)'
               /\ \A v \in Workers : Calling(v, c)' => v = w
    <2>1. Calling(w, c) /\ job'[w].op = job[w].op
      BY <1>2 DEF Held
    <2>2. job[w].op \in Ops
      BY <2>1, NamesAssumption DEF TypeOK, Jobs, Calling
    <2> QED
      BY <1>2, <2>1, <2>2 DEF Held, Working, Onward
  <1>3. ASSUME NEW c \in Controls, calls'[c] > 0
        PROVE  calls'[c] = 1 /\ \E o \in Ops : c \in rec'[o].delivered
    BY <1>3 DEF Working, Onward
  <1> QED
    BY <1>1, <1>2, <1>3 DEF Working

LEMMA JobsHeld ==
    ASSUME UNCHANGED job
    PROVE  Held
  BY DEF Held, Starting, Calling

\* An activity that does not go on to the provider.
LEMMA JobHeld ==
    ASSUME TypeOK, NEW w \in Workers, NEW j, job' = [job EXCEPT ![w] = j],
           j # None => j.at # "start" /\ (j.at = "call" => j.ctl = None)
    PROVE  Held
  <1>1. job'[w] = j /\ \A v \in Workers \ {w} : job'[v] = job[v]
    BY DEF TypeOK
  <1> QED
    BY <1>1, NamesAssumption DEF Held, Starting, Calling

LEMMA Stops ==
    ASSUME NEW j \in Jobs
    PROVE  /\ NextStop(j) \in Jobs \cup {None} /\ AfterFailure(j) \in Jobs \cup {None}
           /\ AfterFailure(j) # None => AfterFailure(j).at = "indeterminate"
           /\ j.at \in {"publish", "indeterminate"} /\ NextStop(j) # None => NextStop(j).at = "wait"
           /\ j.at = "claim" => NextStop(j) = [j EXCEPT !.at = "start"]
           /\ j.at = "deliver" => NextStop(j) = [j EXCEPT !.at = "call"]
  <1>1. AfterFailure(j) = None \/ AfterFailure(j) = [j EXCEPT !.at = "indeterminate", !.msg = None]
    BY DEF AfterFailure
  <1>2. [j EXCEPT !.at = "indeterminate", !.msg = None] \in Jobs
    BY DEF Jobs
  <1>3. [j EXCEPT !.at = "start"] \in Jobs /\ [j EXCEPT !.at = "call"] \in Jobs /\ [j EXCEPT !.at = "wait"] \in Jobs
    BY DEF Jobs
  <1>4. [j EXCEPT !.at = "indeterminate", !.msg = None].at = "indeterminate" /\ [j EXCEPT !.at = "wait"].at = "wait"
    BY DEF Jobs
  <1>5. \/ j.at = "claim" /\ NextStop(j) = [j EXCEPT !.at = "start"]
        \/ j.at = "deliver" /\ NextStop(j) = [j EXCEPT !.at = "call"]
        \/ j.at \notin {"claim", "deliver"} /\ NextStop(j) = [j EXCEPT !.at = "wait"]
        \/ j.at \notin {"claim", "deliver"} /\ NextStop(j) = None
    BY DEF NextStop
  <1> QED
    BY <1>1, <1>2, <1>3, <1>4, <1>5

\* What a served request makes of the plane, whoever sent it.
PlaneTyped ==
    /\ rec' \in [Ops -> Ledgers] /\ \A o \in Ops : LedgerFits(rec'[o])
    /\ answer' \in [Controls -> Recons \cup {None}]
    /\ armed' \subseteq Ops /\ budget' \subseteq Controls /\ poisoned' \in BOOLEAN
    /\ cuts' \subseteq [op : Ops, msg : Outcomes \cup Recons, ctl : Controls \cup {None}]
    /\ faults' \in 0 .. MaxFaults

Served ==
    /\ PlaneTyped /\ Records' /\ Onward /\ Cut
    /\ \A k \in cuts' : k.msg \in Recons => k.msg = "ceased"
    /\ UNCHANGED <<resolved, up, gen, sess, out, engine, provider, runs>>

LEMMA ClaimServed ==
    ASSUME IInv, NEW j \in Jobs, NEW done, NEW failed, ServeClaim(j, done, failed)
    PROVE  /\ Served
           /\ \/ job' = failed
              \/ job' = done /\ ~rec[j.op].consumed /\ rec'[j.op].consumed
  <1>1. PICK o \in Ops : o = j.op
    BY DEF Jobs
  <1>2. rec[o] \in Ledgers /\ Fit(o) /\ rec \in [Ops -> Ledgers]
    BY DEF IInv, TypeOK, Records
  <1>3. Consumed(o) \in Ledgers /\ [Consumed(o) EXCEPT !.st = "INDETERMINATE"] \in Ledgers
    BY <1>2 DEF Consumed, Ledgers, NonTerminal, Terminal
  <1>4. Claimable(o)
    BY <1>1 DEF ServeClaim, Grant, GrantTooLate, GrantUnsaved
  <1>5. PICK r \in Ledgers : rec' = [rec EXCEPT ![o] = r] /\ r \in {rec[o], Consumed(o), [Consumed(o) EXCEPT !.st = "INDETERMINATE"]}
    <2>1. rec = [rec EXCEPT ![o] = rec[o]]
      BY <1>2
    <2> QED
      BY <1>1, <1>2, <1>3, <2>1
         DEF ServeClaim, Grant, GrantTooLate, GrantUnsaved
  <1>6. rec' \in [Ops -> Ledgers] /\ rec'[o] = r /\ \A p \in Ops \ {o} : rec'[p] = rec[p]
    BY <1>2, <1>5
  <1>7. /\ r.reserved = rec[o].reserved /\ r.controls = rec[o].controls /\ r.delivered = rec[o].delivered
        /\ r = rec[o] \/ (r.consumed /\ r.st \in {"RUNNING", "INDETERMINATE"})
    <2>1. CASE r = Consumed(o)
      BY <1>2, <2>1 DEF Consumed
    <2>2. CASE r = [Consumed(o) EXCEPT !.st = "INDETERMINATE"]
      <3>1. r = [rec[o] EXCEPT !.st = "INDETERMINATE", !.consumed = TRUE]
        BY <1>2, <2>2 DEF Consumed
      <3> QED
        BY <1>2, <3>1
    <2> QED
      BY <1>5, <2>1, <2>2
  <1>8. Moves(o)
    <2>1. CASE r = rec[o]
      BY <1>2, <1>6, <2>1, StillMoves
    <2>2. CASE r.consumed /\ r.st \in {"RUNNING", "INDETERMINATE"}
      BY <1>2, <1>4, <1>6, <1>7, <2>2
         DEF Moves, Fit, Claimable, NonTerminal, Terminal, LedgerFits
    <2> QED
      BY <1>7, <2>1, <2>2
  <1>9. UNCHANGED <<answer, resolved, up, gen, budget, sess, cuts, out, engine, provider, runs>>
    BY DEF ServeClaim
  <1>10. Records' /\ Onward /\ Cut /\ (\A p \in Ops : LedgerFits(rec'[p]))
    BY <1>2, <1>6, <1>7, <1>8, <1>9, OneMoves DEF IInv, provider
  <1>11. armed' \subseteq Ops /\ poisoned' \in BOOLEAN /\ faults' \in 0 .. MaxFaults
    <2>1. UNCHANGED faults \/ (faults > 0 /\ faults' = faults - 1)
      BY Zenon DEF ServeClaim, GrantUnsaved, Reply
    <2>2. faults' \in 0 .. MaxFaults
      BY <2>1, BoundsAssumption DEF IInv, TypeOK
    <2> QED
      BY <2>2 DEF ServeClaim, Grant, GrantTooLate, GrantUnsaved, IInv, TypeOK
  <1>12. PlaneTyped
    BY <1>6, <1>9, <1>10, <1>11 DEF PlaneTyped, IInv, TypeOK
  <1>13. Served
    BY <1>9, <1>10, <1>12 DEF Served, IInv, Working
  <1>14. CASE Grant(o) /\ job' = done
    <2>1. rec'[o] = Consumed(o)
      BY <1>2, <1>14 DEF Grant
    <2>2. rec'[o].consumed
      BY <1>2, <2>1 DEF Consumed
    <2> QED
      BY <1>1, <1>4, <1>13, <1>14, <2>2 DEF Claimable
  <1>15. CASE job' = failed
    BY <1>13, <1>15
  <1> QED
    BY <1>1, <1>14, <1>15 DEF ServeClaim, Reply

LEMMA ControlServed ==
    ASSUME IInv, NEW j \in Jobs, NEW done, NEW failed, ServeControl(j, done, failed)
    PROVE  /\ Served /\ job' \in {done, failed} /\ ControlClaimable(j.op, j.ctl)
           /\ j.ctl \in rec'[j.op].delivered
  <1>1. PICK o \in Ops : o = j.op
    BY DEF Jobs
  <1>2. rec[o] \in Ledgers /\ Fit(o) /\ rec \in [Ops -> Ledgers]
    BY DEF IInv, TypeOK, Records
  <1>3. PICK c : c = j.ctl
    OBVIOUS
  <1>4. ControlClaimable(o, c) /\ rec' = [rec EXCEPT ![o].delivered = @ \cup {c}] /\ budget' = budget \ {c}
    BY <1>1, <1>3 DEF ServeControl, ClaimControl
  <1>5. PICK d \in SUBSET Controls : d = rec[o].delivered \cup {c} /\ d \subseteq rec[o].controls
    BY <1>2, <1>4 DEF Ledgers, ControlClaimable, Fit, LedgerFits
  <1>6. rec' = [rec EXCEPT ![o].delivered = d]
    BY <1>4, <1>5
  <1>7. rec'[o] = [rec[o] EXCEPT !.delivered = d]
    BY <1>2, <1>6
  <1>8. /\ rec'[o] \in Ledgers /\ rec'[o].delivered = d /\ rec'[o].st = rec[o].st
        /\ rec'[o].consumed = rec[o].consumed /\ rec'[o].reserved = rec[o].reserved
        /\ rec'[o].controls = rec[o].controls
    BY <1>2, <1>7 DEF Ledgers
  <1>9. rec' \in [Ops -> Ledgers] /\ \A p \in Ops \ {o} : rec'[p] = rec[p]
    BY <1>2, <1>6, <1>7, <1>8
  <1>10. Moves(o)
    BY <1>2, <1>5, <1>8 DEF Moves, Fit, Holds, LedgerFits
  <1>11. UNCHANGED <<answer, resolved, up, gen, poisoned, armed, sess, cuts, out, engine, provider, runs>>
    BY DEF ServeControl
  <1>12. Records' /\ Onward /\ Cut /\ (\A p \in Ops : LedgerFits(rec'[p]))
    BY <1>2, <1>8, <1>9, <1>10, <1>11, OneMoves DEF IInv, provider
  <1>13. faults' \in 0 .. MaxFaults
    <2>1. UNCHANGED faults \/ (faults > 0 /\ faults' = faults - 1)
      BY Zenon DEF ServeControl, Reply
    <2> QED
      BY <2>1, BoundsAssumption DEF IInv, TypeOK
  <1>14. PlaneTyped
    BY <1>4, <1>9, <1>11, <1>12, <1>13 DEF PlaneTyped, IInv, TypeOK
  <1>15. Served
    BY <1>11, <1>12, <1>14 DEF Served, IInv, Working
  <1> QED
    BY <1>1, <1>3, <1>4, <1>5, <1>8, <1>15 DEF ServeControl, Reply

LEMMA PublishServed ==
    ASSUME IInv, NEW j \in Jobs, NEW done, NEW failed, ServePublish(j, done, failed)
    PROVE  Served /\ job' \in {done, failed}
  <1>1. PICK o \in Ops : o = j.op
    BY DEF Jobs
  <1>2. rec[o] \in Ledgers /\ Fit(o) /\ rec \in [Ops -> Ledgers]
    BY DEF IInv, TypeOK, Records
  <1>3. PICK m \in Responses \cup {None} : m = j.msg
    BY DEF Jobs
  <1>4. PICK c : c = j.ctl
    OBVIOUS
  <1>5. PublishResponse(o, c, m)
    BY <1>1, <1>3, <1>4 DEF ServePublish
  <1>6. PICK h \in {"nothing"} \cup Acks \cup Outcomes : h = IF m \in Acks \cup Outcomes THEN m ELSE rec[o].heard
    BY <1>2 DEF Ledgers
  <1>7. PICK s : \/ s = rec[o].st /\ rec' = [rec EXCEPT ![o].heard = h] /\ UNCHANGED armed
                 \/ /\ s = "INDETERMINATE" /\ rec[o].st = "RUNNING" /\ armed' = armed \ {o}
                    /\ rec' = [[rec EXCEPT ![o].heard = h] EXCEPT ![o].st = s]
    BY <1>2, <1>5, <1>6 DEF PublishResponse
  <1>8. rec'[o] = [rec[o] EXCEPT !.heard = h, !.st = s] /\ (\A p \in Ops \ {o} : rec'[p] = rec[p]) /\ DOMAIN rec' = Ops /\ rec' = [p \in Ops |-> rec'[p]]
    BY <1>2, <1>7
  <1>9. /\ rec'[o] \in Ledgers /\ rec'[o].st = s
        /\ rec'[o].consumed = rec[o].consumed /\ rec'[o].reserved = rec[o].reserved
        /\ rec'[o].controls = rec[o].controls /\ rec'[o].delivered = rec[o].delivered
    BY <1>2, <1>7, <1>8 DEF Ledgers
  <1>10. rec' \in [Ops -> Ledgers]
    BY <1>2, <1>8, <1>9
  <1>11. Moves(o)
    BY <1>2, <1>7, <1>9 DEF Moves, Fit, Holds, LedgerFits, NonTerminal, Terminal
  <1>12. UNCHANGED <<resolved, up, gen, poisoned, budget, sess, out, engine, provider, runs>>
    BY DEF ServePublish
  <1>13. Records' /\ Onward /\ Cut /\ (\A p \in Ops : LedgerFits(rec'[p]))
    BY <1>2, <1>8, <1>9, <1>10, <1>11, <1>12, OneMoves DEF IInv, provider
  <1>14. faults' \in 0 .. MaxFaults
    <2>1. UNCHANGED faults \/ (faults > 0 /\ faults' = faults - 1)
      BY Zenon DEF ServePublish, Reply
    <2> QED
      BY <2>1, BoundsAssumption DEF IInv, TypeOK
  <1>15. answer' \in [Controls -> Recons \cup {None}]
    BY <1>5 DEF PublishResponse, IInv, TypeOK
  <1>16. /\ cuts' \subseteq [op : Ops, msg : Outcomes \cup Recons, ctl : Controls \cup {None}]
         /\ \A k \in cuts' : k.msg \in Recons => k.msg = "ceased"
    <2>1. \A k \in cuts' : k \in cuts \/ (m \in Outcomes /\ k = [op |-> o, msg |-> m, ctl |-> None])
      BY <1>5 DEF PublishResponse
    <2>2. m \in Outcomes => m \notin Recons
      BY DEF Outcomes, Recons
    <2> QED
      BY <2>1, <2>2 DEF IInv, TypeOK, Working
  <1>17. armed' \subseteq Ops
    BY <1>7 DEF IInv, TypeOK
  <1>18. PlaneTyped
    BY <1>10, <1>12, <1>13, <1>14, <1>15, <1>16, <1>17
       DEF PlaneTyped, IInv, TypeOK
  <1>19. Served
    BY <1>12, <1>13, <1>16, <1>18 DEF Served
  <1> QED
    BY <1>19 DEF ServePublish, Reply

LEMMA IndeterminateServed ==
    ASSUME IInv, NEW j \in Jobs, NEW done, ServeIndeterminate(j, done)
    PROVE  Served /\ job' = done
  <1>1. PICK o \in Ops : o = j.op
    BY DEF Jobs
  <1>2. Settle(o, Unknown(o), FALSE) /\ UNCHANGED <<answer, cuts>>
    BY <1>1 DEF ServeIndeterminate, MarkIndeterminate
  <1>3. UNCHANGED <<resolved, up, gen, poisoned, budget, sess, out, engine, provider, runs, faults>>
    BY DEF ServeIndeterminate, bounds
  <1>4. PICK s \in Terminal : s = Unknown(o)
    BY UnknownFits
  <1>5. /\ Records' /\ Onward /\ Cut
        /\ rec' \in [Ops -> Ledgers] /\ \A p \in Ops : LedgerFits(rec'[p])
        /\ armed' \subseteq Ops
    BY <1>2, <1>3, <1>4, UnknownFits, Settled DEF IInv, TypeOK, provider
  <1>6. PlaneTyped
    BY <1>2, <1>3, <1>5 DEF PlaneTyped, IInv, TypeOK
  <1>7. Served
    BY <1>2, <1>3, <1>5, <1>6 DEF Served, IInv, Working
  <1> QED
    BY <1>7 DEF ServeIndeterminate

\* The grant: its activity is the only one that may start the provider.
LEMMA GrantWorking ==
    ASSUME IInv, Served, NEW w \in Workers, job[w] # None, job[w].at = "claim",
           job' = [job EXCEPT ![w] = [job[w] EXCEPT !.at = "start"]],
           ~rec[job[w].op].consumed, rec'[job[w].op].consumed
    PROVE  Working'
  <1>1. job \in [Workers -> Jobs \cup {None}] /\ job[w] \in Jobs /\ job[w].op \in Ops
    BY DEF IInv, TypeOK, Jobs
  <1>2. /\ job'[w].at = "start" /\ job'[w].op = job[w].op
        /\ \A v \in Workers \ {w} : job'[v] = job[v]
    BY <1>1
  <1>3. UNCHANGED <<starts, calls>> /\ Onward /\ \A k \in cuts' : k.msg \in Recons => k.msg = "ceased"
    BY DEF Served, provider
  <1>4. \A v \in Workers : ~Starting(v, job[w].op)
    BY <1>1 DEF IInv, Working
  <1>5. starts[job[w].op] = 0
    <2>1. ~(starts[job[w].op] > 0) /\ starts[job[w].op] \in Nat
      BY <1>1 DEF IInv, Records, Fit, TypeOK
    <2> QED
      BY <2>1
  <1>6. ASSUME NEW o \in Ops, NEW v \in Workers, Starting(v, o)'
        PROVE  /\ (rec[o].consumed /\ starts[o] = 0)'
               /\ \A u \in Workers : Starting(u, o)' => u = v
    <2>1. CASE o = job[w].op
      BY <1>2, <1>3, <1>4, <1>5, <1>6, <2>1 DEF Starting
    <2>2. CASE o # job[w].op
      <3>1. \A u \in Workers : Starting(u, o)' => u # w /\ Starting(u, o)
        BY <1>2, <2>2 DEF Starting
      <3> QED
        BY <1>3, <1>6, <3>1 DEF IInv, Working, Onward
    <2> QED
      BY <2>1, <2>2
  <1>7. ASSUME NEW c \in Controls, NEW v \in Workers, Calling(v, c)'
        PROVE  /\ (c \in rec[job[v].op].delivered /\ calls[c] = 0)'
               /\ \A u \in Workers : Calling(u, c)' => u = v
    <2>1. \A u \in Workers : Calling(u, c)' => u # w /\ Calling(u, c) /\ job'[u] = job[u]
      BY <1>2 DEF Calling
    <2>2. job[v] \in Jobs /\ job[v].op \in Ops
      BY <1>1, <1>7, <2>1 DEF Calling, Jobs
    <2> QED
      BY <1>3, <1>7, <2>1, <2>2 DEF IInv, Working, Onward
  <1>8. ASSUME NEW c \in Controls, calls'[c] > 0
        PROVE  calls'[c] = 1 /\ \E o \in Ops : c \in rec'[o].delivered
    BY <1>3, <1>8 DEF IInv, Working, Onward
  <1> QED
    BY <1>3, <1>6, <1>7, <1>8 DEF Working

\* The delivery of a control: nobody has called for it, and one may.
LEMMA ControlWorking ==
    ASSUME IInv, Served, NEW w \in Workers, job[w] # None, job[w].at = "deliver",
           job' = [job EXCEPT ![w] = [job[w] EXCEPT !.at = "call"]],
           ControlClaimable(job[w].op, job[w].ctl), job[w].ctl \in rec'[job[w].op].delivered
    PROVE  Working'
  <1>1. job \in [Workers -> Jobs \cup {None}] /\ job[w] \in Jobs /\ job[w].op \in Ops
    BY DEF IInv, TypeOK, Jobs
  <1>2. /\ job'[w].at = "call" /\ job'[w].op = job[w].op /\ job'[w].ctl = job[w].ctl
        /\ \A v \in Workers \ {w} : job'[v] = job[v]
    BY <1>1
  <1>3. UNCHANGED <<starts, calls>> /\ Onward /\ \A k \in cuts' : k.msg \in Recons => k.msg = "ceased"
    BY DEF Served, provider
  <1>4. \A p \in Ops : job[w].ctl \notin rec[p].delivered
    <2> SUFFICES ASSUME NEW p \in Ops, job[w].ctl \in rec[p].delivered PROVE FALSE
      OBVIOUS
    <2>1. job[w].ctl \in rec[p].controls
      BY DEF IInv, TypeOK, LedgerFits
    <2>2. p = job[w].op
      BY <1>1, <2>1 DEF IInv, Records, ControlClaimable
    <2> QED
      BY <2>2 DEF ControlClaimable
  <1>5. ASSUME job[w].ctl \in Controls
        PROVE  calls[job[w].ctl] = 0 /\ \A v \in Workers : ~Calling(v, job[w].ctl)
    <2>1. ~(calls[job[w].ctl] > 0) /\ calls[job[w].ctl] \in Nat
      BY <1>4, <1>5 DEF IInv, TypeOK, Working
    <2>2. ASSUME NEW v \in Workers, Calling(v, job[w].ctl) PROVE FALSE
      <3>1. job[v].op \in Ops
        BY <1>1, <2>2 DEF Calling, Jobs
      <3> QED
        BY <1>4, <1>5, <2>2, <3>1 DEF IInv, Working
    <2> QED
      BY <2>1, <2>2
  <1>6. ASSUME NEW o \in Ops, NEW v \in Workers, Starting(v, o)'
        PROVE  /\ (rec[o].consumed /\ starts[o] = 0)'
               /\ \A u \in Workers : Starting(u, o)' => u = v
    <2>1. \A u \in Workers : Starting(u, o)' => u # w /\ Starting(u, o)
      BY <1>2 DEF Starting
    <2> QED
      BY <1>3, <1>6, <2>1 DEF IInv, Working, Onward
  <1>7. ASSUME NEW c \in Controls, NEW v \in Workers, Calling(v, c)'
        PROVE  /\ (c \in rec[job[v].op].delivered /\ calls[c] = 0)'
               /\ \A u \in Workers : Calling(u, c)' => u = v
    <2>1. CASE c = job[w].ctl
      BY <1>2, <1>3, <1>5, <1>7, <2>1 DEF Calling
    <2>2. CASE c # job[w].ctl
      <3>1. \A u \in Workers : Calling(u, c)' => u # w /\ Calling(u, c) /\ job'[u] = job[u]
        BY <1>2, <2>2 DEF Calling
      <3>2. job[v] \in Jobs /\ job[v].op \in Ops
        BY <1>1, <1>7, <3>1 DEF Calling, Jobs
      <3> QED
        BY <1>3, <1>7, <3>1, <3>2 DEF IInv, Working, Onward
    <2> QED
      BY <2>1, <2>2
  <1>8. ASSUME NEW c \in Controls, calls'[c] > 0
        PROVE  calls'[c] = 1 /\ \E o \in Ops : c \in rec'[o].delivered
    BY <1>3, <1>8 DEF IInv, Working, Onward
  <1> QED
    BY <1>3, <1>6, <1>7, <1>8 DEF Working

\* What is served leaves the rest in order, if the activities are.
LEMMA ServedKeeps ==
    ASSUME IInv, Served, Working', job' \in [Workers -> Jobs \cup {None}],
           late' \in Jobs \cup {None}
    PROVE  IInv' /\ Onward /\ Cut
  <1>2. \A o \in Ops : LedgerFits(rec[o])'
    BY DEF Served, PlaneTyped, LedgerFits
  <1>3. TypeOK'
    BY <1>2 DEF Served, PlaneTyped, IInv, TypeOK, provider
  <1> QED
    BY <1>3 DEF Served, IInv

--------------------------------------------------------------------------------
(* The inductive invariant                                                    *)

LEMMA InitIInv == Init => IInv
  <1> SUFFICES ASSUME Init PROVE IInv
    OBVIOUS
  <1> USE NamesAssumption, BoundsAssumption DEF Init
  <1>1. Unrecorded \in Ledgers /\ LedgerFits(Unrecorded)
    BY DEF Unrecorded, Ledgers, LedgerFits
  <1>2. TypeOK
    <2>1. 0 \in Nat /\ 1 \in Nat /\ MaxRuns \in 0 .. MaxRuns /\ MaxFaults \in 0 .. MaxFaults
      OBVIOUS
    <2>2. rec \in [Ops -> Ledgers] /\ \A o \in Ops : LedgerFits(rec[o])
      BY <1>1
    <2>3. job \in [Workers -> Jobs \cup {None}] /\ answer \in [Controls -> Recons \cup {None}]
      BY DEF Init
    <2>4. /\ starts \in [Ops -> Nat] /\ calls \in [Controls -> Nat]
          /\ world \in [Ops -> {"untouched", "open", "applied", "absent"}]
      BY <2>1
    <2> QED
      BY <2>1, <2>2, <2>3, <2>4 DEF TypeOK
  <1>3. Records
    BY <1>1 DEF Records, Fit, Holds, Unrecorded, NonTerminal
  <1>4. Working
    BY DEF Working, Starting, Calling
  <1> QED
    BY <1>2, <1>3, <1>4 DEF IInv

\* Every step of the plane, of an activity, of the provider and of the engine
\* keeps it, moves the ledger onward only, and is a cut for the target.
LEMMA StepKeepsIInv == IInv /\ [Next]_vars => IInv' /\ Onward /\ Cut
  <1> SUFFICES ASSUME IInv, [Next]_vars PROVE IInv' /\ Onward /\ Cut
    OBVIOUS
  <1> USE NamesAssumption, BoundsAssumption
  <1>0. TypeOK /\ Records /\ Working /\ rec \in [Ops -> Ledgers]
    BY DEF IInv, TypeOK
  <1>ClaimAccepted. ASSUME NEW o \in Ops, ClaimAccepted(o) PROVE IInv' /\ Onward /\ Cut
    <2>1. UNCHANGED <<resolved, starts, world, calls, job, cuts>>
      BY <1>ClaimAccepted DEF ClaimAccepted, outside, provider
    <2>2. PICK r : r = [Unrecorded EXCEPT !.st = "ACCEPTED", !.reserved = TRUE, !.gen = gen]
      OBVIOUS
    <2>3. /\ r \in Ledgers /\ r.st = "ACCEPTED" /\ r.reserved /\ ~r.consumed
          /\ r.controls = {} /\ r.delivered = {}
      BY <2>2 DEF Unrecorded, Ledgers, NonTerminal, IInv, TypeOK
    <2>4. rec' = [rec EXCEPT ![o] = r]
      BY <1>ClaimAccepted, <2>2 DEF ClaimAccepted
    <2>5. rec' \in [Ops -> Ledgers] /\ rec'[o] = r /\ \A p \in Ops \ {o} : rec'[p] = rec[p]
      BY <1>0, <2>3, <2>4
    <2>6. rec[o].st = "none" /\ Fit(o) /\ \A p \in Ops : ~Holds(p)
      BY <1>0, <1>ClaimAccepted DEF ClaimAccepted, Records
    <2>7. rec[o].controls = {} /\ rec[o].delivered = {} /\ ~rec[o].consumed
      BY <2>6 DEF Fit, LedgerFits
    <2>8. Fit(o)'
      BY <2>1, <2>3, <2>5, <2>6, <2>7 DEF Fit, LedgerFits
    <2>9. ASSUME NEW p \in Ops \ {o} PROVE Fit(p)' /\ ~Holds(p)'
      BY <1>0, <2>1, <2>5, <2>6, <2>9 DEF Records, Fit, Holds
    <2>10. \A p, q \in Ops : \A c \in rec'[p].controls : c \in rec'[q].controls => p = q
      BY <1>0, <2>3, <2>5 DEF Records
    <2>11. Records' /\ Cut
      BY <2>1, <2>6, <2>8, <2>9, <2>10 DEF Records, Cut
    <2>12. Onward
      BY <2>3, <2>5, <2>6, <2>7 DEF Onward, Terminal
    <2>13. Working'
      BY <1>0, <2>1, <2>12, JobsHeld, WorkingKept DEF Working
    <2>14. sess' \in [op : Ops, at : {"binding", "submit"}, seen : Ledgers]
      BY <1>ClaimAccepted, <2>3, <2>5 DEF ClaimAccepted
    <2>15. \A p \in Ops : LedgerFits(rec[p])'
      BY <2>8, <2>9 DEF Fit
    <2>16. TypeOK'
      BY <1>ClaimAccepted, <2>5, <2>14, <2>15
         DEF ClaimAccepted, IInv, TypeOK, outside, provider, bounds
    <2> QED
      BY <2>11, <2>12, <2>13, <2>16 DEF IInv
  <1>Deliver. ASSUME Deliver PROVE IInv' /\ Onward /\ Cut
    <2>1. UNCHANGED <<resolved, starts, world, calls, job, cuts>>
      BY <1>Deliver DEF Deliver, provider
    <2>2. PICK o \in Ops : o = sess.op
      BY <1>Deliver DEF Deliver, IInv, TypeOK
    <2>3. rec' = [rec EXCEPT ![o].delivery = TRUE]
      BY <1>Deliver, <2>2 DEF Deliver
    <2>4. rec'[o] = [rec[o] EXCEPT !.delivery = TRUE]
      BY <1>0, <2>3
    <2>5. /\ rec'[o] \in Ledgers /\ rec'[o].st = rec[o].st
          /\ rec'[o].consumed = rec[o].consumed /\ rec'[o].reserved = rec[o].reserved
          /\ rec'[o].controls = rec[o].controls /\ rec'[o].delivered = rec[o].delivered
      BY <1>0, <2>4 DEF Ledgers
    <2>6. rec' \in [Ops -> Ledgers] /\ \A p \in Ops \ {o} : rec'[p] = rec[p]
      BY <1>0, <2>3, <2>4, <2>5
    <2>7. Moves(o)
      BY <1>0, <2>5 DEF Records, Moves, Fit, Holds, LedgerFits
    <2>8. Records' /\ Onward /\ Cut /\ (\A p \in Ops : LedgerFits(rec'[p]))
      BY <1>0, <2>1, <2>5, <2>6, <2>7, OneMoves
    <2>9. Working'
      BY <1>0, <2>1, <2>8, JobsHeld, WorkingKept DEF Working
    <2>10. \A p \in Ops : LedgerFits(rec[p])'
      BY <2>8
    <2>11. TypeOK'
      <3>1. sess' \in [op : Ops, at : {"binding", "submit"}, seen : Ledgers]
        BY <1>Deliver DEF Deliver, IInv, TypeOK
      <3> QED
        BY <1>Deliver, <2>2, <2>6, <2>10, <3>1
           DEF Deliver, IInv, TypeOK, provider, bounds
    <2> QED
      BY <2>8, <2>9, <2>11 DEF IInv
  <1>SubmitLands. ASSUME NEW o \in Ops, SubmitLands(o) PROVE IInv' /\ Onward /\ Cut
    <2>1. UNCHANGED <<rec, resolved, starts, world, calls>>
      BY <1>SubmitLands DEF SubmitLands, durable, provider
    <2>2. Held
      <3> UNCHANGED job
        BY <1>SubmitLands DEF SubmitLands
      <3> QED
        BY JobsHeld
    <2>3. Records' /\ Onward /\ Cut
      BY <1>0, <2>1, NoneMoves
    <2>4. \A k \in cuts' : k.msg \in Recons => k.msg = "ceased"
      BY <1>0, <1>SubmitLands DEF SubmitLands, Working, process
    <2>5. Working'
      BY <1>0, <2>1, <2>2, <2>3, <2>4, WorkingKept
    <2>6. TypeOK'
      BY <1>SubmitLands, <1>0
         DEF SubmitLands, TypeOK, durable, process, provider, bounds
    <2> QED
      BY <2>3, <2>5, <2>6 DEF IInv
  <1>SubmitReturns. ASSUME SubmitReturns PROVE IInv' /\ Onward /\ Cut
    <2>1. UNCHANGED <<rec, resolved, starts, world, calls>>
      BY <1>SubmitReturns DEF SubmitReturns, durable, provider
    <2>2. Held
      <3> UNCHANGED job
        BY <1>SubmitReturns DEF SubmitReturns, outside
      <3> QED
        BY JobsHeld
    <2>3. Records' /\ Onward /\ Cut
      BY <1>0, <2>1, NoneMoves
    <2>4. \A k \in cuts' : k.msg \in Recons => k.msg = "ceased"
      BY <1>0, <1>SubmitReturns DEF SubmitReturns, Working
    <2>5. Working'
      BY <1>0, <2>1, <2>2, <2>3, <2>4, WorkingKept
    <2>6. TypeOK'
      BY <1>SubmitReturns, <1>0
         DEF SubmitReturns, TypeOK, durable, outside, provider, bounds
    <2> QED
      BY <2>3, <2>5, <2>6 DEF IInv
  <1>ResolveAbsence. ASSUME NEW o \in Ops, NEW c \in Controls, ResolveAbsence(o, c) PROVE IInv' /\ Onward /\ Cut
    <2>1. UNCHANGED <<rec, resolved, starts, world, calls>>
      BY <1>ResolveAbsence DEF ResolveAbsence, durable, provider
    <2>2. Held
      <3> UNCHANGED job
        BY <1>ResolveAbsence DEF ResolveAbsence, outside
      <3> QED
        BY JobsHeld
    <2>3. Records' /\ Onward /\ Cut
      BY <1>0, <2>1, NoneMoves
    <2>4. \A k \in cuts' : k.msg \in Recons => k.msg = "ceased"
      BY <1>0, <1>ResolveAbsence DEF ResolveAbsence, Working, Absence
    <2>5. Working'
      BY <1>0, <2>1, <2>2, <2>3, <2>4, WorkingKept
    <2>6. TypeOK'
      <3>1. answer[c] = "ceased"
        BY <1>ResolveAbsence DEF ResolveAbsence, Absence
      <3> QED
        BY <1>ResolveAbsence, <1>0, <3>1
           DEF ResolveAbsence, TypeOK, Recons, durable, outside, provider,
               bounds
    <2> QED
      BY <2>3, <2>5, <2>6 DEF IInv
  <1>Poison. ASSUME Poison PROVE IInv' /\ Onward /\ Cut
    <2>1. UNCHANGED <<rec, resolved, starts, world, calls>>
      BY <1>Poison DEF Poison, durable, provider
    <2>2. Held
      <3> UNCHANGED job
        BY <1>Poison DEF Poison, outside
      <3> QED
        BY JobsHeld
    <2>3. Records' /\ Onward /\ Cut
      BY <1>0, <2>1, NoneMoves
    <2>4. \A k \in cuts' : k.msg \in Recons => k.msg = "ceased"
      BY <1>0, <1>Poison DEF Poison, Working
    <2>5. Working'
      BY <1>0, <2>1, <2>2, <2>3, <2>4, WorkingKept
    <2>6. TypeOK'
      BY <1>Poison, <1>0 DEF Poison, TypeOK, durable, outside, provider
    <2> QED
      BY <2>3, <2>5, <2>6 DEF IInv
  <1>Crash. ASSUME Crash PROVE IInv' /\ Onward /\ Cut
    <2>1. UNCHANGED <<rec, resolved, starts, world, calls>>
      BY <1>Crash DEF Crash, durable, provider
    <2>2. Held
      <3> UNCHANGED job
        BY <1>Crash DEF Crash
      <3> QED
        BY JobsHeld
    <2>3. Records' /\ Onward /\ Cut
      BY <1>0, <2>1, NoneMoves
    <2>4. \A k \in cuts' : k.msg \in Recons => k.msg = "ceased"
      BY <1>0, <1>Crash DEF Crash, ProcessGone
    <2>5. Working'
      BY <1>0, <2>1, <2>2, <2>3, <2>4, WorkingKept
    <2>6. TypeOK'
      <3>1. /\ up' = FALSE /\ poisoned' = FALSE /\ armed' = {} /\ budget' = {} /\ sess' = None
            /\ cuts' = {} /\ out' = {} /\ UNCHANGED <<durable, gen, engine, job, late, provider, runs>>
        BY <1>Crash DEF Crash, ProcessGone
      <3>2. faults' \in 0 .. MaxFaults
        BY <1>Crash, <1>0 DEF Crash, TypeOK
      <3> HIDE NamesAssumption, BoundsAssumption
      <3> QED
        BY <1>0, <3>1, <3>2 DEF TypeOK, durable, provider
    <2> QED
      BY <2>3, <2>5, <2>6 DEF IInv
  <1>ClassifyFailure. ASSUME ClassifyFailure PROVE IInv' /\ Onward /\ Cut
    <2>1. UNCHANGED <<resolved, starts, world, calls>>
      BY <1>ClassifyFailure DEF ClassifyFailure, provider
    <2>2. Held
      <3> UNCHANGED job
        BY <1>ClassifyFailure DEF ClassifyFailure, outside
      <3> QED
        BY JobsHeld
    <2>3. /\ Records' /\ Onward /\ Cut
          /\ rec' \in [Ops -> Ledgers] /\ \A p \in Ops : LedgerFits(rec'[p])
          /\ armed' \subseteq Ops
      <3>1. CASE poisoned
        <4>1. UNCHANGED <<rec, armed>>
          BY <1>ClassifyFailure, <3>1 DEF ClassifyFailure
        <4> QED
          BY <1>0, <2>1, <4>1, NoneMoves DEF TypeOK
      <3>2. CASE ~poisoned
        <4>1. PICK o \in Ops : o = sess.op
          BY <1>ClassifyFailure DEF ClassifyFailure, IInv, TypeOK
        <4>2. Settle(o, Unknown(o), FALSE)
          BY <1>ClassifyFailure, <3>2, <4>1 DEF ClassifyFailure
        <4>3. PICK s \in Terminal : s = Unknown(o)
          BY UnknownFits
        <4> QED
          BY <1>0, <2>1, <4>2, <4>3, UnknownFits, Settled DEF TypeOK
      <3> QED
        BY <3>1, <3>2
    <2>4. \A k \in cuts' : k.msg \in Recons => k.msg = "ceased"
      BY <1>0, <1>ClassifyFailure DEF ClassifyFailure, Working
    <2>5. Working'
      BY <1>0, <2>1, <2>2, <2>3, <2>4, WorkingKept
    <2>6. \A p \in Ops : LedgerFits(rec[p])'
      BY <2>3
    <2>7. TypeOK'
      BY <1>ClassifyFailure, <1>0, <2>3, <2>6
         DEF ClassifyFailure, TypeOK, outside, provider, bounds
    <2> QED
      BY <2>3, <2>5, <2>7 DEF IInv
  <1>Expire. ASSUME NEW o \in Ops, Expire(o) PROVE IInv' /\ Onward /\ Cut
    <2>1. UNCHANGED <<resolved, starts, world, calls>>
      BY <1>Expire DEF Expire, provider
    <2>2. Held
      <3> UNCHANGED job
        BY <1>Expire DEF Expire, outside
      <3> QED
        BY JobsHeld
    <2>3. /\ Records' /\ Onward /\ Cut
          /\ rec' \in [Ops -> Ledgers] /\ \A p \in Ops : LedgerFits(rec'[p])
          /\ armed' \subseteq Ops
      <3>1. Settle(o, Unknown(o), FALSE)
        BY <1>Expire DEF Expire
      <3>2. PICK s \in Terminal : s = Unknown(o)
        BY UnknownFits
      <3> QED
        BY <1>0, <2>1, <3>1, <3>2, UnknownFits, Settled DEF TypeOK
    <2>4. \A k \in cuts' : k.msg \in Recons => k.msg = "ceased"
      BY <1>0, <1>Expire DEF Expire, Working
    <2>5. Working'
      BY <1>0, <2>1, <2>2, <2>3, <2>4, WorkingKept
    <2>6. \A p \in Ops : LedgerFits(rec[p])'
      BY <2>3
    <2>7. TypeOK'
      BY <1>Expire, <1>0, <2>3, <2>6
         DEF Expire, TypeOK, outside, provider, bounds
    <2> QED
      BY <2>3, <2>5, <2>7 DEF IInv
  <1>FinishOutcome. ASSUME NEW k \in cuts, FinishOutcome(k) PROVE IInv' /\ Onward /\ Cut
    <2>1. UNCHANGED <<resolved, starts, world, calls>>
      BY <1>FinishOutcome DEF FinishOutcome, provider
    <2>2. Held
      <3>1. \A w \in Workers : job'[w] \in {None, job[w]}
        BY <1>FinishOutcome DEF FinishOutcome, Answered
      <3> QED
        BY <3>1 DEF Held, Starting, Calling
    <2>3. /\ Records' /\ Onward /\ Cut
          /\ rec' \in [Ops -> Ledgers] /\ \A p \in Ops : LedgerFits(rec'[p])
          /\ armed' \subseteq Ops
      <3>1. PICK o \in Ops : o = k.op
        BY <1>0 DEF TypeOK
      <3>2. \/ Settle(o, "SUCCEEDED", TRUE) /\ world[o] = "applied"
            \/ world[o] \in Final
               /\ \E proposed \in {"FAILED", "CANCELLED"} : Settle(o, proposed, TRUE)
            \/ Settle(o, "INDETERMINATE", FALSE)
        BY <1>FinishOutcome, <3>1 DEF FinishOutcome, Established, Final
      <3>3. {"SUCCEEDED", "FAILED", "CANCELLED", "INDETERMINATE"} \subseteq Terminal
        BY DEF Terminal
      <3>4. armed \subseteq Ops
        BY <1>0 DEF TypeOK
      <3>5. CASE Settle(o, "SUCCEEDED", TRUE) /\ world[o] = "applied"
        BY <1>0, <2>1, <3>3, <3>4, <3>5, Settled DEF Final
      <3>6. CASE world[o] \in Final
                 /\ \E proposed \in {"FAILED", "CANCELLED"} : Settle(o, proposed, TRUE)
        <4>1. PICK proposed \in {"FAILED", "CANCELLED"} : Settle(o, proposed, TRUE)
          BY <3>6
        <4> QED
          BY <1>0, <2>1, <3>3, <3>4, <3>6, <4>1, Settled
      <3>7. CASE Settle(o, "INDETERMINATE", FALSE)
        BY <1>0, <2>1, <3>3, <3>4, <3>7, Settled
      <3> QED
        BY <3>2, <3>5, <3>6, <3>7
    <2>4. \A l \in cuts' : l.msg \in Recons => l.msg = "ceased"
      BY <1>0, <1>FinishOutcome DEF FinishOutcome, Working
    <2>5. Working'
      BY <1>0, <2>1, <2>2, <2>3, <2>4, WorkingKept
    <2>6. \A p \in Ops : LedgerFits(rec[p])'
      BY <2>3
    <2>7. TypeOK'
      <3>1. job' \in [Workers -> Jobs \cup {None}]
        BY <1>FinishOutcome, <1>0 DEF FinishOutcome, Answered, TypeOK
      <3> QED
        BY <1>FinishOutcome, <1>0, <2>3, <2>6, <3>1
           DEF FinishOutcome, TypeOK, provider, bounds
    <2> QED
      BY <2>3, <2>5, <2>7 DEF IInv
  <1>Shutdown. ASSUME Shutdown PROVE IInv' /\ Onward /\ Cut
    <2>1. UNCHANGED <<resolved, starts, world, calls>>
      BY <1>Shutdown DEF Shutdown, provider
    <2>2. Held
      <3> UNCHANGED job
        BY <1>Shutdown DEF Shutdown
      <3> QED
        BY JobsHeld
    <2>3. /\ Records' /\ Onward /\ Cut
          /\ rec' \in [Ops -> Ledgers] /\ \A p \in Ops : LedgerFits(rec'[p])
      <3>1. rec' = [o \in Ops |-> Classify(rec[o])]
        BY <1>Shutdown DEF Shutdown
      <3> QED
        BY <1>0, <2>1, <3>1, Classified
    <2>4. \A k \in cuts' : k.msg \in Recons => k.msg = "ceased"
      BY <1>0, <1>Shutdown DEF Shutdown, ProcessGone
    <2>5. Working'
      BY <1>0, <2>1, <2>2, <2>3, <2>4, WorkingKept
    <2>6. \A p \in Ops : LedgerFits(rec[p])'
      BY <2>3
    <2>7. TypeOK'
      <3>1. /\ up' = FALSE /\ poisoned' = FALSE /\ armed' = {} /\ budget' = {} /\ sess' = None
            /\ cuts' = {} /\ out' = {}
            /\ UNCHANGED <<answer, resolved, gen, engine, job, late, provider, runs>>
        BY <1>Shutdown DEF Shutdown, ProcessGone
      <3>2. faults' \in 0 .. MaxFaults
        BY <1>Shutdown, <1>0 DEF Shutdown, TypeOK
      <3> HIDE NamesAssumption, BoundsAssumption
      <3> QED
        BY <1>0, <2>3, <2>6, <3>1, <3>2 DEF TypeOK, provider
    <2> QED
      BY <2>3, <2>5, <2>7 DEF IInv
  <1>Restart. ASSUME Restart PROVE IInv' /\ Onward /\ Cut
    <2>1. UNCHANGED <<resolved, starts, world, calls>>
      BY <1>Restart DEF Restart, provider
    <2>2. Held
      <3> UNCHANGED job
        BY <1>Restart DEF Restart, outside
      <3> QED
        BY JobsHeld
    <2>3. /\ Records' /\ Onward /\ Cut
          /\ rec' \in [Ops -> Ledgers] /\ \A p \in Ops : LedgerFits(rec'[p])
      <3>1. rec' = [o \in Ops |-> Classify(rec[o])]
        BY <1>Restart DEF Restart
      <3> QED
        BY <1>0, <2>1, <3>1, Classified
    <2>4. \A k \in cuts' : k.msg \in Recons => k.msg = "ceased"
      BY <1>0, <1>Restart DEF Restart, Working
    <2>5. Working'
      BY <1>0, <2>1, <2>2, <2>3, <2>4, WorkingKept
    <2>6. \A p \in Ops : LedgerFits(rec[p])'
      BY <2>3
    <2>7. TypeOK'
      BY <1>Restart, <1>0, <2>3, <2>6
         DEF Restart, TypeOK, outside, provider, bounds
    <2> QED
      BY <2>3, <2>5, <2>7 DEF IInv
  <1>FinishResolve. ASSUME NEW k \in cuts, FinishResolve(k) PROVE IInv' /\ Onward /\ Cut
    <2>1. UNCHANGED <<rec, starts, world, calls, job>>
      BY <1>FinishResolve DEF FinishResolve, outside, provider
    <2>2. k.op \in Ops /\ k.msg = "ceased"
      BY <1>0, <1>FinishResolve DEF FinishResolve, TypeOK, Working
    <2>3. \/ /\ resolved' = resolved \cup {k.op} /\ world[k.op] = "absent"
             /\ rec[k.op].st = "INDETERMINATE"
          \/ resolved' = resolved
      BY <1>FinishResolve, <2>2 DEF FinishResolve, Established
    <2>4. \A o \in Ops : Holds(o)' => Holds(o)
      BY <2>1, <2>3 DEF Holds
    <2>5. ASSUME NEW o \in Ops PROVE Fit(o)'
      <3>1. Fit(o) /\ rec[o] \in Ledgers
        BY <1>0 DEF Records
      <3>2. (o \in resolved => rec[o].st = "INDETERMINATE")'
        BY <2>1, <2>3, <3>1 DEF Fit
      <3>3. (rec[o].consumed /\ world[o] \notin Final => Holds(o))'
        BY <2>1, <2>3, <3>1 DEF Fit, Final, Holds
      <3> QED
        BY <2>1, <3>1, <3>2, <3>3 DEF Fit
    <2>6. Records' /\ Onward /\ Cut
      BY <1>0, <2>1, <2>4, <2>5 DEF Records, Onward, Cut
    <2>7. \A l \in cuts' : l.msg \in Recons => l.msg = "ceased"
      BY <1>0, <1>FinishResolve DEF FinishResolve, Working
    <2>8. Working'
      BY <1>0, <2>1, <2>6, <2>7, JobsHeld, WorkingKept
    <2>9. TypeOK'
      BY <1>FinishResolve, <1>0, <2>2, <2>3
         DEF FinishResolve, TypeOK, outside, provider, bounds
    <2> QED
      BY <2>6, <2>8, <2>9 DEF IInv
  <1>Supervise. ASSUME NEW o \in Ops, NEW c \in Controls, Supervise(o, c) PROVE IInv' /\ Onward /\ Cut
    <2>1. UNCHANGED <<resolved, starts, world, calls, job, cuts>>
      BY <1>Supervise DEF Supervise, provider
    <2>2. rec[o] \in Ledgers /\ Fit(o) /\ rec[o].st # "none" /\ \A p \in Ops : c \notin rec[p].controls
      BY <1>0, <1>Supervise DEF Supervise, Records
    <2>3. PICK d \in SUBSET Controls : d = rec[o].controls \cup {c}
      BY <2>2 DEF Ledgers
    <2>4. \/ rec' = [rec EXCEPT ![o].controls = d] /\ UNCHANGED armed
          \/ /\ rec' = [[rec EXCEPT ![o].controls = d] EXCEPT ![o].st = "CANCELLED", ![o].reserved = FALSE]
             /\ rec[o].st = "ACCEPTED" /\ armed' = armed \ {o}
      BY <1>0, <1>Supervise, <2>3 DEF Supervise
    <2>5. /\ rec' \in [Ops -> Ledgers] /\ \A p \in Ops \ {o} : rec'[p] = rec[p]
          /\ rec'[o] \in Ledgers /\ rec'[o].controls = d
          /\ rec'[o].consumed = rec[o].consumed /\ rec'[o].delivered = rec[o].delivered
          /\ \/ rec'[o].st = rec[o].st /\ rec'[o].reserved = rec[o].reserved
             \/ rec[o].st = "ACCEPTED" /\ rec'[o].st = "CANCELLED" /\ ~rec'[o].reserved
      <3>1. CASE rec' = [rec EXCEPT ![o].controls = d]
        <4>1. rec'[o] = [rec[o] EXCEPT !.controls = d]
          BY <1>0, <3>1
        <4>2. rec'[o] \in Ledgers
          BY <2>2, <4>1 DEF Ledgers
        <4> QED
          BY <1>0, <2>2, <3>1, <4>1, <4>2
      <3>2. CASE /\ rec' = [[rec EXCEPT ![o].controls = d] EXCEPT ![o].st = "CANCELLED", ![o].reserved = FALSE]
                 /\ rec[o].st = "ACCEPTED"
        <4>1. rec'[o] = [rec[o] EXCEPT !.controls = d, !.st = "CANCELLED", !.reserved = FALSE]
          BY <1>0, <2>2, <3>2
        <4>2. rec'[o] \in Ledgers
          BY <2>2, <4>1 DEF Ledgers, Terminal
        <4>3. \A p \in Ops \ {o} : rec'[p] = rec[p]
          BY <1>0, <3>2
        <4>4. rec' \in [Ops -> Ledgers]
          BY <1>0, <3>2, <4>2, <4>3
        <4> QED
          BY <2>2, <3>2, <4>1, <4>2, <4>3, <4>4
      <3> QED
        BY <2>4, <3>1, <3>2
    <2>6. Moves(o)
      <3>1. rec'[o].delivered \subseteq d
        BY <2>2, <2>3, <2>5 DEF Fit, LedgerFits
      <3> QED
        BY <2>2, <2>5, <3>1
           DEF Moves, Fit, Holds, LedgerFits, NonTerminal, Terminal
    <2>7. \A p \in Ops : Moves(p)
      BY <1>0, <2>5, <2>6, StillMoves DEF Records
    <2>8. \A p, q \in Ops : \A e \in rec'[p].controls : e \in rec'[q].controls => p = q
      BY <1>0, <2>2, <2>3, <2>5 DEF Records
    <2>9. Records' /\ Onward /\ Cut
      BY <1>0, <2>1, <2>7, <2>8, RecordsMove
    <2>10. Working'
      BY <1>0, <2>1, <2>9, JobsHeld, WorkingKept DEF Working
    <2>11. \A p \in Ops : LedgerFits(rec[p])'
      BY <2>7 DEF Moves
    <2>12. TypeOK'
      <3>1. armed' \subseteq Ops /\ engine' \subseteq Ops \cup Controls /\ budget' \subseteq Controls
        BY <1>0, <1>Supervise, <2>4 DEF Supervise, TypeOK
      <3> QED
        BY <1>0, <1>Supervise, <2>5, <2>11, <3>1
           DEF Supervise, TypeOK, provider, bounds
    <2> QED
      BY <2>9, <2>10, <2>12 DEF IInv
  <1>RunActivity. ASSUME NEW w \in Workers, RunActivity(w) PROVE IInv' /\ Onward /\ Cut
    <2>1. UNCHANGED <<rec, resolved, starts, world, calls>>
      BY <1>RunActivity DEF RunActivity, durable, provider
    <2>2. Held
      <3>1. PICK j : job' = [job EXCEPT ![w] = j] /\ j.at \in {"claim", "call", "indeterminate", "deliver"} /\ (j.at = "call" => j.ctl = None)
        <4>1. ASSUME NEW kind, NEW o, NEW c, NEW at,
                     job' = [job EXCEPT ![w] = Job(kind, o, c, at)],
                     at \in {"claim", "call", "indeterminate", "deliver"}, at = "call" => c = None
              PROVE  \E j : job' = [job EXCEPT ![w] = j] /\ j.at \in {"claim", "call", "indeterminate", "deliver"} /\ (j.at = "call" => j.ctl = None)
          <5>1. Job(kind, o, c, at).at = at /\ Job(kind, o, c, at).ctl = c
            BY DEF Job
          <5> QED
            BY <4>1, <5>1
        <4>2. CASE \E o \in engine \cap Ops :
                     \/ job' = [job EXCEPT ![w] = Job("invoke", o, None, "claim")]
                     \/ job' = [job EXCEPT ![w] = Job("observe", o, None, "call")]
                     \/ job' = [job EXCEPT ![w] = Job("indeterminate", o, None, "indeterminate")]
          BY <4>1, <4>2
        <4>3. CASE \E c \in engine \cap Controls, o \in Ops :
                     job' = [job EXCEPT ![w] = Job("control", o, c, "deliver")]
          <5>1. PICK c, o : job' = [job EXCEPT ![w] = Job("control", o, c, "deliver")]
            BY <4>3
          <5>2. Job("control", o, c, "deliver").at = "deliver"
            BY DEF Job
          <5> QED
            BY <5>1, <5>2
        <4> QED
          BY <1>RunActivity, <4>2, <4>3 DEF RunActivity
      <3> QED
        BY <1>0, <3>1, JobHeld
    <2>3. Records' /\ Onward /\ Cut
      BY <1>0, <2>1, NoneMoves
    <2>4. \A k \in cuts' : k.msg \in Recons => k.msg = "ceased"
      BY <1>0, <1>RunActivity DEF RunActivity, Working, process
    <2>5. Working'
      BY <1>0, <2>1, <2>2, <2>3, <2>4, WorkingKept
    <2>6. TypeOK'
      <3>1. job' \in [Workers -> Jobs \cup {None}] /\ runs' \in 0 .. MaxRuns
        <4>1. \A o \in Ops : \A c \in Controls :
                 {Job("invoke", o, None, "claim"), Job("observe", o, None, "call"),
                  Job("indeterminate", o, None, "indeterminate"), Job("control", o, c, "deliver")} \subseteq Jobs
          BY DEF Job, Jobs
        <4>2. \A o \in Ops :
                 {Job("invoke", o, None, "claim"), Job("observe", o, None, "call"),
                  Job("indeterminate", o, None, "indeterminate")} \subseteq Jobs
          BY DEF Job, Jobs
        <4> QED
          BY <1>RunActivity, <1>0, <4>1, <4>2 DEF RunActivity, TypeOK
      <3> QED
        BY <1>RunActivity, <1>0, <3>1
           DEF RunActivity, TypeOK, durable, process, provider
    <2> QED
      BY <2>3, <2>5, <2>6 DEF IInv
  <1>Refuse. ASSUME NEW w \in Workers, Refuse(w) PROVE IInv' /\ Onward /\ Cut
    <2>1. UNCHANGED <<rec, resolved, starts, world, calls>>
      BY <1>Refuse DEF Refuse, durable, provider
    <2>2. Held
      <3>1. job[w] \in Jobs /\ job' = [job EXCEPT ![w] = AfterFailure(job[w])]
        BY <1>Refuse, <1>0 DEF Refuse, TypeOK
      <3>2. AfterFailure(job[w]) # None => AfterFailure(job[w]).at = "indeterminate"
        BY <3>1, Stops
      <3> QED
        BY <1>0, <3>1, <3>2, JobHeld
    <2>3. Records' /\ Onward /\ Cut
      BY <1>0, <2>1, NoneMoves
    <2>4. \A k \in cuts' : k.msg \in Recons => k.msg = "ceased"
      BY <1>0, <1>Refuse DEF Refuse, Working, process
    <2>5. Working'
      BY <1>0, <2>1, <2>2, <2>3, <2>4, WorkingKept
    <2>6. TypeOK'
      <3>1. job' \in [Workers -> Jobs \cup {None}]
        BY <1>Refuse, <1>0, Stops DEF Refuse, TypeOK
      <3> QED
        BY <1>Refuse, <1>0, <3>1
           DEF Refuse, TypeOK, durable, process, provider, bounds
    <2> QED
      BY <2>3, <2>5, <2>6 DEF IInv
  <1>GiveUp. ASSUME NEW w \in Workers, GiveUp(w) PROVE IInv' /\ Onward /\ Cut
    <2>1. UNCHANGED <<rec, resolved, starts, world, calls>>
      BY <1>GiveUp DEF GiveUp, durable, provider
    <2>2. Held
      <3>1. job[w] \in Jobs /\ job' = [job EXCEPT ![w] = AfterFailure(job[w])]
        BY <1>GiveUp, <1>0 DEF GiveUp, TypeOK
      <3>2. AfterFailure(job[w]) # None => AfterFailure(job[w]).at = "indeterminate"
        BY <3>1, Stops
      <3> QED
        BY <1>0, <3>1, <3>2, JobHeld
    <2>3. Records' /\ Onward /\ Cut
      BY <1>0, <2>1, NoneMoves
    <2>4. \A k \in cuts' : k.msg \in Recons => k.msg = "ceased"
      BY <1>0, <1>GiveUp DEF GiveUp, Working, process
    <2>5. Working'
      BY <1>0, <2>1, <2>2, <2>3, <2>4, WorkingKept
    <2>6. TypeOK'
      <3>1. job' \in [Workers -> Jobs \cup {None}] /\ late' \in Jobs \cup {None} /\ faults' \in 0 .. MaxFaults
        BY <1>GiveUp, <1>0, Stops DEF GiveUp, TypeOK
      <3> QED
        BY <1>GiveUp, <1>0, <3>1 DEF GiveUp, TypeOK, durable, process, provider
    <2> QED
      BY <2>3, <2>5, <2>6 DEF IInv
  <1>Serve. ASSUME NEW w \in Workers, Serve(w) PROVE IInv' /\ Onward /\ Cut
    <2>1. PICK j \in Jobs : j = job[w] /\ j # None
      BY <1>Serve, <1>0 DEF Serve, TypeOK
    <2>2. PICK done : done = [job EXCEPT ![w] = NextStop(j)]
      OBVIOUS
    <2>3. PICK failed : failed = [job EXCEPT ![w] = AfterFailure(j)]
      OBVIOUS
    <2>4. /\ \/ ServeClaim(j, done, failed) \/ ServeControl(j, done, failed)
             \/ ServePublish(j, done, failed) \/ ServeIndeterminate(j, done)
          /\ late' = late
      BY <1>Serve, <2>1, <2>2, <2>3 DEF Serve
    <2>5. /\ Served /\ job' \in {done, failed}
          /\ \/ job' = failed \/ j.at \in {"publish", "indeterminate"}
             \/ j.at = "claim" /\ ~rec[j.op].consumed /\ rec'[j.op].consumed
             \/ j.at = "deliver" /\ ControlClaimable(j.op, j.ctl) /\ j.ctl \in rec'[j.op].delivered
      <3>1. CASE ServeClaim(j, done, failed)
        BY <2>1, <3>1, ClaimServed DEF ServeClaim
      <3>2. CASE ServeControl(j, done, failed)
        BY <2>1, <3>2, ControlServed DEF ServeControl
      <3>3. CASE ServePublish(j, done, failed)
        BY <2>1, <3>3, PublishServed DEF ServePublish
      <3>4. CASE ServeIndeterminate(j, done)
        BY <2>1, <3>4, IndeterminateServed DEF ServeIndeterminate
      <3> QED
        BY <2>4, <3>1, <3>2, <3>3, <3>4
    <2>6. ASSUME Held PROVE Working'
      BY <1>0, <2>5, <2>6, WorkingKept DEF Served, provider
    <2>11. Working'
      <3>7. CASE job' = failed
        <4>1. Held
          BY <1>0, <2>1, <2>3, <3>7, Stops, JobHeld
        <4> QED
          BY <2>6, <4>1
      <3>8. CASE job' = done /\ j.at \in {"publish", "indeterminate"}
        <4>1. NextStop(j) # None => NextStop(j).at = "wait"
          BY <2>1, <3>8, Stops
        <4>2. Held
          BY <1>0, <2>2, <3>8, <4>1, JobHeld
        <4> QED
          BY <2>6, <4>2
      <3>9. CASE job' = done /\ j.at = "claim" /\ ~rec[j.op].consumed /\ rec'[j.op].consumed
        <4>1. NextStop(j) = [j EXCEPT !.at = "start"]
          BY <2>1, <3>9, Stops
        <4> QED
          BY <2>1, <2>2, <2>5, <3>9, <4>1, GrantWorking
      <3>10. CASE job' = done /\ j.at = "deliver" /\ ControlClaimable(j.op, j.ctl) /\ j.ctl \in rec'[j.op].delivered
        <4>1. NextStop(j) = [j EXCEPT !.at = "call"]
          BY <2>1, <3>10, Stops
        <4> QED
          BY <2>1, <2>2, <2>5, <3>10, <4>1, ControlWorking
      <3> QED
        BY <2>5, <3>7, <3>8, <3>9, <3>10
    <2>12. job' \in [Workers -> Jobs \cup {None}]
      <3>1. NextStop(j) \in Jobs \cup {None} /\ AfterFailure(j) \in Jobs \cup {None}
        BY Stops
      <3> QED
        BY <1>0, <2>2, <2>3, <2>5, <3>1 DEF TypeOK
    <2> QED
      BY <1>0, <2>4, <2>5, <2>11, <2>12, ServedKeeps DEF TypeOK
  <1>ServeLate. ASSUME ServeLate PROVE IInv' /\ Onward /\ Cut
    <2>1. PICK j \in Jobs : j = late
      BY <1>ServeLate, <1>0 DEF ServeLate, TypeOK
    <2>2. PICK d : d = job
      OBVIOUS
    <2>3. /\ \/ ServeClaim(j, d, d) \/ ServeControl(j, d, d)
             \/ ServePublish(j, d, d) \/ ServeIndeterminate(j, d)
          /\ late' = None
      BY <1>ServeLate, <2>1, <2>2 DEF ServeLate
    <2>4. Served /\ job' = job
      BY <2>2, <2>3, ClaimServed, ControlServed, PublishServed,
         IndeterminateServed
    <2>5. Working'
      BY <1>0, <2>4, JobsHeld, WorkingKept DEF Served, provider
    <2> QED
      BY <1>0, <2>3, <2>4, <2>5, ServedKeeps DEF TypeOK
  <1>Start. ASSUME NEW w \in Workers, Start(w) PROVE IInv' /\ Onward /\ Cut
    <2>1. UNCHANGED <<rec, resolved, cuts, calls>>
      BY <1>Start DEF Start, durable, process
    <2>2. job[w] \in Jobs /\ job[w].at = "start" /\ job[w] # None
      BY <1>Start, <1>0 DEF Start, TypeOK
    <2>3. PICK o \in Ops : o = job[w].op
      BY <2>2 DEF Jobs
    <2>4. Starting(w, o) /\ rec[o].consumed /\ starts[o] = 0 /\ \A v \in Workers : Starting(v, o) => v = w
      BY <1>0, <2>2, <2>3 DEF Starting, Working
    <2>5. starts' = [starts EXCEPT ![o] = 1] /\ starts \in [Ops -> Nat]
      BY <1>Start, <1>0, <2>3, <2>4 DEF Start, TypeOK
    <2>6. starts'[o] = 1 /\ \A p \in Ops \ {o} : starts'[p] = starts[p]
      BY <2>5
    <2>7. /\ \A p \in Ops \ {o} : world'[p] = world[p]
          /\ \/ world'[o] = world[o]
             \/ world[o] = "untouched" /\ world'[o] = "open"
             \/ world[o] \in {"untouched", "open"} /\ world'[o] = "absent"
          /\ world' \in [Ops -> {"untouched", "open", "applied", "absent"}]
      BY <1>Start, <1>0, <2>3 DEF Start, Ceasing, TypeOK
    <2>8. PICK j : job' = [job EXCEPT ![w] = j] /\ j \in Jobs /\ j.at = "publish"
      <3>1. \A m \in {"accepted", "refused"} : [job[w] EXCEPT !.at = "publish", !.msg = m] \in Jobs /\ [job[w] EXCEPT !.at = "publish", !.msg = m].at = "publish"
        BY <2>2 DEF Jobs, Responses, Acks
      <3> QED
        BY <1>Start, <1>0, <3>1 DEF Start, Answer
    <2>9. Held
      BY <1>0, <2>8, JobHeld
    <2>10. \A v \in Workers : ~Starting(v, o)'
      <3>1. ~Starting(w, o)'
        BY <1>0, <2>8 DEF Starting, TypeOK
      <3> QED
        BY <2>4, <2>9, <3>1 DEF Held
    <2>11. \A p \in Ops : Holds(p)' <=> Holds(p)
      BY <2>1 DEF Holds
    <2>12. ASSUME NEW p \in Ops PROVE Fit(p)'
      <3>1. Fit(p)
        BY <1>0 DEF Records
      <3>2. CASE p # o
        BY <2>1, <2>6, <2>7, <3>1, <3>2 DEF Fit, Holds
      <3>3. CASE p = o
        BY <2>1, <2>4, <2>6, <2>7, <3>1, <3>3 DEF Fit, Holds, Final
      <3> QED
        BY <3>2, <3>3
    <2>13. Records' /\ Onward
      BY <1>0, <2>1, <2>11, <2>12 DEF Records, Onward
    <2>14. Cut
      <3>1. world'[o] = "open" => Holds(o) \/ world[o] = "open"
        BY <1>0, <2>4, <2>7 DEF Records, Fit, Final
      <3> QED
        BY <2>7, <2>11, <3>1 DEF Cut
    <2>15. Working'
      <3>1. ASSUME NEW p \in Ops, NEW v \in Workers, Starting(v, p)'
            PROVE  /\ (rec[p].consumed /\ starts[p] = 0)'
                   /\ \A u \in Workers : Starting(u, p)' => u = v
        <4>1. p # o
          BY <2>10, <3>1
        <4> QED
          BY <1>0, <2>1, <2>6, <2>9, <3>1, <4>1 DEF Held, Working
      <3>2. ASSUME NEW c \in Controls, NEW v \in Workers, Calling(v, c)'
            PROVE  /\ (c \in rec[job[v].op].delivered /\ calls[c] = 0)'
                   /\ \A u \in Workers : Calling(u, c)' => u = v
        BY <1>0, <2>1, <2>9, <3>2 DEF Held, Working
      <3>3. \A c \in Controls : (calls[c] > 0 => calls[c] = 1 /\ \E p \in Ops : c \in rec[p].delivered)'
        BY <1>0, <2>1 DEF Working
      <3> QED
        BY <1>0, <2>1, <3>1, <3>2, <3>3 DEF Working
    <2>16. TypeOK'
      <3>1. job' \in [Workers -> Jobs \cup {None}] /\ starts' \in [Ops -> Nat]
        BY <1>0, <2>5, <2>8 DEF TypeOK
      <3> QED
        BY <1>Start, <1>0, <2>7, <3>1
           DEF Start, TypeOK, durable, process, bounds
    <2> QED
      BY <2>13, <2>14, <2>15, <2>16 DEF IInv
  <1>Call. ASSUME NEW w \in Workers, Call(w) PROVE IInv' /\ Onward /\ Cut
    <2>1. UNCHANGED <<rec, resolved, cuts, starts>>
      BY <1>Call DEF Call, durable, process
    <2>2. job[w] \in Jobs /\ job[w].at = "call" /\ job[w] # None
      BY <1>Call, <1>0 DEF Call, TypeOK
    <2>3. PICK o \in Ops : o = job[w].op
      BY <2>2 DEF Jobs
    <2>4. PICK c \in Controls \cup {None} : c = job[w].ctl
      BY <2>2 DEF Jobs
    <2>5. calls \in [Controls -> Nat] /\ calls' = IF c = None THEN calls ELSE [calls EXCEPT ![c] = @ + 1]
      BY <1>Call, <1>0, <2>4 DEF Call, TypeOK
    <2>6. /\ \A p \in Ops \ {o} : world'[p] = world[p]
          /\ world'[o] = world[o] \/ (world[o] \in {"untouched", "open"} /\ world'[o] = "absent")
          /\ world' \in [Ops -> {"untouched", "open", "applied", "absent"}]
      BY <1>Call, <1>0, <2>3 DEF Call, Ceasing, TypeOK
    <2>7. PICK j : job' = [job EXCEPT ![w] = j] /\ j \in Jobs /\ j.at = "publish"
      <3>1. \A m \in Responses : [job[w] EXCEPT !.at = "publish", !.msg = m] \in Jobs /\ [job[w] EXCEPT !.at = "publish", !.msg = m].at = "publish"
        BY <2>2 DEF Jobs
      <3>2. PICK m \in Responses : Answer(w, m)
        BY <1>Call DEF Call, Responses
      <3> QED
        BY <1>0, <3>1, <3>2 DEF Answer
    <2>8. Held
      BY <1>0, <2>7, JobHeld
    <2>9. \A p \in Ops : Holds(p)' <=> Holds(p)
      BY <2>1 DEF Holds
    <2>10. ASSUME NEW p \in Ops PROVE Fit(p)'
      <3>1. Fit(p)
        BY <1>0 DEF Records
      <3>2. CASE p # o
        BY <2>1, <2>6, <3>1, <3>2 DEF Fit, Holds
      <3>3. CASE p = o
        BY <2>1, <2>6, <3>1, <3>3 DEF Fit, Holds, Final
      <3> QED
        BY <3>2, <3>3
    <2>11. Records' /\ Onward /\ Cut
      BY <1>0, <2>1, <2>6, <2>9, <2>10 DEF Records, Onward, Cut
    <2>12. ASSUME c = None PROVE Working'
      BY <1>0, <2>1, <2>5, <2>8, <2>11, <2>12, WorkingKept DEF Working
    <2>13. ASSUME c \in Controls PROVE Working'
      <3>1. Calling(w, c) /\ c \in rec[o].delivered /\ calls[c] = 0 /\ \A v \in Workers : Calling(v, c) => v = w
        BY <1>0, <2>2, <2>3, <2>4, <2>13 DEF Calling, Working
      <3>2. calls'[c] = 1 /\ \A d \in Controls \ {c} : calls'[d] = calls[d]
        BY <2>5, <2>13, <3>1
      <3>3. \A v \in Workers : ~Calling(v, c)'
        <4>1. ~Calling(w, c)'
          BY <1>0, <2>7 DEF Calling, TypeOK
        <4> QED
          BY <2>8, <2>13, <3>1, <4>1 DEF Held
      <3>4. ASSUME NEW p \in Ops, NEW v \in Workers, Starting(v, p)'
            PROVE  /\ (rec[p].consumed /\ starts[p] = 0)'
                   /\ \A u \in Workers : Starting(u, p)' => u = v
        BY <1>0, <2>1, <2>8, <3>4 DEF Held, Working
      <3>5. ASSUME NEW d \in Controls, NEW v \in Workers, Calling(v, d)'
            PROVE  /\ (d \in rec[job[v].op].delivered /\ calls[d] = 0)'
                   /\ \A u \in Workers : Calling(u, d)' => u = v
        <4>1. d # c
          BY <3>3, <3>5
        <4> QED
          BY <1>0, <2>1, <2>8, <3>2, <3>5, <4>1 DEF Held, Working
      <3>6. ASSUME NEW d \in Controls, calls'[d] > 0
            PROVE  calls'[d] = 1 /\ \E p \in Ops : d \in rec'[p].delivered
        BY <1>0, <2>1, <3>1, <3>2, <3>6 DEF Working
      <3> QED
        BY <1>0, <2>1, <3>4, <3>5, <3>6 DEF Working
    <2>14. TypeOK'
      <3>1. job' \in [Workers -> Jobs \cup {None}] /\ calls' \in [Controls -> Nat]
        BY <1>0, <2>5, <2>7 DEF TypeOK
      <3> QED
        BY <1>Call, <1>0, <2>6, <3>1 DEF Call, TypeOK, durable, process, bounds
    <2> QED
      BY <2>11, <2>12, <2>13, <2>14 DEF IInv
  <1>Apply. ASSUME NEW o \in Ops, Apply(o) PROVE IInv' /\ Onward /\ Cut
    <2>1. UNCHANGED <<rec, resolved, cuts, starts, calls, job>>
      BY <1>Apply DEF Apply, durable, process, outside
    <2>2. /\ \A p \in Ops \ {o} : world'[p] = world[p]
          /\ world[o] = "open" /\ world'[o] = "applied"
          /\ world' \in [Ops -> {"untouched", "open", "applied", "absent"}]
      BY <1>Apply, <1>0 DEF Apply, TypeOK
    <2>3. \A p \in Ops : Holds(p)' <=> Holds(p)
      BY <2>1 DEF Holds
    <2>4. ASSUME NEW p \in Ops PROVE Fit(p)'
      <3>1. Fit(p)
        BY <1>0 DEF Records
      <3>2. CASE p # o
        BY <2>1, <2>2, <3>1, <3>2 DEF Fit, Holds
      <3>3. CASE p = o
        BY <2>1, <2>2, <3>1, <3>3 DEF Fit, Final
      <3> QED
        BY <3>2, <3>3
    <2>5. Records' /\ Onward /\ Cut
      BY <1>0, <2>1, <2>2, <2>3, <2>4 DEF Records, Onward, Cut
    <2>6. Working'
      BY <1>0, <2>1, <2>5, JobsHeld, WorkingKept DEF Working
    <2>7. TypeOK'
      BY <1>Apply, <1>0, <2>2
         DEF Apply, TypeOK, durable, process, outside, bounds
    <2> QED
      BY <2>5, <2>6, <2>7 DEF IInv
  <1>stutter. ASSUME UNCHANGED vars PROVE IInv' /\ Onward /\ Cut
    <2>1. UNCHANGED <<rec, resolved, starts, world, calls, job, cuts>>
      BY <1>stutter DEF vars, durable, process, outside, provider
    <2>2. Records' /\ Onward /\ Cut
      BY <1>0, <2>1, NoneMoves
    <2>3. Working'
      BY <1>0, <2>1, <2>2, JobsHeld, WorkingKept DEF Working
    <2>4. TypeOK'
      BY <1>stutter, <1>0
         DEF vars, TypeOK, durable, process, outside, provider, bounds
    <2> QED
      BY <2>2, <2>3, <2>4 DEF IInv
  <1> QED
    BY <1>ClaimAccepted, <1>Deliver, <1>SubmitLands, <1>SubmitReturns,
       <1>ResolveAbsence, <1>Poison, <1>Crash, <1>ClassifyFailure, <1>Expire,
       <1>FinishOutcome, <1>Shutdown, <1>Restart, <1>FinishResolve,
       <1>Supervise, <1>RunActivity, <1>Refuse, <1>GiveUp, <1>Serve,
       <1>ServeLate, <1>Start, <1>Call, <1>Apply, <1>stutter
       DEF Next, PlaneStep, ActivityStep, OutsideStep

--------------------------------------------------------------------------------
(* The theorems                                                               *)

\* Every ledger, session, activity and cut has its type.
THEOREM TypeCorrect == Spec => []TypeOK
  <1>1. IInv => TypeOK
    BY DEF IInv
  <1> QED
    BY <1>1, InitIInv, StepKeepsIInv, PTL DEF Spec

\* The one-use grant of claim_backend_invocation and claim_worker_control: the
\* provider is started once and called once for each control identity.
THEOREM DeliveredOnceAlways == Spec => []DeliveredOnce
  <1>1. IInv => DeliveredOnce
    <2> SUFFICES ASSUME IInv PROVE DeliveredOnce
      OBVIOUS
    <2>1. \A o \in Ops : starts[o] <= 1
      BY DEF IInv, Records, Fit
    <2>2. \A c \in Controls : calls[c] \in Nat /\ (calls[c] > 0 => calls[c] = 1)
      BY DEF IInv, TypeOK, Working
    <2>3. \A c \in Controls : calls[c] <= 1
      BY <2>2
    <2> QED
      BY <2>1, <2>3 DEF DeliveredOnce
  <1> QED
    BY <1>1, InitIInv, StepKeepsIInv, PTL DEF Spec

\* commit_settlement and validate_effects: a recorded verdict is true of the
\* effect, whichever of deadline, outcome, cancellation and restart gave it.
THEOREM TerminalIsTrueAlways == Spec => []TerminalIsTrue
  <1>1. IInv => TerminalIsTrue
    <2> SUFFICES ASSUME IInv, NEW o \in Ops
                 PROVE  /\ rec[o].st = "SUCCEEDED" => world[o] = "applied"
                        /\ rec[o].st = "FAILED" => world[o] \in {"applied", "absent"}
                        /\ rec[o].st = "CANCELLED" /\ rec[o].consumed =>
                               world[o] \in {"applied", "absent"}
                        /\ rec[o].st = "CANCELLED" /\ ~rec[o].consumed => starts[o] = 0
      BY DEF TerminalIsTrue
    <2>1. starts[o] \in Nat /\ (starts[o] > 0 => rec[o].consumed)
      BY DEF IInv, TypeOK, Records, Fit
    <2>2. ~rec[o].consumed => starts[o] = 0
      BY <2>1
    <2> QED
      BY <2>2 DEF IInv, Records, Fit, Final
  <1> QED
    BY <1>1, InitIInv, StepKeepsIInv, PTL DEF Spec

\* commit_settlement leaves a terminal record alone, and nothing gives a
\* consumed grant back.
THEOREM FirstVerdictStandsAlways == Spec => FirstVerdictStands
  <1>1. ASSUME IInv, [Next]_vars
        PROVE  \A o \in Ops :
                  /\ rec[o].st \in Terminal => rec'[o].st = rec[o].st
                  /\ rec[o].consumed => rec'[o].consumed
    BY <1>1, StepKeepsIInv DEF Onward
  <1> QED
    BY <1>1, InitIInv, StepKeepsIInv, PTL DEF Spec, FirstVerdictStands

\* What ImplementsTarget makes of the ledger and the world.
Holder == IF \E o \in Ops : Holds(o) THEN CHOOSE o \in Ops : Holds(o) ELSE None
Loose == {o \in Ops : world[o] = "open"}

HolderRight ==
    /\ \A o \in Ops : Holds(o) <=> Holder = o
    /\ Holder \in Ops \cup {None}
    /\ \A o \in Loose : o \in Ops /\ Holder = o

LEMMA HolderIs == IInv => HolderRight
  <1> SUFFICES ASSUME IInv PROVE HolderRight
    OBVIOUS
  <1>1. Holder \in Ops \cup {None} /\ (Holder \in Ops => Holds(Holder))
    BY NamesAssumption DEF Holder
  <1>2. \A o \in Ops : Holds(o) => Holder = o
    <2> SUFFICES ASSUME NEW o \in Ops, Holds(o) PROVE Holder = o
      OBVIOUS
    <2>1. Holds(CHOOSE p \in Ops : Holds(p)) /\ (CHOOSE p \in Ops : Holds(p)) \in Ops
      OBVIOUS
    <2> QED
      BY <2>1 DEF Holder
  <1>3. \A o \in Loose : o \in Ops /\ Holds(o)
    BY DEF Loose, IInv, Records, Fit, Final
  <1> QED
    BY <1>1, <1>2, <1>3 DEF HolderRight

\* The reservation in the ledger is a lock on the target: RemoteInvocation
\* implements ExclusiveTarget.
THEOREM ImplementsTargetAlways == Spec => ImplementsTarget
  <1>1. Init => Holder = None /\ Loose = {}
    BY DEF Init, Holder, Loose, Holds, Unrecorded
  <1>0. (IInv => HolderRight) /\ (IInv' => HolderRight')
    BY HolderIs, PTL
  <1>2. ASSUME IInv, IInv', Cut
        PROVE  \/ \E o \in Ops :
                     \/ Holder = None /\ Holder' = o /\ Loose' = Loose
                     \/ Holder = o /\ Loose' = Loose \cup {o} /\ Holder' = Holder
                     \/ Loose' = Loose \ {o} /\ Holder' = Holder
                     \/ Holder = o /\ Holder' = None /\ Loose' = Loose \ {o}
               \/ Holder' = Holder /\ Loose' = Loose
    <2>1. /\ \A o \in Ops : Holds(o) <=> Holder = o
          /\ Holder \in Ops \cup {None}
          /\ \A o \in Loose : o \in Ops /\ Holder = o
      BY <1>0, <1>2 DEF HolderRight
    <2>2. /\ \A o \in Ops : Holds(o)' <=> Holder' = o
          /\ Holder' \in Ops \cup {None}
          /\ \A o \in Loose' : o \in Ops /\ Holder' = o
      BY <1>0, <1>2 DEF HolderRight
    <2>3. CASE /\ UNCHANGED world /\ \A p \in Ops : ~Holds(p)
               /\ \E o \in Ops : \A p \in Ops : Holds(p)' => p = o
      <3>1. Loose' = Loose
        BY <2>3 DEF Loose
      <3> QED
        BY <2>1, <2>2, <2>3, <3>1
    <2>4. CASE UNCHANGED world /\ \A o \in Ops : Holds(o)' => Holds(o)
      <3>1. Loose' = Loose
        BY <2>4 DEF Loose
      <3>2. CASE Holder' = Holder
        BY <3>1, <3>2
      <3>3. CASE Holder' # Holder
        <4>1. Holder \in Ops /\ Holder' = None
          BY <2>1, <2>2, <2>4, <3>3
        <4>2. Loose' = Loose \ {Holder}
          BY <2>2, <3>1, <4>1, NamesAssumption
        <4> QED
          BY <4>1, <4>2
      <3> QED
        BY <3>2, <3>3
    <2>5. CASE /\ \A p \in Ops : Holds(p)' <=> Holds(p)
               /\ \E o \in Ops : /\ \A p \in Ops \ {o} : world'[p] = world[p]
                                 /\ world'[o] = "open" => Holds(o) \/ world[o] = "open"
      <3>1. Holder' = Holder
        BY <2>1, <2>2, <2>5
      <3>2. PICK o \in Ops : /\ \A p \in Ops \ {o} : world'[p] = world[p]
                             /\ world'[o] = "open" => Holds(o) \/ world[o] = "open"
        BY <2>5
      <3>3. CASE world'[o] = "open" /\ Holds(o)
        <4>1. Loose' = Loose \cup {o}
          BY <3>2, <3>3 DEF Loose
        <4> QED
          BY <2>1, <3>1, <3>3, <4>1
      <3>4. CASE world'[o] = "open" /\ world[o] = "open"
        <4>1. Loose' = Loose
          BY <3>2, <3>4 DEF Loose
        <4> QED
          BY <3>1, <4>1
      <3>5. CASE world'[o] # "open"
        <4>1. Loose' = Loose \ {o}
          BY <3>2, <3>5 DEF Loose
        <4> QED
          BY <3>1, <4>1
      <3> QED
        BY <3>2, <3>3, <3>4, <3>5
    <2> QED
      BY <1>2, <2>3, <2>4, <2>5 DEF Cut
  <1>3. Init => Target!TargetInit
    BY <1>1 DEF Target!TargetInit, Holder, Loose
  <1>4. IInv /\ IInv' /\ Cut => [Target!TargetNext]_(Target!targetVars)
    BY <1>2
       DEF Target!TargetNext, Target!Acquire, Target!Begin, Target!Cease,
           Target!Release, Target!targetVars, Holder, Loose
  <1> QED
    BY <1>3, <1>4, InitIInv, StepKeepsIInv, PTL
       DEF Spec, ImplementsTarget, Target!TargetSpec

=============================================================================
