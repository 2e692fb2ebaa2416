------------------------ MODULE ExecutionAdapter_proofs ------------------------
(****************************************************************************)
(* LocalExecutionAdapter and the close of its runtime, for any number of    *)
(* threads, deadlines, calls and lanes of any capacity.                     *)
(*                                                                          *)
(* Slots: Shape says which positions of the two sides of a call go          *)
(* together; from it every step takes or gives back exactly what it counts. *)
(* Close: a call of a thread is inside an admitted call of the plane, the   *)
(* plane admits nobody from the drain on, and it never does again once the  *)
(* close of the lease has been called.  The second part is that lease.      *)
(****************************************************************************)
EXTENDS ExecutionAdapter, StoreLease, FiniteSetTheorems, TLAPS

\* The positions of caller and task that go together: a caller that waits has
\* a task that can still end, one that gave the call up has marked it.
Shape(c) ==
    LET r == call[c] IN
    \/ r.caller = "none" /\ r.task = "none" /\ ~r.cancelled
    \/ /\ r.caller = "waiting" /\ ~r.cancelled
       /\ r.task \in {"queued", "handed", "running", "giving", "exited"}
    \/ /\ r.caller = "leaving" /\ ~r.cancelled
       /\ r.task \in {"handed", "running", "giving", "exited", "skipped"}
    \/ /\ r.caller \in {"giving", "back"} /\ r.cancelled
       /\ r.task \in {"handed", "skipped"}
    \/ /\ r.caller = "back" /\ ~r.cancelled
       /\ r.task \in {"running", "giving", "exited"}

SlotHolders(l) == {c \in Calls : call[c].lane = l /\ HoldsSlot(c)}
PlaceHolders == {c \in Calls : HoldsPlace(c)}

Slots == \A l \in AllLanes : free[l] + Cardinality(SlotHolders(l)) = Cap[l]
Places == pending = Cardinality(PlaceHolders)

Accounts == (\A c \in Calls : Shape(c)) /\ Slots /\ Places

Undone(c) == call[c].caller \in {"waiting", "leaving", "giving"}

\* A thread makes its calls inside the plane, the closer in one stage only.
Callers ==
    /\ \A c \in Calls : Undone(c) => call[c].by # None
    /\ \A c \in Calls : Undone(c) /\ call[c].by \in Threads => call[c].by \in admitted
    /\ \A c \in Calls : Undone(c) /\ call[c].by = Closer =>
           stage = "leasing" /\ closeCall = c
    /\ stage = "leasing" => closeCall \in Calls /\ call[closeCall].by = Closer

AfterDrain == {"lease", "leasing", "redrain", "check", "stop"}
ThreadsQuiet == \A c \in Calls : call[c].by \in Threads => ~HoldsSlot(c)

\* The close of the lease has been called, perhaps by a close that failed.
LeaseCalled == lease # "held" \/ \E c \in Calls : call[c].by = Closer

\* Who is kept out, and since when.
Closes ==
    /\ stage # "none" => closing
    /\ stage = "drain" \/ stage \in AfterDrain => admitted = {}
    /\ stage \in AfterDrain => ThreadsQuiet
    /\ LeaseCalled => /\ stage \in AfterDrain \/ poisoned \/ closed
                      /\ admitted = {} /\ ThreadsQuiet
    /\ stage = "stop" => shut
    /\ shut => \A c \in Calls : ~HoldsPlace(c)
    /\ \A c \in Calls : call[c].outcome = "stopped" => call[c].by \in Timers

IInv == TypeOK /\ Accounts /\ Callers /\ Closes

--------------------------------------------------------------------------------
(* Counting                                                                   *)

\* One more, or one less, of a set of calls.
LEMMA CountOne ==
    ASSUME NEW S \in SUBSET Calls, NEW c \in Calls
    PROVE  /\ Cardinality(S) \in Nat
           /\ c \notin S => Cardinality(S \cup {c}) = Cardinality(S) + 1
           /\ c \in S => Cardinality(S \ {c}) = Cardinality(S) - 1
  <1>1. IsFiniteSet(S)
    BY CallsAssumption, FS_Subset
  <1> QED
    BY <1>1, FS_CardinalityType, FS_AddElement, FS_RemoveElement

\* A step after which the same calls hold their slots.
LEMMA SlotsKept ==
    ASSUME Slots, UNCHANGED free,
           \A c \in Calls : /\ call'[c].lane = call[c].lane
                            /\ HoldsSlot(c)' <=> HoldsSlot(c)
    PROVE  Slots'
  <1>1. ASSUME NEW l \in AllLanes PROVE SlotHolders(l)' = SlotHolders(l)
    BY DEF SlotHolders
  <1> QED
    BY <1>1 DEF Slots

\* _slots[lane].acquire for one call.
LEMMA SlotTaken ==
    ASSUME Slots, free \in [AllLanes -> Nat], Cap \in [AllLanes -> Nat],
           NEW c \in Calls, NEW k \in AllLanes,
           ~HoldsSlot(c), HoldsSlot(c)', call'[c].lane = k,
           \A d \in Calls \ {c} : call'[d] = call[d],
           free' = [free EXCEPT ![k] = @ - 1]
    PROVE  Slots'
  <1> SUFFICES ASSUME NEW l \in AllLanes
               PROVE  free'[l] + Cardinality(SlotHolders(l)') = Cap[l]
    BY DEF Slots
  <1>1. SlotHolders(l) \in SUBSET Calls
    BY DEF SlotHolders
  <1>2. Cardinality(SlotHolders(l)) \in Nat /\ free[l] + Cardinality(SlotHolders(l)) = Cap[l]
    BY <1>1, CountOne DEF Slots
  <1>3. CASE l = k
    <2>1. SlotHolders(l)' = SlotHolders(l) \cup {c} /\ c \notin SlotHolders(l)
      BY <1>3 DEF SlotHolders, HoldsSlot
    <2> QED
      BY <1>1, <1>2, <1>3, <2>1, CountOne
  <1>4. CASE l # k
    <2>1. SlotHolders(l)' = SlotHolders(l)
      BY <1>4 DEF SlotHolders, HoldsSlot
    <2> QED
      BY <1>2, <1>4, <2>1
  <1> QED
    BY <1>3, <1>4

\* ... and release for one.
LEMMA SlotGiven ==
    ASSUME Slots, free \in [AllLanes -> Nat], Cap \in [AllLanes -> Nat],
           NEW c \in Calls, NEW k \in AllLanes,
           HoldsSlot(c), ~HoldsSlot(c)', call[c].lane = k,
           \A d \in Calls \ {c} : call'[d] = call[d],
           free' = [free EXCEPT ![k] = @ + 1]
    PROVE  Slots'
  <1> SUFFICES ASSUME NEW l \in AllLanes
               PROVE  free'[l] + Cardinality(SlotHolders(l)') = Cap[l]
    BY DEF Slots
  <1>1. SlotHolders(l) \in SUBSET Calls
    BY DEF SlotHolders
  <1>2. Cardinality(SlotHolders(l)) \in Nat /\ free[l] + Cardinality(SlotHolders(l)) = Cap[l]
    BY <1>1, CountOne DEF Slots
  <1>3. CASE l = k
    <2>1. SlotHolders(l)' = SlotHolders(l) \ {c} /\ c \in SlotHolders(l)
      BY <1>3 DEF SlotHolders, HoldsSlot
    <2> QED
      BY <1>1, <1>2, <1>3, <2>1, CountOne
  <1>4. CASE l # k
    <2>1. SlotHolders(l)' = SlotHolders(l)
      BY <1>4 DEF SlotHolders, HoldsSlot
    <2> QED
      BY <1>2, <1>4, <2>1
  <1> QED
    BY <1>3, <1>4

\* A step after which the same calls are pending.
LEMMA PlacesKept ==
    ASSUME Places, UNCHANGED pending, \A c \in Calls : HoldsPlace(c)' <=> HoldsPlace(c)
    PROVE  Places'
  <1>1. PlaceHolders' = PlaceHolders
    BY DEF PlaceHolders
  <1> QED
    BY <1>1 DEF Places

\* _pending += 1 for one call.
LEMMA PlaceTaken ==
    ASSUME Places, NEW c \in Calls, ~HoldsPlace(c), HoldsPlace(c)',
           \A d \in Calls \ {c} : call'[d] = call[d], pending' = pending + 1
    PROVE  Places'
  <1>1. PlaceHolders' = PlaceHolders \cup {c} /\ c \notin PlaceHolders
    BY DEF PlaceHolders, HoldsPlace, HoldsSlot
  <1>2. PlaceHolders \in SUBSET Calls
    BY DEF PlaceHolders
  <1> QED
    BY <1>1, <1>2, CountOne DEF Places

\* ... and _pending -= 1, which the count allows.
LEMMA PlaceGiven ==
    ASSUME Places, NEW c \in Calls, HoldsPlace(c), ~HoldsPlace(c)',
           \A d \in Calls \ {c} : call'[d] = call[d], pending' = pending - 1
    PROVE  Places' /\ pending' \in Nat
  <1>1. PlaceHolders' = PlaceHolders \ {c} /\ c \in PlaceHolders
    BY DEF PlaceHolders, HoldsPlace, HoldsSlot
  <1>2. PlaceHolders \in SUBSET Calls /\ PlaceHolders' \in SUBSET Calls
    BY DEF PlaceHolders
  <1> QED
    BY <1>1, <1>2, CountOne DEF Places

\* Nothing is pending: no call has a place.
LEMMA NothingPending ==
    ASSUME Places, pending = 0 PROVE \A c \in Calls : ~HoldsPlace(c)
  <1>1. PlaceHolders \in SUBSET Calls /\ IsFiniteSet(PlaceHolders)
    BY CallsAssumption, FS_Subset DEF PlaceHolders
  <1>2. PlaceHolders = {}
    BY <1>1, FS_EmptySet DEF Places
  <1> QED
    BY <1>2 DEF PlaceHolders

\* A step that leaves the calls and the counts alone.
LEMMA AccountsUntouched ==
    ASSUME Accounts, UNCHANGED <<call, free, pending>> PROVE Accounts'
  BY DEF Accounts, Shape, Slots, Places, SlotHolders, PlaceHolders, HoldsPlace,
     HoldsSlot

--------------------------------------------------------------------------------
(* The invariant                                                              *)

\* An adapter without calls.
LEMMA InitIInv == Init => IInv
  <1> SUFFICES ASSUME Init PROVE IInv
    OBVIOUS
  <1> USE ActorsAssumption, LanesAssumption DEF Init, Actors, AllLanes
  <1>1. TypeOK
    BY DEF TypeOK, CallRecords, Unused, Stages
  <1>2. \A l \in AllLanes : SlotHolders(l) = {}
    BY DEF SlotHolders, HoldsSlot, Unused
  <1>3. PlaceHolders = {}
    BY DEF PlaceHolders, HoldsPlace, HoldsSlot, Unused
  <1>4. Accounts
    <2>1. \A c \in Calls : Shape(c)
      BY DEF Shape, Unused
    <2>2. Slots
      <3>1. Cardinality({}) = 0
        BY FS_EmptySet
      <3>2. \A l \in AllLanes : free[l] \in Nat /\ free[l] = Cap[l]
        OBVIOUS
      <3> QED
        BY <1>2, <3>1, <3>2 DEF Slots
    <2>3. Places
      BY <1>3, FS_EmptySet DEF Places
    <2> QED
      BY <2>1, <2>2, <2>3 DEF Accounts
  <1>5. Callers /\ Closes
    <2>1. \A c \in Calls : /\ call[c].by = None /\ call[c].outcome = "none" /\ call[c].caller = "none"
                           /\ call[c].task = "none"
      BY DEF Unused
    <2> QED
      BY <2>1 DEF Callers, Closes, Undone, ThreadsQuiet, LeaseCalled
  <1> QED
    BY <1>1, <1>4, <1>5 DEF IInv

\* A step that moves one call on, on either side, and nothing else of the plane.
LEMMA CallMoves ==
    ASSUME IInv, NEW c \in Calls, call' \in [Calls -> CallRecords],
           \A d \in Calls \ {c} : call'[d] = call[d],
           call'[c].by = call[c].by, Shape(c)',
           call'[c].outcome = "stopped" => call[c].outcome = "stopped",
           Undone(c)' => Undone(c), HoldsSlot(c)' => HoldsSlot(c),
           HoldsPlace(c)' => HoldsPlace(c), UNCHANGED <<draining, shut, timer, plane>>
    PROVE  (\A d \in Calls : Shape(d)') /\ Callers' /\ Closes'
  <1> USE ActorsAssumption
  <1>1. \A d \in Calls : /\ call'[d].by = call[d].by /\ Shape(d)'
                         /\ call'[d].outcome = "stopped" => call[d].outcome = "stopped"
                         /\ Undone(d)' => Undone(d)
                         /\ HoldsSlot(d)' => HoldsSlot(d)
                         /\ HoldsPlace(d)' => HoldsPlace(d)
    BY DEF IInv, Accounts, Shape, Undone, HoldsSlot, HoldsPlace
  <1>2. Callers'
    BY <1>1 DEF IInv, Callers, plane
  <1>3. ThreadsQuiet => ThreadsQuiet'
    BY <1>1 DEF ThreadsQuiet
  <1>4. LeaseCalled' => LeaseCalled
    BY <1>1 DEF LeaseCalled, plane
  <1>5. Closes'
    BY <1>1, <1>3, <1>4 DEF IInv, Closes, plane
  <1> QED
    BY <1>1, <1>2, <1>5

\* Every step of a caller, a worker, a deadline and of close keeps it.
LEMMA StepKeepsIInv == IInv /\ [Next]_vars => IInv'
  <1> SUFFICES ASSUME IInv, [Next]_vars PROVE IInv'
    OBVIOUS
  <1> USE ActorsAssumption, LanesAssumption
  <1>Hand. ASSUME NEW c \in Calls, Hand(c) PROVE IInv'
    <2>1. /\ call' \in [Calls -> CallRecords] /\ \A d \in Calls \ {c} : call'[d] = call[d]
          /\ call'[c].by = call[c].by
          /\ call'[c].lane = call[c].lane
          /\ call'[c].caller = call[c].caller
          /\ call'[c].task = "handed"
          /\ call'[c].cancelled = call[c].cancelled
          /\ call'[c].outcome = call[c].outcome
      BY <1>Hand DEF Hand, IInv, TypeOK, CallRecords
    <2>2. Shape(c)' /\ (HoldsSlot(c)' <=> HoldsSlot(c)) /\ (HoldsPlace(c)' <=> HoldsPlace(c)) /\ (Undone(c)' => Undone(c))
      BY <1>Hand, <2>1
         DEF Hand, IInv, Accounts, Shape, HoldsSlot, HoldsPlace, Undone
    <2>3. (\A d \in Calls : Shape(d)') /\ Callers' /\ Closes'
      <3>1. UNCHANGED <<draining, shut, timer, plane>>
        BY <1>Hand DEF Hand
      <3> QED
        BY <2>1, <2>2, <3>1, CallMoves
    <2>4. Slots'
      <3>1. \A d \in Calls : call'[d].lane = call[d].lane /\ (HoldsSlot(d)' <=> HoldsSlot(d))
        BY <2>1, <2>2 DEF HoldsSlot
      <3>2. UNCHANGED free
        BY <1>Hand DEF Hand
      <3> QED
        BY <3>1, <3>2, SlotsKept DEF IInv, Accounts
    <2>5. Places' /\ pending' \in Nat
      <3>1. \A d \in Calls : HoldsPlace(d)' <=> HoldsPlace(d)
        BY <2>1, <2>2 DEF HoldsPlace, HoldsSlot
      <3>2. UNCHANGED pending
        BY <1>Hand DEF Hand
      <3> QED
        BY <3>1, <3>2, PlacesKept DEF IInv, Accounts, TypeOK
    <2>6. TypeOK'
      BY <1>Hand, <2>1, <2>5 DEF Hand, IInv, TypeOK, plane
    <2> QED
      BY <2>3, <2>4, <2>5, <2>6 DEF IInv, Accounts
  <1>Start. ASSUME NEW c \in Calls, Start(c) PROVE IInv'
    <2>1. /\ call' \in [Calls -> CallRecords] /\ \A d \in Calls \ {c} : call'[d] = call[d]
          /\ call'[c].by = call[c].by
          /\ call'[c].lane = call[c].lane
          /\ call'[c].caller = call[c].caller
          /\ call'[c].cancelled = call[c].cancelled
          /\ call'[c].outcome = call[c].outcome
      BY <1>Start DEF Start, IInv, TypeOK, CallRecords
    <2>8. call'[c].task \in {"running", "skipped"} /\ (call'[c].task = "skipped" => call[c].cancelled \/ call[c].caller # "waiting") /\ (call'[c].task = "running" => ~call[c].cancelled)
      BY <1>Start DEF Start, IInv, TypeOK, CallRecords
    <2>2. Shape(c)' /\ (HoldsSlot(c)' <=> HoldsSlot(c)) /\ (HoldsPlace(c)' <=> HoldsPlace(c)) /\ (Undone(c)' => Undone(c))
      BY <1>Start, <2>1, <2>8
         DEF Start, IInv, Accounts, Shape, HoldsSlot, HoldsPlace, Undone
    <2>3. (\A d \in Calls : Shape(d)') /\ Callers' /\ Closes'
      <3>1. UNCHANGED <<draining, shut, timer, plane>>
        BY <1>Start DEF Start
      <3> QED
        BY <2>1, <2>2, <3>1, CallMoves
    <2>4. Slots'
      <3>1. \A d \in Calls : call'[d].lane = call[d].lane /\ (HoldsSlot(d)' <=> HoldsSlot(d))
        BY <2>1, <2>2 DEF HoldsSlot
      <3>2. UNCHANGED free
        BY <1>Start DEF Start
      <3> QED
        BY <3>1, <3>2, SlotsKept DEF IInv, Accounts
    <2>5. Places' /\ pending' \in Nat
      <3>1. \A d \in Calls : HoldsPlace(d)' <=> HoldsPlace(d)
        BY <2>1, <2>2 DEF HoldsPlace, HoldsSlot
      <3>2. UNCHANGED pending
        BY <1>Start DEF Start
      <3> QED
        BY <3>1, <3>2, PlacesKept DEF IInv, Accounts, TypeOK
    <2>6. TypeOK'
      BY <1>Start, <2>1, <2>5 DEF Start, IInv, TypeOK, plane
    <2> QED
      BY <2>3, <2>4, <2>5, <2>6 DEF IInv, Accounts
  <1>Deliver. ASSUME NEW c \in Calls, Deliver(c) PROVE IInv'
    <2>1. /\ call' \in [Calls -> CallRecords] /\ \A d \in Calls \ {c} : call'[d] = call[d]
          /\ call'[c].by = call[c].by
          /\ call'[c].lane = call[c].lane
          /\ call'[c].caller = "leaving"
          /\ call'[c].task = call[c].task
          /\ call'[c].cancelled = call[c].cancelled
          /\ call'[c].outcome = "value"
      BY <1>Deliver DEF Deliver, IInv, TypeOK, CallRecords, plane
    <2>2. Shape(c)' /\ (HoldsSlot(c)' <=> HoldsSlot(c)) /\ (HoldsPlace(c)' <=> HoldsPlace(c)) /\ (Undone(c)' => Undone(c))
      BY <1>Deliver, <2>1
         DEF Deliver, IInv, Accounts, Shape, HoldsSlot, HoldsPlace, Undone
    <2>3. (\A d \in Calls : Shape(d)') /\ Callers' /\ Closes'
      <3>1. UNCHANGED <<draining, shut, timer, plane>>
        BY <1>Deliver DEF Deliver
      <3> QED
        BY <2>1, <2>2, <3>1, CallMoves
    <2>4. Slots'
      <3>1. \A d \in Calls : call'[d].lane = call[d].lane /\ (HoldsSlot(d)' <=> HoldsSlot(d))
        BY <2>1, <2>2 DEF HoldsSlot
      <3>2. UNCHANGED free
        BY <1>Deliver DEF Deliver
      <3> QED
        BY <3>1, <3>2, SlotsKept DEF IInv, Accounts
    <2>5. Places' /\ pending' \in Nat
      <3>1. \A d \in Calls : HoldsPlace(d)' <=> HoldsPlace(d)
        BY <2>1, <2>2 DEF HoldsPlace, HoldsSlot
      <3>2. UNCHANGED pending
        BY <1>Deliver DEF Deliver
      <3> QED
        BY <3>1, <3>2, PlacesKept DEF IInv, Accounts, TypeOK
    <2>6. TypeOK'
      BY <1>Deliver, <2>1, <2>5 DEF Deliver, IInv, TypeOK, plane
    <2> QED
      BY <2>3, <2>4, <2>5, <2>6 DEF IInv, Accounts
  <1>Expire. ASSUME NEW c \in Calls, Expire(c) PROVE IInv'
    <2>1. /\ call' \in [Calls -> CallRecords] /\ \A d \in Calls \ {c} : call'[d] = call[d]
          /\ call'[c].by = call[c].by
          /\ call'[c].lane = call[c].lane
          /\ call'[c].caller = "leaving"
          /\ call'[c].task = (IF call[c].task = "queued" THEN "skipped" ELSE call[c].task)
          /\ call'[c].cancelled = call[c].cancelled
          /\ call'[c].outcome = "timeout"
      BY <1>Expire DEF Expire, IInv, TypeOK, CallRecords, plane, LetGo
    <2>2. Shape(c)' /\ (HoldsSlot(c)' <=> HoldsSlot(c)) /\ (HoldsPlace(c)' <=> HoldsPlace(c)) /\ (Undone(c)' => Undone(c))
      BY <1>Expire, <2>1
         DEF Expire, IInv, Accounts, Shape, HoldsSlot, HoldsPlace, Undone
    <2>3. (\A d \in Calls : Shape(d)') /\ Callers' /\ Closes'
      <3>1. UNCHANGED <<draining, shut, timer, plane>>
        BY <1>Expire DEF Expire
      <3> QED
        BY <2>1, <2>2, <3>1, CallMoves
    <2>4. Slots'
      <3>1. \A d \in Calls : call'[d].lane = call[d].lane /\ (HoldsSlot(d)' <=> HoldsSlot(d))
        BY <2>1, <2>2 DEF HoldsSlot
      <3>2. UNCHANGED free
        BY <1>Expire DEF Expire
      <3> QED
        BY <3>1, <3>2, SlotsKept DEF IInv, Accounts
    <2>5. Places' /\ pending' \in Nat
      <3>1. \A d \in Calls : HoldsPlace(d)' <=> HoldsPlace(d)
        BY <2>1, <2>2 DEF HoldsPlace, HoldsSlot
      <3>2. UNCHANGED pending
        BY <1>Expire DEF Expire
      <3> QED
        BY <3>1, <3>2, PlacesKept DEF IInv, Accounts, TypeOK
    <2>6. TypeOK'
      BY <1>Expire, <2>1, <2>5 DEF Expire, IInv, TypeOK, plane
    <2> QED
      BY <2>3, <2>4, <2>5, <2>6 DEF IInv, Accounts
  <1>CountExit. ASSUME NEW c \in Calls, CountExit(c) PROVE IInv'
    <2>1. /\ call' \in [Calls -> CallRecords] /\ \A d \in Calls \ {c} : call'[d] = call[d]
          /\ call'[c].by = call[c].by
          /\ call'[c].lane = call[c].lane
          /\ call'[c].caller = call[c].caller
          /\ call'[c].task = "exited"
          /\ call'[c].cancelled = call[c].cancelled
          /\ call'[c].outcome = call[c].outcome
      BY <1>CountExit DEF CountExit, IInv, TypeOK, CallRecords
    <2>2. Shape(c)' /\ (HoldsSlot(c)' <=> HoldsSlot(c)) /\ (HoldsPlace(c) /\ ~HoldsPlace(c)') /\ (Undone(c)' => Undone(c))
      BY <1>CountExit, <2>1
         DEF CountExit, IInv, Accounts, Shape, HoldsSlot, HoldsPlace, Undone
    <2>3. (\A d \in Calls : Shape(d)') /\ Callers' /\ Closes'
      <3>1. UNCHANGED <<draining, shut, timer, plane>>
        BY <1>CountExit DEF CountExit
      <3> QED
        BY <2>1, <2>2, <3>1, CallMoves
    <2>4. Slots'
      <3>1. \A d \in Calls : call'[d].lane = call[d].lane /\ (HoldsSlot(d)' <=> HoldsSlot(d))
        BY <2>1, <2>2 DEF HoldsSlot
      <3>2. UNCHANGED free
        BY <1>CountExit DEF CountExit
      <3> QED
        BY <3>1, <3>2, SlotsKept DEF IInv, Accounts
    <2>5. Places' /\ pending' \in Nat
      <3>1. pending' = pending - 1
        BY <1>CountExit DEF CountExit
      <3> QED
        BY <2>1, <2>2, <3>1, PlaceGiven DEF IInv, Accounts
    <2>6. TypeOK'
      BY <1>CountExit, <2>1, <2>5 DEF CountExit, IInv, TypeOK, plane
    <2> QED
      BY <2>3, <2>4, <2>5, <2>6 DEF IInv, Accounts
  <1>CountAbandoned. ASSUME NEW c \in Calls, CountAbandoned(c) PROVE IInv'
    <2>1. /\ call' \in [Calls -> CallRecords] /\ \A d \in Calls \ {c} : call'[d] = call[d]
          /\ call'[c].by = call[c].by
          /\ call'[c].lane = call[c].lane
          /\ call'[c].caller = "back"
          /\ call'[c].task = call[c].task
          /\ call'[c].cancelled = call[c].cancelled
          /\ call'[c].outcome = call[c].outcome
      BY <1>CountAbandoned DEF CountAbandoned, IInv, TypeOK, CallRecords
    <2>2. Shape(c)' /\ (HoldsSlot(c)' <=> HoldsSlot(c)) /\ (HoldsPlace(c) /\ ~HoldsPlace(c)') /\ (Undone(c)' => Undone(c))
      BY <1>CountAbandoned, <2>1
         DEF CountAbandoned, IInv, Accounts, Shape, HoldsSlot, HoldsPlace,
             Undone
    <2>3. (\A d \in Calls : Shape(d)') /\ Callers' /\ Closes'
      <3>1. UNCHANGED <<draining, shut, timer, plane>>
        BY <1>CountAbandoned DEF CountAbandoned
      <3> QED
        BY <2>1, <2>2, <3>1, CallMoves
    <2>4. Slots'
      <3>1. \A d \in Calls : call'[d].lane = call[d].lane /\ (HoldsSlot(d)' <=> HoldsSlot(d))
        BY <2>1, <2>2 DEF HoldsSlot
      <3>2. UNCHANGED free
        BY <1>CountAbandoned DEF CountAbandoned
      <3> QED
        BY <3>1, <3>2, SlotsKept DEF IInv, Accounts
    <2>5. Places' /\ pending' \in Nat
      <3>1. pending' = pending - 1
        BY <1>CountAbandoned DEF CountAbandoned
      <3> QED
        BY <2>1, <2>2, <3>1, PlaceGiven DEF IInv, Accounts
    <2>6. TypeOK'
      BY <1>CountAbandoned, <2>1, <2>5 DEF CountAbandoned, IInv, TypeOK, plane
    <2> QED
      BY <2>3, <2>4, <2>5, <2>6 DEF IInv, Accounts
  <1>Abandon. ASSUME NEW c \in Calls, Abandon(c) PROVE IInv'
    <2>1. CASE Started(c)
      <3>1. /\ call' \in [Calls -> CallRecords] /\ \A d \in Calls \ {c} : call'[d] = call[d]
            /\ call'[c].by = call[c].by
            /\ call'[c].lane = call[c].lane
            /\ call'[c].caller = "back"
            /\ call'[c].task = call[c].task
            /\ call'[c].cancelled = call[c].cancelled
            /\ call'[c].outcome = call[c].outcome
        BY <1>Abandon, <2>1 DEF Abandon, IInv, TypeOK, CallRecords
      <3>2. Shape(c)' /\ (HoldsSlot(c)' <=> HoldsSlot(c)) /\ (HoldsPlace(c)' <=> HoldsPlace(c)) /\ (Undone(c)' => Undone(c))
        BY <1>Abandon, <2>1, <3>1
           DEF IInv, Accounts, Shape, HoldsSlot, HoldsPlace, Undone, Started
      <3>3. (\A d \in Calls : Shape(d)') /\ Callers' /\ Closes'
        <4>1. UNCHANGED <<draining, shut, timer, plane>>
          BY <1>Abandon, <2>1 DEF Abandon
        <4> QED
          BY <3>1, <3>2, <4>1, CallMoves
      <3>4. Slots'
        <4>1. \A d \in Calls : call'[d].lane = call[d].lane /\ (HoldsSlot(d)' <=> HoldsSlot(d))
          BY <3>1, <3>2 DEF HoldsSlot
        <4>2. UNCHANGED free
          BY <1>Abandon, <2>1 DEF Abandon
        <4> QED
          BY <4>1, <4>2, SlotsKept DEF IInv, Accounts
      <3>5. Places' /\ pending' \in Nat
        <4>1. \A d \in Calls : HoldsPlace(d)' <=> HoldsPlace(d)
          BY <3>1, <3>2 DEF HoldsPlace, HoldsSlot
        <4>2. UNCHANGED pending
          BY <1>Abandon, <2>1 DEF Abandon
        <4> QED
          BY <4>1, <4>2, PlacesKept DEF IInv, Accounts, TypeOK
      <3>6. TypeOK'
        BY <1>Abandon, <2>1, <3>1, <3>5 DEF Abandon, IInv, TypeOK, plane
      <3> QED
        BY <3>3, <3>4, <3>5, <3>6 DEF IInv, Accounts
    <2>2. CASE ~Started(c)
      <3>1. /\ call' \in [Calls -> CallRecords] /\ \A d \in Calls \ {c} : call'[d] = call[d]
            /\ call'[c].by = call[c].by
            /\ call'[c].lane = call[c].lane
            /\ call'[c].caller = "giving"
            /\ call'[c].task = call[c].task
            /\ call'[c].cancelled = TRUE
            /\ call'[c].outcome = call[c].outcome
        BY <1>Abandon, <2>2 DEF Abandon, IInv, TypeOK, CallRecords
      <3>2. Shape(c)' /\ (HoldsSlot(c) /\ ~HoldsSlot(c)') /\ (HoldsPlace(c)' <=> HoldsPlace(c)) /\ (Undone(c)' => Undone(c))
        BY <1>Abandon, <2>2, <3>1
           DEF Abandon, IInv, Accounts, Shape, HoldsSlot, HoldsPlace, Undone,
               Started
      <3>3. (\A d \in Calls : Shape(d)') /\ Callers' /\ Closes'
        <4>1. UNCHANGED <<draining, shut, timer, plane>>
          BY <1>Abandon, <2>2 DEF Abandon
        <4> QED
          BY <3>1, <3>2, <4>1, CallMoves
      <3>4. Slots'
        <4>1. /\ call[c].lane \in AllLanes /\ free' = [free EXCEPT ![call[c].lane] = @ + 1]
              /\ free \in [AllLanes -> Nat] /\ Cap \in [AllLanes -> Nat]
          BY <1>Abandon, <2>2 DEF Abandon, IInv, TypeOK, CallRecords
        <4> QED
          BY <3>1, <3>2, <4>1, SlotGiven DEF IInv, Accounts
      <3>5. Places' /\ pending' \in Nat
        <4>1. \A d \in Calls : HoldsPlace(d)' <=> HoldsPlace(d)
          BY <3>1, <3>2 DEF HoldsPlace, HoldsSlot
        <4>2. UNCHANGED pending
          BY <1>Abandon, <2>2 DEF Abandon
        <4> QED
          BY <4>1, <4>2, PlacesKept DEF IInv, Accounts, TypeOK
      <3>6. TypeOK'
        BY <1>Abandon, <2>2, <3>1, <3>5 DEF Abandon, IInv, TypeOK, plane
      <3> QED
        BY <3>3, <3>4, <3>5, <3>6 DEF IInv, Accounts
    <2> QED
      BY <2>1, <2>2
  <1>Exit. ASSUME NEW c \in Calls, Exit(c) PROVE IInv'
    <2>1. /\ call' \in [Calls -> CallRecords] /\ \A d \in Calls \ {c} : call'[d] = call[d]
          /\ call'[c].by = call[c].by
          /\ call'[c].lane = call[c].lane
          /\ call'[c].caller = call[c].caller
          /\ call'[c].task = "giving"
          /\ call'[c].cancelled = call[c].cancelled
          /\ call'[c].outcome = call[c].outcome
      BY <1>Exit DEF Exit, IInv, TypeOK, CallRecords
    <2>2. Shape(c)' /\ (HoldsSlot(c) /\ ~HoldsSlot(c)') /\ (HoldsPlace(c)' <=> HoldsPlace(c)) /\ (Undone(c)' => Undone(c))
      BY <1>Exit, <2>1
         DEF Exit, IInv, Accounts, Shape, HoldsSlot, HoldsPlace, Undone
    <2>3. (\A d \in Calls : Shape(d)') /\ Callers' /\ Closes'
      <3>1. \A d \in Calls : /\ call'[d].by = call[d].by /\ Shape(d)'
                             /\ call'[d].outcome = call[d].outcome /\ Undone(d)' = Undone(d)
                             /\ HoldsSlot(d)' => HoldsSlot(d)
                             /\ HoldsPlace(d)' => HoldsPlace(d)
        BY <2>1, <2>2 DEF IInv, Accounts, Shape, Undone, HoldsSlot, HoldsPlace
      <3>2. /\ admitted' \subseteq admitted
            /\ \A a \in Threads : a \in admitted => a \in admitted'
            /\ LeaseCalled' => LeaseCalled
        BY <1>Exit, <3>1 DEF Exit, CallbackDone, LeaseCalled
      <3>3. Callers'
        BY <1>Exit, <3>1, <3>2 DEF Exit, IInv, Callers
      <3>4. ThreadsQuiet => ThreadsQuiet'
        BY <3>1 DEF ThreadsQuiet
      <3>5. Closes'
        BY <1>Exit, <3>1, <3>2, <3>4 DEF Exit, IInv, Closes
      <3> QED
        BY <3>1, <3>3, <3>5
    <2>4. Slots'
      <3>1. /\ call[c].lane \in AllLanes /\ free' = [free EXCEPT ![call[c].lane] = @ + 1]
            /\ free \in [AllLanes -> Nat] /\ Cap \in [AllLanes -> Nat]
        BY <1>Exit DEF Exit, IInv, TypeOK, CallRecords
      <3> QED
        BY <2>1, <2>2, <3>1, SlotGiven DEF IInv, Accounts
    <2>5. Places' /\ pending' \in Nat
      <3>1. \A d \in Calls : HoldsPlace(d)' <=> HoldsPlace(d)
        BY <2>1, <2>2 DEF HoldsPlace, HoldsSlot
      <3>2. UNCHANGED pending
        BY <1>Exit DEF Exit
      <3> QED
        BY <3>1, <3>2, PlacesKept DEF IInv, Accounts, TypeOK
    <2>6. TypeOK'
      BY <1>Exit, <2>1, <2>5 DEF Exit, IInv, TypeOK, CallRecords, CallbackDone
    <2> QED
      BY <2>3, <2>4, <2>5, <2>6 DEF IInv, Accounts
  <1>ThreadCalls. ASSUME NEW a \in Threads, NEW c \in Calls, NEW l \in Lanes, ThreadCalls(a, c, l) PROVE IInv'
    <2>0. Submit(a, c, l) /\ l \in AllLanes /\ a \in Actors
      BY <1>ThreadCalls DEF ThreadCalls, AllLanes, Actors
    <2>1. /\ call' \in [Calls -> CallRecords] /\ \A d \in Calls \ {c} : call'[d] = call[d]
          /\ call'[c].by = a /\ call'[c].lane = l /\ call'[c].caller = "waiting"
          /\ call'[c].task = "queued" /\ call'[c].cancelled = FALSE
          /\ call'[c].outcome = "none" /\ call[c] = Unused
      BY <2>0 DEF Submit, IInv, TypeOK, CallRecords, Unused
    <2>2. /\ Shape(c)' /\ HoldsSlot(c)' /\ HoldsPlace(c)' /\ ~HoldsSlot(c) /\ ~HoldsPlace(c)
          /\ ~shut /\ call[c].by = None /\ call[c].outcome = "none" /\ ~Undone(c)
          /\ free' = [free EXCEPT ![l] = @ - 1] /\ free[l] \in Nat \ {0} /\ pending' = pending + 1
      BY <2>0, <2>1
         DEF Submit, Admits, IInv, TypeOK, Shape, HoldsSlot, HoldsPlace, Unused,
             Undone
    <2>3. \A d \in Calls \ {c} : /\ Shape(d)' /\ (HoldsSlot(d)' <=> HoldsSlot(d))
                                 /\ (HoldsPlace(d)' <=> HoldsPlace(d)) /\ (Undone(d)' <=> Undone(d))
      BY <2>1 DEF IInv, Accounts, Shape, HoldsSlot, HoldsPlace, Undone
    <2>4. Callers'
      BY <1>ThreadCalls, <2>1, <2>2, <2>3
         DEF ThreadCalls, IInv, Callers, plane, Actors
    <2>5. Closes'
      BY <1>ThreadCalls, <2>0, <2>1, <2>2, <2>3
         DEF ThreadCalls, Submit, IInv, Closes, LeaseCalled, plane
    <2>6. Slots'
      <3>1. free \in [AllLanes -> Nat] /\ Cap \in [AllLanes -> Nat]
        BY DEF IInv, TypeOK
      <3> QED
        BY <2>0, <2>1, <2>2, <3>1, SlotTaken DEF IInv, Accounts
    <2>7. Places'
      BY <2>1, <2>2, PlaceTaken DEF IInv, Accounts
    <2>8. TypeOK'
      BY <1>ThreadCalls, <2>0, <2>1, <2>2
         DEF ThreadCalls, Submit, IInv, TypeOK, plane
    <2> QED
      BY <2>2, <2>3, <2>4, <2>5, <2>6, <2>7, <2>8 DEF IInv, Accounts
  <1>TimerCalls. ASSUME NEW t \in Timers, NEW c \in Calls, TimerCalls(t, c) PROVE IInv'
    <2>0. Submit(t, c, Deadline) /\ Deadline \in AllLanes /\ t \in Actors
      BY <1>TimerCalls DEF TimerCalls, AllLanes, Actors
    <2>1. /\ call' \in [Calls -> CallRecords] /\ \A d \in Calls \ {c} : call'[d] = call[d]
          /\ call'[c].by = t /\ call'[c].lane = Deadline /\ call'[c].caller = "waiting"
          /\ call'[c].task = "queued" /\ call'[c].cancelled = FALSE
          /\ call'[c].outcome = "none" /\ call[c] = Unused
      BY <2>0 DEF Submit, IInv, TypeOK, CallRecords, Unused
    <2>2. /\ Shape(c)' /\ HoldsSlot(c)' /\ HoldsPlace(c)' /\ ~HoldsSlot(c) /\ ~HoldsPlace(c)
          /\ ~shut /\ call[c].by = None /\ call[c].outcome = "none" /\ ~Undone(c)
          /\ free' = [free EXCEPT ![Deadline] = @ - 1] /\ free[Deadline] \in Nat \ {0} /\ pending' = pending + 1
      BY <2>0, <2>1
         DEF Submit, Admits, IInv, TypeOK, Shape, HoldsSlot, HoldsPlace, Unused,
             Undone
    <2>3. \A d \in Calls \ {c} : /\ Shape(d)' /\ (HoldsSlot(d)' <=> HoldsSlot(d))
                                 /\ (HoldsPlace(d)' <=> HoldsPlace(d)) /\ (Undone(d)' <=> Undone(d))
      BY <2>1 DEF IInv, Accounts, Shape, HoldsSlot, HoldsPlace, Undone
    <2>4. Callers'
      BY <1>TimerCalls, <2>1, <2>2, <2>3
         DEF TimerCalls, IInv, Callers, plane, Actors
    <2>5. Closes'
      BY <1>TimerCalls, <2>0, <2>1, <2>2, <2>3
         DEF TimerCalls, Submit, IInv, Closes, ThreadsQuiet, LeaseCalled, plane
    <2>6. Slots'
      <3>1. free \in [AllLanes -> Nat] /\ Cap \in [AllLanes -> Nat]
        BY DEF IInv, TypeOK
      <3> QED
        BY <2>0, <2>1, <2>2, <3>1, SlotTaken DEF IInv, Accounts
    <2>7. Places'
      BY <2>1, <2>2, PlaceTaken DEF IInv, Accounts
    <2>8. TypeOK'
      BY <1>TimerCalls, <2>0, <2>1, <2>2
         DEF TimerCalls, Submit, IInv, TypeOK, plane
    <2> QED
      BY <2>2, <2>3, <2>4, <2>5, <2>6, <2>7, <2>8 DEF IInv, Accounts
  <1>CallLeaseClose. ASSUME NEW c \in Calls, CallLeaseClose(c) PROVE IInv'
    <2>0. Submit(Closer, c, Store) /\ Store \in AllLanes /\ Closer \in Actors
      BY <1>CallLeaseClose DEF CallLeaseClose, AllLanes, Actors
    <2>1. /\ call' \in [Calls -> CallRecords] /\ \A d \in Calls \ {c} : call'[d] = call[d]
          /\ call'[c].by = Closer /\ call'[c].lane = Store /\ call'[c].caller = "waiting"
          /\ call'[c].task = "queued" /\ call'[c].cancelled = FALSE
          /\ call'[c].outcome = "none" /\ call[c] = Unused
      BY <2>0 DEF Submit, IInv, TypeOK, CallRecords, Unused
    <2>2. /\ Shape(c)' /\ HoldsSlot(c)' /\ HoldsPlace(c)' /\ ~HoldsSlot(c) /\ ~HoldsPlace(c)
          /\ ~shut /\ call[c].by = None /\ call[c].outcome = "none" /\ ~Undone(c)
          /\ free' = [free EXCEPT ![Store] = @ - 1] /\ free[Store] \in Nat \ {0} /\ pending' = pending + 1
      BY <2>0, <2>1
         DEF Submit, Admits, IInv, TypeOK, Shape, HoldsSlot, HoldsPlace, Unused,
             Undone
    <2>3. \A d \in Calls \ {c} : /\ Shape(d)' /\ (HoldsSlot(d)' <=> HoldsSlot(d))
                                 /\ (HoldsPlace(d)' <=> HoldsPlace(d)) /\ (Undone(d)' <=> Undone(d))
      BY <2>1 DEF IInv, Accounts, Shape, HoldsSlot, HoldsPlace, Undone
    <2>4. Callers'
      BY <1>CallLeaseClose, <2>1, <2>2, <2>3
         DEF CallLeaseClose, IInv, Callers, Actors
    <2>5. Closes'
      BY <1>CallLeaseClose, <2>0, <2>1, <2>2, <2>3
         DEF CallLeaseClose, Submit, IInv, Closes, AfterDrain, ThreadsQuiet
    <2>6. Slots'
      <3>1. free \in [AllLanes -> Nat] /\ Cap \in [AllLanes -> Nat]
        BY DEF IInv, TypeOK
      <3> QED
        BY <2>0, <2>1, <2>2, <3>1, SlotTaken DEF IInv, Accounts
    <2>7. Places'
      BY <2>1, <2>2, PlaceTaken DEF IInv, Accounts
    <2>8. TypeOK'
      BY <1>CallLeaseClose, <2>0, <2>1, <2>2
         DEF CallLeaseClose, Submit, IInv, TypeOK, Stages
    <2> QED
      BY <2>2, <2>3, <2>4, <2>5, <2>6, <2>7, <2>8 DEF IInv, Accounts
  <1>StopPortal. CASE StopPortal
    <2>1. \A c \in Calls : /\ call'[c] = IF call[c].caller = "waiting" THEN LetGo(c, "stopped") ELSE call[c]
                           /\ call[c] \in CallRecords
      BY <1>StopPortal DEF StopPortal, IInv, TypeOK
    <2>2. \A c \in Calls : ~HoldsPlace(c)
      BY <1>StopPortal DEF StopPortal, IInv, Closes
    <2>3. ASSUME NEW c \in Calls, call[c].caller = "waiting"
          PROVE  /\ call[c].task = "exited" /\ ~call[c].cancelled /\ call[c].by \in Timers
      BY <1>StopPortal, <2>2, <2>3
         DEF StopPortal, IInv, TypeOK, CallRecords, Accounts, Shape, HoldsPlace,
             HoldsSlot, Callers, Closes, AfterDrain, Undone, Actors
    <2>4. ASSUME NEW c \in Calls, call[c].caller = "waiting"
          PROVE  /\ call'[c].by = call[c].by /\ call'[c].lane = call[c].lane /\ call'[c].caller = "leaving"
                 /\ call'[c].task = "exited" /\ call'[c].cancelled = call[c].cancelled
                 /\ call'[c].outcome = "stopped" /\ call'[c] \in CallRecords
      <3>1. call'[c] = [call[c] EXCEPT !.caller = "leaving", !.outcome = "stopped", !.task = "exited"]
        <4>1. call'[c] = LetGo(c, "stopped")
          BY <2>1, <2>4
        <4> QED
          BY <2>1, <2>3, <2>4, <4>1 DEF LetGo
      <3> QED
        BY <2>1, <2>3, <2>4, <3>1 DEF CallRecords
    <2>5. \A c \in Calls : /\ call'[c].by = call[c].by /\ call'[c].lane = call[c].lane
                           /\ call'[c] \in CallRecords /\ Shape(c)'
                           /\ (HoldsSlot(c)' <=> HoldsSlot(c)) /\ (HoldsPlace(c)' <=> HoldsPlace(c))
                           /\ Undone(c)' <=> Undone(c)
                           /\ call'[c].outcome = "stopped" => call[c].outcome = "stopped" \/ call[c].by \in Timers
      <3> TAKE c \in Calls
      <3>1. CASE call[c].caller = "waiting"
        BY <2>3, <2>4, <3>1 DEF Shape, HoldsSlot, HoldsPlace, Undone
      <3>2. CASE call[c].caller # "waiting"
        <4>1. call'[c] = call[c] /\ call[c] \in CallRecords
          BY <2>1, <3>2
        <4> QED
          BY <4>1 DEF IInv, Accounts, Shape, HoldsSlot, HoldsPlace, Undone
      <3> QED
        BY <3>1, <3>2
    <2>6. TypeOK'
      BY <1>StopPortal, <2>5 DEF StopPortal, IInv, TypeOK, Stages
    <2>7. Callers'
      BY <1>StopPortal, <2>5 DEF StopPortal, IInv, Callers
    <2>8. Closes'
      <3>1. (ThreadsQuiet' <=> ThreadsQuiet) /\ (LeaseCalled' <=> LeaseCalled)
        BY <1>StopPortal, <2>5 DEF StopPortal, ThreadsQuiet, LeaseCalled
      <3> QED
        BY <1>StopPortal, <2>5, <3>1 DEF StopPortal, IInv, Closes, AfterDrain
    <2>9. Slots' /\ Places'
      BY <1>StopPortal, <2>5, SlotsKept, PlacesKept
         DEF StopPortal, IInv, Accounts
    <2> QED
      BY <2>5, <2>6, <2>7, <2>8, <2>9 DEF IInv, Accounts
  <1>CallbackEnters. ASSUME NEW c \in Calls, CallbackEnters(c) PROVE IInv'
    <2>1. UNCHANGED <<call, free, pending>>
      BY <1>CallbackEnters DEF CallbackEnters, adapter, EnterPlane
    <2>2. Accounts'
      BY <2>1, AccountsUntouched DEF IInv
    <2>3. /\ ThreadsQuiet' <=> ThreadsQuiet
          /\ \A d \in Calls : (HoldsPlace(d)' <=> HoldsPlace(d)) /\ (Undone(d)' <=> Undone(d))
      BY <2>1 DEF ThreadsQuiet, HoldsSlot, HoldsPlace, Undone
    <2>4. TypeOK'
      BY <1>CallbackEnters, <2>1
         DEF CallbackEnters, IInv, TypeOK, adapter, EnterPlane
    <2>5. Callers'
      BY <1>CallbackEnters, <2>1
         DEF CallbackEnters, IInv, Callers, EnterPlane, Undone
    <2>6. Closes'
      BY <1>CallbackEnters, <2>1, <2>3
         DEF CallbackEnters, IInv, Closes, AfterDrain, adapter, EnterPlane,
             PlaneAdmits, LeaseCalled
    <2> QED
      BY <2>2, <2>4, <2>5, <2>6 DEF IInv
  <1>EnterPlane. ASSUME NEW a \in Threads, EnterPlane(a) PROVE IInv'
    <2>1. UNCHANGED <<call, free, pending>>
      BY <1>EnterPlane DEF adapter, EnterPlane
    <2>2. Accounts'
      BY <2>1, AccountsUntouched DEF IInv
    <2>3. /\ ThreadsQuiet' <=> ThreadsQuiet
          /\ \A d \in Calls : (HoldsPlace(d)' <=> HoldsPlace(d)) /\ (Undone(d)' <=> Undone(d))
      BY <2>1 DEF ThreadsQuiet, HoldsSlot, HoldsPlace, Undone
    <2>4. TypeOK'
      BY <1>EnterPlane, <2>1 DEF IInv, TypeOK, adapter, EnterPlane
    <2>5. Callers'
      BY <1>EnterPlane, <2>1 DEF IInv, Callers, EnterPlane, Undone
    <2>6. Closes'
      BY <1>EnterPlane, <2>1, <2>3
         DEF IInv, Closes, AfterDrain, adapter, EnterPlane, PlaneAdmits,
             LeaseCalled
    <2> QED
      BY <2>2, <2>4, <2>5, <2>6 DEF IInv
  <1>LeavePlane. ASSUME NEW a \in Threads, LeavePlane(a) PROVE IInv'
    <2>1. UNCHANGED <<call, free, pending>>
      BY <1>LeavePlane DEF LeavePlane, adapter
    <2>2. Accounts'
      BY <2>1, AccountsUntouched DEF IInv
    <2>3. /\ ThreadsQuiet' <=> ThreadsQuiet
          /\ \A d \in Calls : (HoldsPlace(d)' <=> HoldsPlace(d)) /\ (Undone(d)' <=> Undone(d))
      BY <2>1 DEF ThreadsQuiet, HoldsSlot, HoldsPlace, Undone
    <2>4. TypeOK'
      BY <1>LeavePlane, <2>1 DEF LeavePlane, IInv, TypeOK, adapter
    <2>5. Callers'
      BY <1>LeavePlane, <2>1 DEF LeavePlane, IInv, Callers, InCall, Undone
    <2>6. Closes'
      BY <1>LeavePlane, <2>1, <2>3
         DEF LeavePlane, IInv, Closes, adapter, LeaseCalled
    <2> QED
      BY <2>2, <2>4, <2>5, <2>6 DEF IInv
  <1>Arm. ASSUME NEW t \in Timers, Arm(t) PROVE IInv'
    <2>1. UNCHANGED <<call, free, pending>>
      BY <1>Arm DEF Arm, adapter
    <2>2. Accounts'
      BY <2>1, AccountsUntouched DEF IInv
    <2>3. /\ ThreadsQuiet' <=> ThreadsQuiet
          /\ \A d \in Calls : (HoldsPlace(d)' <=> HoldsPlace(d)) /\ (Undone(d)' <=> Undone(d))
      BY <2>1 DEF ThreadsQuiet, HoldsSlot, HoldsPlace, Undone
    <2>4. TypeOK'
      BY <1>Arm, <2>1 DEF Arm, IInv, TypeOK, adapter, plane
    <2>5. Callers'
      BY <1>Arm, <2>1 DEF Arm, IInv, Callers, plane, Undone
    <2>6. Closes'
      BY <1>Arm, <2>1, <2>3 DEF Arm, IInv, Closes, adapter, plane, LeaseCalled
    <2> QED
      BY <2>2, <2>4, <2>5, <2>6 DEF IInv
  <1>Disarm. ASSUME NEW t \in Timers, Disarm(t) PROVE IInv'
    <2>1. UNCHANGED <<call, free, pending>>
      BY <1>Disarm DEF Disarm, adapter
    <2>2. Accounts'
      BY <2>1, AccountsUntouched DEF IInv
    <2>3. /\ ThreadsQuiet' <=> ThreadsQuiet
          /\ \A d \in Calls : (HoldsPlace(d)' <=> HoldsPlace(d)) /\ (Undone(d)' <=> Undone(d))
      BY <2>1 DEF ThreadsQuiet, HoldsSlot, HoldsPlace, Undone
    <2>4. TypeOK'
      BY <1>Disarm, <2>1 DEF Disarm, IInv, TypeOK, adapter, plane
    <2>5. Callers'
      BY <1>Disarm, <2>1 DEF Disarm, IInv, Callers, plane, Undone
    <2>6. Closes'
      BY <1>Disarm, <2>1, <2>3
         DEF Disarm, IInv, Closes, adapter, plane, LeaseCalled
    <2> QED
      BY <2>2, <2>4, <2>5, <2>6 DEF IInv
  <1>Fire. ASSUME NEW t \in Timers, Fire(t) PROVE IInv'
    <2>1. UNCHANGED <<call, free, pending>>
      BY <1>Fire DEF Fire, adapter
    <2>2. Accounts'
      BY <2>1, AccountsUntouched DEF IInv
    <2>3. /\ ThreadsQuiet' <=> ThreadsQuiet
          /\ \A d \in Calls : (HoldsPlace(d)' <=> HoldsPlace(d)) /\ (Undone(d)' <=> Undone(d))
      BY <2>1 DEF ThreadsQuiet, HoldsSlot, HoldsPlace, Undone
    <2>4. TypeOK'
      BY <1>Fire, <2>1 DEF Fire, IInv, TypeOK, adapter, plane
    <2>5. Callers'
      BY <1>Fire, <2>1 DEF Fire, IInv, Callers, plane, Undone
    <2>6. Closes'
      BY <1>Fire, <2>1, <2>3 DEF Fire, IInv, Closes, adapter, plane, LeaseCalled
    <2> QED
      BY <2>2, <2>4, <2>5, <2>6 DEF IInv
  <1>TimerRefused. ASSUME NEW t \in Timers, TimerRefused(t) PROVE IInv'
    <2>1. UNCHANGED <<call, free, pending>>
      BY <1>TimerRefused DEF TimerRefused, adapter
    <2>2. Accounts'
      BY <2>1, AccountsUntouched DEF IInv
    <2>3. /\ ThreadsQuiet' <=> ThreadsQuiet
          /\ \A d \in Calls : (HoldsPlace(d)' <=> HoldsPlace(d)) /\ (Undone(d)' <=> Undone(d))
      BY <2>1 DEF ThreadsQuiet, HoldsSlot, HoldsPlace, Undone
    <2>4. TypeOK'
      BY <1>TimerRefused, <2>1
         DEF TimerRefused, IInv, TypeOK, adapter, TimerFails
    <2>5. Callers'
      BY <1>TimerRefused, <2>1
         DEF TimerRefused, IInv, Callers, TimerFails, Undone
    <2>6. Closes'
      BY <1>TimerRefused, <2>1, <2>3
         DEF TimerRefused, IInv, Closes, adapter, TimerFails, LeaseCalled
    <2> QED
      BY <2>2, <2>4, <2>5, <2>6 DEF IInv
  <1>TimerEnds. ASSUME NEW t \in Timers, TimerEnds(t) PROVE IInv'
    <2>1. UNCHANGED <<call, free, pending>>
      BY <1>TimerEnds DEF TimerEnds, adapter
    <2>2. Accounts'
      BY <2>1, AccountsUntouched DEF IInv
    <2>3. /\ ThreadsQuiet' <=> ThreadsQuiet
          /\ \A d \in Calls : (HoldsPlace(d)' <=> HoldsPlace(d)) /\ (Undone(d)' <=> Undone(d))
      BY <2>1 DEF ThreadsQuiet, HoldsSlot, HoldsPlace, Undone
    <2>9. /\ timer' = [timer EXCEPT ![t] = "over"] /\ poisoned' \in BOOLEAN
          /\ UNCHANGED <<adapter, admitted, closing, closed, stage, lease, closeCall>>
      BY <1>TimerEnds DEF TimerEnds, TimerFails, plane, IInv, TypeOK
    <2>4. TypeOK'
      BY <1>TimerEnds, <2>1, <2>9 DEF IInv, TypeOK, adapter
    <2>5. Callers'
      BY <1>TimerEnds, <2>1
         DEF TimerEnds, IInv, Callers, plane, TimerFails, Undone
    <2>6. Closes'
      BY <1>TimerEnds, <2>1, <2>3
         DEF TimerEnds, IInv, TypeOK, Closes, adapter, plane, TimerFails,
             LeaseCalled
    <2> QED
      BY <2>2, <2>4, <2>5, <2>6 DEF IInv
  <1>BeginClose. CASE BeginClose
    <2>1. UNCHANGED <<call, free, pending>>
      BY <1>BeginClose DEF BeginClose, adapter
    <2>2. Accounts'
      BY <2>1, AccountsUntouched DEF IInv
    <2>3. /\ ThreadsQuiet' <=> ThreadsQuiet
          /\ \A d \in Calls : (HoldsPlace(d)' <=> HoldsPlace(d)) /\ (Undone(d)' <=> Undone(d))
      BY <2>1 DEF ThreadsQuiet, HoldsSlot, HoldsPlace, Undone
    <2>4. TypeOK'
      BY <1>BeginClose, <2>1 DEF BeginClose, IInv, TypeOK, Stages, adapter
    <2>5. Callers'
      BY <1>BeginClose, <2>1 DEF BeginClose, IInv, Callers, Undone
    <2>6. Closes'
      BY <1>BeginClose, <2>1, <2>3
         DEF BeginClose, IInv, Closes, AfterDrain, adapter, LeaseCalled
    <2> QED
      BY <2>2, <2>4, <2>5, <2>6 DEF IInv
  <1>CallsAwaited. CASE CallsAwaited
    <2>1. UNCHANGED <<call, free, pending>>
      BY <1>CallsAwaited DEF CallsAwaited
    <2>2. Accounts'
      BY <2>1, AccountsUntouched DEF IInv
    <2>3. /\ ThreadsQuiet' <=> ThreadsQuiet
          /\ \A d \in Calls : (HoldsPlace(d)' <=> HoldsPlace(d)) /\ (Undone(d)' <=> Undone(d))
      BY <2>1 DEF ThreadsQuiet, HoldsSlot, HoldsPlace, Undone
    <2>4. TypeOK'
      BY <1>CallsAwaited, <2>1
         DEF CallsAwaited, IInv, TypeOK, Stages, StartDrain
    <2>5. Callers'
      BY <1>CallsAwaited, <2>1 DEF CallsAwaited, IInv, Callers, Undone
    <2>6. Closes'
      BY <1>CallsAwaited, <2>1, <2>3
         DEF CallsAwaited, IInv, Closes, AfterDrain, LeaseCalled
    <2> QED
      BY <2>2, <2>4, <2>5, <2>6 DEF IInv
  <1>FirstDrain. CASE FirstDrain
    <2>1. UNCHANGED <<call, free, pending>>
      BY <1>FirstDrain DEF FirstDrain, adapter
    <2>2. Accounts'
      BY <2>1, AccountsUntouched DEF IInv
    <2>3. /\ ThreadsQuiet' <=> ThreadsQuiet
          /\ \A d \in Calls : (HoldsPlace(d)' <=> HoldsPlace(d)) /\ (Undone(d)' <=> Undone(d))
      BY <2>1 DEF ThreadsQuiet, HoldsSlot, HoldsPlace, Undone
    <2>4. TypeOK'
      BY <1>FirstDrain, <2>1 DEF FirstDrain, IInv, TypeOK, Stages, adapter
    <2>5. Callers'
      BY <1>FirstDrain, <2>1 DEF FirstDrain, IInv, Callers, Undone
    <2>8. \A c \in Calls : ~HoldsPlace(c)
      BY <1>FirstDrain, NothingPending DEF FirstDrain, Drained, IInv, Accounts
    <2>6. Closes'
      BY <1>FirstDrain, <2>1, <2>3, <2>8
         DEF FirstDrain, IInv, Closes, AfterDrain, ThreadsQuiet, HoldsPlace
    <2> QED
      BY <2>2, <2>4, <2>5, <2>6 DEF IInv
  <1>LeaseClosed. CASE LeaseClosed
    <2>1. UNCHANGED <<call, free, pending>>
      BY <1>LeaseClosed DEF LeaseClosed
    <2>2. Accounts'
      BY <2>1, AccountsUntouched DEF IInv
    <2>3. /\ ThreadsQuiet' <=> ThreadsQuiet
          /\ \A d \in Calls : (HoldsPlace(d)' <=> HoldsPlace(d)) /\ (Undone(d)' <=> Undone(d))
      BY <2>1 DEF ThreadsQuiet, HoldsSlot, HoldsPlace, Undone
    <2>4. TypeOK'
      BY <1>LeaseClosed, <2>1 DEF LeaseClosed, IInv, TypeOK, Stages, StartDrain
    <2>5. Callers'
      BY <1>LeaseClosed, <2>1 DEF LeaseClosed, IInv, Callers, Undone
    <2>6. Closes'
      BY <1>LeaseClosed, <2>1, <2>3 DEF LeaseClosed, IInv, Closes, AfterDrain
    <2> QED
      BY <2>2, <2>4, <2>5, <2>6 DEF IInv
  <1>SecondDrain. CASE SecondDrain
    <2>1. UNCHANGED <<call, free, pending>>
      BY <1>SecondDrain DEF SecondDrain, adapter
    <2>2. Accounts'
      BY <2>1, AccountsUntouched DEF IInv
    <2>3. /\ ThreadsQuiet' <=> ThreadsQuiet
          /\ \A d \in Calls : (HoldsPlace(d)' <=> HoldsPlace(d)) /\ (Undone(d)' <=> Undone(d))
      BY <2>1 DEF ThreadsQuiet, HoldsSlot, HoldsPlace, Undone
    <2>4. TypeOK'
      BY <1>SecondDrain, <2>1 DEF SecondDrain, IInv, TypeOK, Stages, adapter
    <2>5. Callers'
      BY <1>SecondDrain, <2>1 DEF SecondDrain, IInv, Callers, Undone
    <2>6. Closes'
      BY <1>SecondDrain, <2>1, <2>3
         DEF SecondDrain, IInv, Closes, AfterDrain, adapter
    <2> QED
      BY <2>2, <2>4, <2>5, <2>6 DEF IInv
  <1>CloseAdapter. CASE CloseAdapter
    <2>1. UNCHANGED <<call, free, pending>>
      BY <1>CloseAdapter DEF CloseAdapter
    <2>2. Accounts'
      BY <2>1, AccountsUntouched DEF IInv
    <2>3. /\ ThreadsQuiet' <=> ThreadsQuiet
          /\ \A d \in Calls : (HoldsPlace(d)' <=> HoldsPlace(d)) /\ (Undone(d)' <=> Undone(d))
      BY <2>1 DEF ThreadsQuiet, HoldsSlot, HoldsPlace, Undone
    <2>4. TypeOK'
      BY <1>CloseAdapter, <2>1 DEF CloseAdapter, IInv, TypeOK, Stages
    <2>5. Callers'
      BY <1>CloseAdapter, <2>1 DEF CloseAdapter, IInv, Callers, Undone
    <2>8. \A c \in Calls : ~HoldsPlace(c)
      BY <1>CloseAdapter, NothingPending DEF CloseAdapter, IInv, Accounts
    <2>6. Closes'
      BY <1>CloseAdapter, <2>1, <2>3, <2>8
         DEF CloseAdapter, IInv, Closes, AfterDrain
    <2> QED
      BY <2>2, <2>4, <2>5, <2>6 DEF IInv
  <1>AbortClose. CASE AbortClose
    <2>1. UNCHANGED <<call, free, pending>>
      BY <1>AbortClose DEF AbortClose, adapter
    <2>2. Accounts'
      BY <2>1, AccountsUntouched DEF IInv
    <2>3. /\ ThreadsQuiet' <=> ThreadsQuiet
          /\ \A d \in Calls : (HoldsPlace(d)' <=> HoldsPlace(d)) /\ (Undone(d)' <=> Undone(d))
      BY <2>1 DEF ThreadsQuiet, HoldsSlot, HoldsPlace, Undone
    <2>4. TypeOK'
      BY <1>AbortClose, <2>1 DEF AbortClose, IInv, TypeOK, Stages, adapter
    <2>5. Callers'
      BY <1>AbortClose, <2>1 DEF AbortClose, IInv, Callers, Undone
    <2>6. Closes'
      BY <1>AbortClose, <2>1, <2>3
         DEF AbortClose, IInv, Closes, AfterDrain, adapter, LeaseCalled
    <2> QED
      BY <2>2, <2>4, <2>5, <2>6 DEF IInv
  <1>stutter. CASE UNCHANGED vars
    <2>1. Accounts'
      BY <1>stutter, AccountsUntouched DEF vars, IInv
    <2> QED
      BY <1>stutter, <2>1
         DEF vars, IInv, TypeOK, Callers, Closes, Undone, ThreadsQuiet,
             LeaseCalled, HoldsSlot, HoldsPlace
  <1> QED
    BY <1>Hand, <1>Start, <1>Deliver, <1>Expire, <1>CountExit,
       <1>CountAbandoned, <1>Exit, <1>Abandon, <1>ThreadCalls, <1>TimerCalls,
       <1>CallLeaseClose, <1>StopPortal, <1>CallbackEnters, <1>EnterPlane,
       <1>LeavePlane, <1>Arm, <1>Disarm, <1>Fire, <1>TimerRefused, <1>TimerEnds,
       <1>BeginClose, <1>CallsAwaited, <1>FirstDrain, <1>LeaseClosed,
       <1>SecondDrain, <1>CloseAdapter, <1>AbortClose, <1>stutter
       DEF Next, CallStep, CloseStep

--------------------------------------------------------------------------------
(* The theorems                                                               *)

\* The types of both sides of the calls, of the counts and of close.
THEOREM TypeCorrect == Spec => []TypeOK
  <1>1. IInv => TypeOK
    BY DEF IInv
  <1> QED
    BY <1>1, InitIInv, StepKeepsIInv, PTL DEF Spec

\* Slots and the pending count are given back exactly once on every path, and
\* no lane runs more callbacks, abandoned ones included, than it has slots.
THEOREM SlotsAccountedAlways == Spec => []SlotsAccounted
  <1>1. IInv => SlotsAccounted
    <2> SUFFICES ASSUME IInv PROVE SlotsAccounted
      OBVIOUS
    <2>1. ASSUME NEW l \in AllLanes
          PROVE  Cardinality({c \in Calls : call[c].lane = l /\ call[c].task = "running"}) <= Cap[l]
      <3> DEFINE Run == {c \in Calls : call[c].lane = l /\ call[c].task = "running"}
      <3>1. Run \in SUBSET SlotHolders(l)
        BY DEF IInv, Accounts, Shape, SlotHolders, HoldsSlot, Unused
      <3>2. IsFiniteSet(SlotHolders(l))
        BY CallsAssumption, FS_Subset DEF SlotHolders
      <3>3. /\ Cardinality(Run) <= Cardinality(SlotHolders(l))
            /\ Cardinality(Run) \in Nat /\ Cardinality(SlotHolders(l)) \in Nat
        BY <3>1, <3>2, FS_Subset, FS_CardinalityType
      <3>4. /\ free[l] \in Nat /\ Cap[l] \in Nat
            /\ free[l] + Cardinality(SlotHolders(l)) = Cap[l]
        BY LanesAssumption DEF IInv, TypeOK, Accounts, Slots
      <3> QED
        BY <3>3, <3>4
    <2> QED
      BY <2>1
         DEF SlotsAccounted, IInv, Accounts, Slots, Places, SlotHolders,
             PlaceHolders
  <1> QED
    BY <1>1, InitIInv, StepKeepsIInv, PTL DEF Spec

\* A runtime that reports itself closed is quiet, stopping the portal takes no
\* result away, and the owner lease outlives every callback of a thread, also
\* when the close that gave it up failed afterwards.
THEOREM CloseIsQuietAlways == Spec => []CloseIsQuiet
  <1>1. IInv => CloseIsQuiet
    <2> SUFFICES ASSUME IInv PROVE CloseIsQuiet
      OBVIOUS
    <2>1. ASSUME shut, NEW c \in Calls
          PROVE  /\ call[c].task # "running"
                 /\ call[c].task \in {"queued", "handed"} => call[c].cancelled
      BY <2>1 DEF IInv, Accounts, Shape, Closes, HoldsPlace, HoldsSlot
    <2>2. ASSUME lease # "held"
          PROVE  /\ admitted = {}
                 /\ \A c \in Calls : call[c].by \in Threads => call[c].task # "running"
      BY <2>2
         DEF IInv, Accounts, Shape, Closes, LeaseCalled, ThreadsQuiet, HoldsSlot
    <2> QED
      BY <2>1, <2>2
         DEF CloseIsQuiet, ShutIsQuiet, LeaseOutlivesCallbacks, IInv, Closes
  <1> QED
    BY <1>1, InitIInv, StepKeepsIInv, PTL DEF Spec

--------------------------------------------------------------------------------
(****************************************************************************)
(* The owner lease that close gives up when the adapter has drained: for    *)
(* any number of processes, transactions, admissions and faults, and for    *)
(* both kinds of ledger.                                                    *)
(*                                                                          *)
(* One owner: whoever passes the ownership check has a descriptor of the    *)
(* lock, and all descriptors are of one process.  Writes in order: an open  *)
(* transaction carries the generation of the ledger.  With PostgreSQL that  *)
(* follows from the comparison and the row lock; with the local store from  *)
(* the lock that lasts as long as its process has anything under way.       *)
(****************************************************************************)

\* The lock is one process's, with its forked copy.
OneHolder == \A d, e \in held : d[1] = e[1]

\* In the local store a process with an admission has the lock.
LocalHolds ==
    kind = "local" => \A p \in Procs : phase[p] # "none" => Own(p) \in held

\* An owner was admitted.
Admitted == \A p \in Procs : phase[p] = "owner" => mygen[p] \in 1 .. MaxGen

\* ... in the local store as the last one.
LocalLatest ==
    kind = "local" => \A p \in Procs : phase[p] = "owner" => mygen[p] = generation

\* A transaction in the local store is the one of a present owner; an open one
\* of the other store passed the comparison and keeps the row locked.
TxCurrent ==
    \A t \in Txs : tx[t] # Free =>
        /\ kind = "local" => phase[tx[t].by] = "owner" /\ tx[t].gen = mygen[tx[t].by]
        /\ tx[t].at = "open" => tx[t].gen = generation

LeaseIInv == LeaseTypeOK /\ OneHolder /\ LocalHolds /\ Admitted /\ LocalLatest /\ TxCurrent

\* A store before the first admission.
LEMMA LeaseInitIInv == LeaseInit => LeaseIInv
  BY NamesAssumption, BoundsAssumption
     DEF LeaseInit, LeaseIInv, LeaseTypeOK, OneHolder, LocalHolds, Admitted,
         LocalLatest, TxCurrent, Free

\* Every step of every process, transaction and fault keeps the invariant.
LEMMA LeaseStepKeepsIInv == LeaseIInv /\ [LeaseNext]_leaseVars => LeaseIInv'
  <1> SUFFICES ASSUME LeaseIInv, [LeaseNext]_leaseVars PROVE LeaseIInv'
    OBVIOUS
  <1> USE NamesAssumption, BoundsAssumption
  <1>Acquire. ASSUME NEW p \in Procs, Acquire(p) PROVE LeaseIInv'
    <2>1. LeaseTypeOK'
      BY <1>Acquire DEF Acquire, LeaseIInv, LeaseTypeOK, Descriptors, Own
    <2>2. OneHolder'
      BY <1>Acquire DEF Acquire, OneHolder, LockFree
    <2>3. LocalHolds'
      BY <1>Acquire DEF Acquire, LeaseIInv, LocalHolds
    <2>4. Admitted'
      BY <1>Acquire DEF Acquire, LeaseIInv, Admitted
    <2>5. LocalLatest'
      BY <1>Acquire DEF Acquire, LeaseIInv, LocalLatest
    <2>6. TxCurrent'
      BY <1>Acquire DEF Acquire, LeaseIInv, TxCurrent
    <2> QED
      BY <2>1, <2>2, <2>3, <2>4, <2>5, <2>6 DEF LeaseIInv
  <1>CheckAdmission. ASSUME NEW p \in Procs, CheckAdmission(p) PROVE LeaseIInv'
    <2>1. LeaseTypeOK'
      BY <1>CheckAdmission DEF CheckAdmission, LeaseIInv, LeaseTypeOK
    <2>2. OneHolder'
      BY <1>CheckAdmission DEF CheckAdmission, LeaseIInv, OneHolder
    <2>3. LocalHolds'
      BY <1>CheckAdmission DEF CheckAdmission, LeaseIInv, LocalHolds
    <2>4. Admitted'
      BY <1>CheckAdmission DEF CheckAdmission, LeaseIInv, Admitted
    <2>5. LocalLatest'
      BY <1>CheckAdmission DEF CheckAdmission, LeaseIInv, LocalLatest
    <2>6. TxCurrent'
      BY <1>CheckAdmission DEF CheckAdmission, LeaseIInv, TxCurrent
    <2> QED
      BY <2>1, <2>2, <2>3, <2>4, <2>5, <2>6 DEF LeaseIInv
  <1>BeginAdmission. ASSUME NEW p \in Procs, BeginAdmission(p) PROVE LeaseIInv'
    <2>1. LeaseTypeOK'
      BY <1>BeginAdmission DEF BeginAdmission, LeaseIInv, LeaseTypeOK
    <2>2. OneHolder'
      BY <1>BeginAdmission DEF BeginAdmission, LeaseIInv, OneHolder
    <2>3. LocalHolds'
      BY <1>BeginAdmission DEF BeginAdmission, LeaseIInv, LocalHolds
    <2>4. Admitted'
      BY <1>BeginAdmission DEF BeginAdmission, LeaseIInv, Admitted
    <2>5. LocalLatest'
      BY <1>BeginAdmission DEF BeginAdmission, LeaseIInv, LocalLatest
    <2>6. TxCurrent'
      BY <1>BeginAdmission DEF BeginAdmission, LeaseIInv, TxCurrent
    <2> QED
      BY <2>1, <2>2, <2>3, <2>4, <2>5, <2>6 DEF LeaseIInv
  <1>Admit. ASSUME NEW p \in Procs, Admit(p) PROVE LeaseIInv'
    <2>1. LeaseTypeOK'
      BY <1>Admit DEF Admit, LeaseIInv, LeaseTypeOK
    <2>2. OneHolder'
      BY <1>Admit DEF Admit, LeaseIInv, OneHolder
    <2>3. LocalHolds'
      BY <1>Admit DEF Admit, LeaseIInv, LocalHolds
    <2>4. Admitted'
      BY <1>Admit DEF Admit, LeaseIInv, LeaseTypeOK, Admitted
    <2>5. LocalLatest'
      <3> SUFFICES ASSUME kind' = "local", NEW q \in Procs, phase'[q] = "owner"
                   PROVE  mygen'[q] = generation'
        BY DEF LocalLatest
      <3>1. Own(p) \in held /\ Own(q) \in held
        BY <1>Admit DEF Admit, LeaseIInv, LocalHolds
      <3>2. p = q
        BY <3>1 DEF LeaseIInv, OneHolder, Own
      <3> QED
        BY <1>Admit, <3>2 DEF Admit, LeaseIInv, LeaseTypeOK
    <2>6. TxCurrent'
      BY <1>Admit DEF Admit, LeaseIInv, LeaseTypeOK, TxCurrent
    <2> QED
      BY <2>1, <2>2, <2>3, <2>4, <2>5, <2>6 DEF LeaseIInv
  <1>AdmissionFails. ASSUME NEW p \in Procs, AdmissionFails(p) PROVE LeaseIInv'
    <2>1. LeaseTypeOK'
      BY <1>AdmissionFails DEF AdmissionFails, LeaseIInv, LeaseTypeOK, Unlocked
    <2>2. OneHolder'
      BY <1>AdmissionFails DEF AdmissionFails, LeaseIInv, OneHolder, Unlocked
    <2>3. LocalHolds'
      BY <1>AdmissionFails
         DEF AdmissionFails, LeaseIInv, LeaseTypeOK, LocalHolds, Own, Copy, Unlocked
    <2>4. Admitted'
      BY <1>AdmissionFails DEF AdmissionFails, LeaseIInv, LeaseTypeOK, Admitted
    <2>5. LocalLatest'
      BY <1>AdmissionFails DEF AdmissionFails, LeaseIInv, LocalLatest
    <2>6. TxCurrent'
      BY <1>AdmissionFails DEF AdmissionFails, LeaseIInv, LeaseTypeOK, TxCurrent
    <2> QED
      BY <2>1, <2>2, <2>3, <2>4, <2>5, <2>6 DEF LeaseIInv
  <1>Close. ASSUME NEW p \in Procs, Close(p) PROVE LeaseIInv'
    <2>1. LeaseTypeOK'
      BY <1>Close DEF Close, LeaseIInv, LeaseTypeOK, Unlocked
    <2>2. OneHolder'
      BY <1>Close DEF Close, LeaseIInv, OneHolder, Unlocked
    <2>3. LocalHolds'
      BY <1>Close DEF Close, LeaseIInv, LeaseTypeOK, LocalHolds, Own, Copy, Unlocked
    <2>4. Admitted'
      BY <1>Close DEF Close, LeaseIInv, Admitted
    <2>5. LocalLatest'
      BY <1>Close DEF Close, LeaseIInv, LocalLatest
    <2>6. TxCurrent'
      BY <1>Close DEF Close, LeaseIInv, TxCurrent
    <2> QED
      BY <2>1, <2>2, <2>3, <2>4, <2>5, <2>6 DEF LeaseIInv
  <1>SessionLost. ASSUME NEW p \in Procs, SessionLost(p) PROVE LeaseIInv'
    <2>1. LeaseTypeOK'
      BY <1>SessionLost DEF SessionLost, LeaseIInv, LeaseTypeOK, Fault, objects
    <2>2. OneHolder'
      BY <1>SessionLost DEF SessionLost, LeaseIInv, OneHolder
    <2>3. LocalHolds'
      BY <1>SessionLost DEF SessionLost, LocalHolds
    <2>4. Admitted'
      BY <1>SessionLost DEF SessionLost, LeaseIInv, Admitted, objects
    <2>5. LocalLatest'
      BY <1>SessionLost DEF SessionLost, LocalLatest
    <2>6. TxCurrent'
      BY <1>SessionLost DEF SessionLost, LeaseIInv, TxCurrent
    <2> QED
      BY <2>1, <2>2, <2>3, <2>4, <2>5, <2>6 DEF LeaseIInv
  <1>Fork. ASSUME NEW p \in Procs, Fork(p) PROVE LeaseIInv'
    <2>1. LeaseTypeOK'
      BY <1>Fork DEF Fork, LeaseIInv, LeaseTypeOK, Descriptors, Copy, Fault, objects
    <2>2. OneHolder'
      BY <1>Fork DEF Fork, LeaseIInv, OneHolder, Own, Copy
    <2>3. LocalHolds'
      BY <1>Fork DEF Fork, LeaseIInv, LocalHolds, objects
    <2>4. Admitted'
      BY <1>Fork DEF Fork, LeaseIInv, Admitted, objects
    <2>5. LocalLatest'
      BY <1>Fork DEF Fork, LeaseIInv, LocalLatest, objects
    <2>6. TxCurrent'
      BY <1>Fork DEF Fork, LeaseIInv, TxCurrent, objects
    <2> QED
      BY <2>1, <2>2, <2>3, <2>4, <2>5, <2>6 DEF LeaseIInv
  <1>CopyCloses. ASSUME NEW p \in Procs, CopyCloses(p) PROVE LeaseIInv'
    <2>1. LeaseTypeOK'
      BY <1>CopyCloses DEF CopyCloses, LeaseIInv, LeaseTypeOK, objects
    <2>2. OneHolder'
      BY <1>CopyCloses DEF CopyCloses, LeaseIInv, OneHolder
    <2>3. LocalHolds'
      BY <1>CopyCloses DEF CopyCloses, LeaseIInv, LocalHolds, Own, Copy, objects
    <2>4. Admitted'
      BY <1>CopyCloses DEF CopyCloses, LeaseIInv, Admitted, objects
    <2>5. LocalLatest'
      BY <1>CopyCloses DEF CopyCloses, LeaseIInv, LocalLatest, objects
    <2>6. TxCurrent'
      BY <1>CopyCloses DEF CopyCloses, LeaseIInv, TxCurrent, objects
    <2> QED
      BY <2>1, <2>2, <2>3, <2>4, <2>5, <2>6 DEF LeaseIInv
  <1>Exit. ASSUME NEW p \in Procs, ProcessExit(p) PROVE LeaseIInv'
    <2>1. LeaseTypeOK'
      BY <1>Exit DEF ProcessExit, LeaseIInv, LeaseTypeOK, Free, Fault, Left
    <2>2. OneHolder'
      BY <1>Exit DEF ProcessExit, LeaseIInv, OneHolder
    <2>3. LocalHolds'
      BY <1>Exit DEF ProcessExit, LeaseIInv, LeaseTypeOK, LocalHolds, Own
    <2>4. Admitted'
      BY <1>Exit DEF ProcessExit, LeaseIInv, LeaseTypeOK, Admitted
    <2>5. LocalLatest'
      BY <1>Exit DEF ProcessExit, LeaseIInv, LeaseTypeOK, LocalLatest
    <2>6. TxCurrent'
      BY <1>Exit DEF ProcessExit, LeaseIInv, LeaseTypeOK, TxCurrent, Left
    <2> QED
      BY <2>1, <2>2, <2>3, <2>4, <2>5, <2>6 DEF LeaseIInv
  <1>Check. ASSUME NEW p \in Procs, NEW t \in Txs, Check(p, t) PROVE LeaseIInv'
    <2>1. LeaseTypeOK'
      BY <1>Check DEF Check, LeaseIInv, LeaseTypeOK, Admitted, Free, objects
    <2>2. OneHolder'
      BY <1>Check DEF Check, LeaseIInv, OneHolder
    <2>3. LocalHolds'
      BY <1>Check DEF Check, LeaseIInv, LocalHolds, objects
    <2>4. Admitted'
      BY <1>Check DEF Check, LeaseIInv, Admitted, objects
    <2>5. LocalLatest'
      BY <1>Check DEF Check, LeaseIInv, LocalLatest, objects
    <2>6. TxCurrent'
      BY <1>Check DEF Check, LeaseIInv, TxCurrent, objects
    <2> QED
      BY <2>1, <2>2, <2>3, <2>4, <2>5, <2>6 DEF LeaseIInv
  <1>Begin. ASSUME NEW t \in Txs, Begin(t) PROVE LeaseIInv'
    <2>1. LeaseTypeOK'
      BY <1>Begin DEF Begin, LeaseIInv, LeaseTypeOK, Free, objects
    <2>2. OneHolder'
      BY <1>Begin DEF Begin, LeaseIInv, OneHolder
    <2>3. LocalHolds'
      BY <1>Begin DEF Begin, LeaseIInv, LocalHolds, objects
    <2>4. Admitted'
      BY <1>Begin DEF Begin, LeaseIInv, Admitted, objects
    <2>5. LocalLatest'
      BY <1>Begin DEF Begin, LeaseIInv, LocalLatest, objects
    <2>6. TxCurrent'
      BY <1>Begin
         DEF Begin, LeaseIInv, LeaseTypeOK, LocalLatest, TxCurrent, Free, objects,
             Current
    <2> QED
      BY <2>1, <2>2, <2>3, <2>4, <2>5, <2>6 DEF LeaseIInv
  <1>Commit. ASSUME NEW t \in Txs, Commit(t) PROVE LeaseIInv'
    <2>1. LeaseTypeOK'
      BY <1>Commit DEF Commit, LeaseIInv, LeaseTypeOK, TxCurrent, Free, objects
    <2>2. OneHolder'
      BY <1>Commit DEF Commit, LeaseIInv, OneHolder
    <2>3. LocalHolds'
      BY <1>Commit DEF Commit, LeaseIInv, LocalHolds, objects
    <2>4. Admitted'
      BY <1>Commit DEF Commit, LeaseIInv, Admitted, objects
    <2>5. LocalLatest'
      BY <1>Commit DEF Commit, LeaseIInv, LocalLatest, objects
    <2>6. TxCurrent'
      BY <1>Commit DEF Commit, LeaseIInv, TxCurrent, objects
    <2> QED
      BY <2>1, <2>2, <2>3, <2>4, <2>5, <2>6 DEF LeaseIInv
  <1>Ends. ASSUME NEW t \in Txs, Ends(t) PROVE LeaseIInv'
    <2>1. LeaseTypeOK'
      BY <1>Ends DEF Ends, LeaseIInv, LeaseTypeOK, Free, objects
    <2>2. OneHolder'
      BY <1>Ends DEF Ends, LeaseIInv, OneHolder
    <2>3. LocalHolds'
      BY <1>Ends DEF Ends, LeaseIInv, LocalHolds, objects
    <2>4. Admitted'
      BY <1>Ends DEF Ends, LeaseIInv, Admitted, objects
    <2>5. LocalLatest'
      BY <1>Ends DEF Ends, LeaseIInv, LocalLatest, objects
    <2>6. TxCurrent'
      BY <1>Ends DEF Ends, LeaseIInv, TxCurrent, objects
    <2> QED
      BY <2>1, <2>2, <2>3, <2>4, <2>5, <2>6 DEF LeaseIInv
  <1>ReplaceFile. CASE ReplaceFile
    BY <1>ReplaceFile
       DEF ReplaceFile, LeaseIInv, LeaseTypeOK, OneHolder, LocalHolds, Admitted,
           LocalLatest, TxCurrent, Fault, objects
  <1>stutter. CASE UNCHANGED leaseVars
    BY <1>stutter
       DEF leaseVars, objects, LeaseIInv, LeaseTypeOK, OneHolder, LocalHolds, Admitted,
           LocalLatest, TxCurrent
  <1> QED
    BY <1>Acquire, <1>CheckAdmission, <1>BeginAdmission, <1>Admit, <1>AdmissionFails,
       <1>Close, <1>SessionLost, <1>Fork, <1>CopyCloses, <1>Exit, <1>Check, <1>Begin,
       <1>Commit, <1>Ends, <1>ReplaceFile, <1>stutter
       DEF LeaseNext

\* The types of the lease, of the ledger and of its transactions.
THEOREM LeaseTypeCorrect == LeaseSpec => []LeaseTypeOK
  <1>1. LeaseIInv => LeaseTypeOK
    BY DEF LeaseIInv
  <1> QED
    BY <1>1, LeaseInitIInv, LeaseStepKeepsIInv, PTL DEF LeaseSpec

\* assert_owner never passes in two processes at a time, although the check of
\* the local lease looks at the identity of a file and not at the lock.
THEOREM OneOwnerAlways == LeaseSpec => []OneOwner
  <1>1. LeaseIInv => OneOwner
    <2> SUFFICES ASSUME LeaseIInv, NEW p \in Procs, NEW q \in Procs, Owns(p), Owns(q)
                 PROVE  p = q
      BY DEF OneOwner
    <2>1. Own(p) \in held /\ Own(q) \in held
      BY DEF LeaseIInv, LeaseTypeOK, LocalHolds, Owns
    <2> QED
      BY <2>1 DEF LeaseIInv, OneHolder, Own
  <1> QED
    BY <1>1, LeaseInitIInv, LeaseStepKeepsIInv, PTL DEF LeaseSpec

\* Whatever commits has the generation of the ledger or advances it.
LEMMA StepWritesInOrder == LeaseIInv /\ [LeaseNext]_leaseVars => written' >= written
  <1> SUFFICES ASSUME LeaseIInv, [LeaseNext]_leaseVars PROVE written' >= written
    OBVIOUS
  <1>1. written \in Nat /\ generation \in Nat /\ written <= generation
    BY BoundsAssumption DEF LeaseIInv, LeaseTypeOK
  <1>2. ASSUME NEW t \in Txs, Commit(t) PROVE written' >= written
    BY <1>1, <1>2 DEF Commit, LeaseIInv, TxCurrent, Free
  <1>3. ASSUME NEW p \in Procs, Admit(p) \/ AdmissionFails(p) \/ ProcessExit(p)
        PROVE  written' >= written
    BY <1>1, <1>3 DEF Admit, AdmissionFails, ProcessExit
  <1>4. CASE UNCHANGED written
    BY <1>1, <1>4
  <1> QED
    BY <1>2, <1>3, <1>4
       DEF LeaseNext, leaseVars, Acquire, CheckAdmission, BeginAdmission, Close,
           SessionLost, Fork, CopyCloses, Check, Begin, Ends, ReplaceFile

\* Once an admission has committed nothing of a former owner does, however long
\* the check, the transaction and the commit of a write lie apart.
THEOREM WritesInOrderAlways == LeaseSpec => WritesInOrder
  BY LeaseInitIInv, LeaseStepKeepsIInv, StepWritesInOrder, PTL
     DEF LeaseSpec, WritesInOrder

================================================================================
