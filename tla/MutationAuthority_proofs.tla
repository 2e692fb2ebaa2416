----------------------- MODULE MutationAuthority_proofs -----------------------
(****************************************************************************)
(* Safety of RuntimeMutationAuthority for any number of threads, requests   *)
(* and child handlers and any number of cuts and external calls.            *)
(*                                                                          *)
(* IInv relates the three fields of the authority (_owner_thread,           *)
(* _reservation, _effect_owner) to the positions of the callers.  Every     *)
(* release ends in _grant_next_waiter_locked, so the proof first shows      *)
(* once that granting preserves the relation (GrantKeepsOwnership,          *)
(* GrantServesQueue), and then that each action hands granting a state in   *)
(* which the relation holds.                                                *)
(****************************************************************************)
EXTENDS MutationAuthority, TLAPS

PCs == {"idle", "wait", "queued", "expired", "granted", "cut", "checked",
        "ext", "back", "lost"}

\* Dropping the head of the queue of _async_waiters leaves a queue of requests.
LEMMA TailIsQueue ==
    ASSUME waiters \in Seq(Requests), NEW i \in DOMAIN waiters
    PROVE  SubSeq(waiters, i + 1, Len(waiters)) \in Seq(Requests)
  OBVIOUS

\* deque.remove leaves a queue of requests.
LEMMA RemovalIsQueue ==
    ASSUME waiters \in Seq(Requests), NEW i \in DOMAIN waiters
    PROVE  SubSeq(waiters, 1, i - 1) \o SubSeq(waiters, i + 1, Len(waiters))
             \in Seq(Requests)
  OBVIOUS

\* _grant_next_waiter_locked only ever assigns values of the right type.
LEMMA GrantKeepsTypes ==
    ASSUME waiters \in Seq(Requests), asleep \in SUBSET Callers,
           NEW o \in Threads \cup Children \cup {None},
           NEW r \in Requests \cup {None},
           NEW e \in EffectCallers \cup {None},
           NEW p \in [Callers -> PCs],
           GrantNext(o, r, e, p)
    PROVE  /\ owner' \in Threads \cup Children \cup {None}
           /\ reservation' \in Requests \cup {None}
           /\ effect' \in EffectCallers \cup {None}
           /\ pc' \in [Callers -> PCs]
           /\ waiters' \in Seq(Requests)
           /\ asleep' \in SUBSET Callers
  <1>1. CASE /\ owner' = o /\ pc' = p /\ asleep' = {}
             /\ reservation' \in {r, None} /\ effect' \in {e, None}
             /\ waiters' = waiters \/ waiters' = <<>>
    <2>1. <<>> \in Seq(Requests)
      OBVIOUS
    <2>2. waiters' \in Seq(Requests)
      BY <1>1, <2>1
    <2> QED
      BY <1>1, <2>2
  <1>2. ASSUME NEW i \in DOMAIN waiters,
               owner' = o, reservation' = waiters[i], effect' = waiters[i],
               pc' = [p EXCEPT ![waiters[i]] = "granted"],
               waiters' = SubSeq(waiters, i + 1, Len(waiters)),
               UNCHANGED asleep
        PROVE  /\ owner' \in Threads \cup Children \cup {None}
               /\ reservation' \in Requests \cup {None}
               /\ effect' \in EffectCallers \cup {None}
               /\ pc' \in [Callers -> PCs]
               /\ waiters' \in Seq(Requests)
               /\ asleep' \in SUBSET Callers
    <2>1. waiters[i] \in Requests
      OBVIOUS
    <2>2. waiters' \in Seq(Requests)
      BY <1>2, TailIsQueue
    <2> QED
      BY <1>2, <2>1, <2>2 DEF EffectCallers, Callers, PCs
  <1> QED
    BY <1>1, <1>2 DEF GrantNext

\* If the authority's fields agree with the callers' positions before
\* _grant_next_waiter_locked, they do afterwards: the waiter it serves was
\* queued, so it held nothing, and it receives a permit and an effect that
\* nobody holds.
LEMMA GrantKeepsOwnership ==
    ASSUME waiters \in Seq(Requests),
           NEW o \in Threads \cup Children \cup {None},
           NEW r \in Requests \cup {None},
           NEW e \in EffectCallers \cup {None},
           NEW p \in [Callers -> PCs],
           Positions(p), Ownership(o, r, e, p),
           UNCHANGED sup,
           GrantNext(o, r, e, p)
    PROVE  /\ Ownership(owner, reservation, effect, pc)'
           /\ Positions(pc)'
  <1>1. CASE pc' = p /\ owner' = o /\ reservation' = r /\ effect' = e
    BY <1>1 DEF Ownership, Positions
  <1>2. ASSUME NEW i \in DOMAIN waiters,
               o = None, r = None, e = None, owner' = o,
               p[waiters[i]] = "queued",
               reservation' = waiters[i], effect' = waiters[i],
               pc' = [p EXCEPT ![waiters[i]] = "granted"]
        PROVE  /\ Ownership(owner, reservation, effect, pc)'
               /\ Positions(pc)'
    <2>1. waiters[i] \in Requests
      OBVIOUS
    <2> QED
      BY <1>2, <2>1, CallersAssumption
         DEF Ownership, Positions, Busy, EffectCallers, Callers, PCs
  <1> QED
    BY <1>1, <1>2 DEF GrantNext, OldestLive

\* After _grant_next_waiter_locked a queue that is not empty has someone who
\* will serve it again.
LEMMA GrantServesQueue ==
    ASSUME waiters \in Seq(Requests),
           NEW o \in Threads \cup Children \cup {None},
           NEW r \in Requests \cup {None},
           NEW e \in EffectCallers \cup {None},
           NEW p \in [Callers -> PCs],
           Ownership(o, r, e, p),
           GrantNext(o, r, e, p)
    PROVE  waiters' # <<>> => Served(effect, pc)'
  <1>1. CASE /\ o # None \/ r # None \/ e # None
             /\ pc' = p /\ effect' = e
    BY <1>1, CallersAssumption
       DEF Ownership, Served, Busy, EffectCallers, Callers
  <1>2. CASE effect' # None \/ waiters' = <<>>
    BY <1>2 DEF Served
  <1>3. ASSUME NEW i \in DOMAIN waiters PROVE waiters[i] # None
    BY CallersAssumption
  <1> QED
    BY <1>1, <1>2, <1>3 DEF GrantNext

\* What the permit, the reservation and the effect say of the callers is
\* established by Init and kept by every step.
LEMMA InitIInv == Init => IInv
  BY CallersAssumption, BoundsAssumption
     DEF Init, IInv, TypeOK, Positions, Ownership, Busy, Served, Callers,
         EffectCallers

\* Every step of every caller keeps IInv: one step per action; the actions
\* that end in _grant_next_waiter_locked rest on the three lemmas above.
LEMMA StepKeepsIInv == IInv /\ [Next]_vars => IInv'
  <1> SUFFICES ASSUME IInv, [Next]_vars PROVE IInv'
    OBVIOUS
  <1> USE CallersAssumption DEF Callers, EffectCallers, Goto
  <1>g. ASSUME NEW o \in Threads \cup Children \cup {None},
               NEW r \in Requests \cup {None},
               NEW e \in EffectCallers \cup {None},
               NEW p \in [Callers -> PCs],
               Positions(p), Ownership(o, r, e, p), GrantNext(o, r, e, p),
               depth' \in Nat, saved' \in [Callers -> Nat], 
               outcome' \in [Requests -> {"none", "served", "deadline",
                                          "value_error"}],
               UNCHANGED <<sup, scopeOpen, childOf, left, calls>>
        PROVE  IInv'
    <2>1. waiters \in Seq(Requests) /\ asleep \in SUBSET Callers
      BY DEF IInv, TypeOK
    <2>2. /\ Ownership(owner, reservation, effect, pc)'
          /\ Positions(pc)'
      BY <1>g, <2>1, GrantKeepsOwnership
    <2>3. waiters' # <<>> => Served(effect, pc)'
      BY <1>g, <2>1, GrantServesQueue
    <2>4. /\ owner' \in Threads \cup Children \cup {None}
          /\ reservation' \in Requests \cup {None}
          /\ effect' \in EffectCallers \cup {None}
          /\ pc' \in [Callers -> PCs]
          /\ waiters' \in Seq(Requests)
          /\ asleep' \in SUBSET Callers
      BY <1>g, <2>1, GrantKeepsTypes
    <2>5. TypeOK'
      BY <1>g, <2>4 DEF IInv, TypeOK, PCs, Scopes
    <2> QED
      BY <2>2, <2>3, <2>5 DEF IInv

  <1>enter. ASSUME NEW t \in Threads, NEW s \in BOOLEAN, EnterMutation(t, s) PROVE IInv'
    <2>1. TypeOK'
      <3>1. left' \in [Callers -> Nat] /\ calls' \in [Callers -> Nat]
        <4>1. /\ left \in [Callers -> Nat] /\ calls \in [Callers -> Nat]
              /\ t \in Callers /\ MaxCalls \in Nat
          BY BoundsAssumption DEF IInv, TypeOK
        <4>2. left[t] - 1 \in Nat
          BY <1>enter, <4>1 DEF EnterMutation
        <4> QED
          BY <1>enter, <4>1, <4>2 DEF EnterMutation
      <3> QED
        BY <1>enter, <3>1 DEF EnterMutation, IInv, TypeOK, Scopes
    <2>2. Positions(pc)'
      BY <1>enter DEF EnterMutation, IInv, TypeOK, Positions
    <2>3. Ownership(owner, reservation, effect, pc)'
      BY <1>enter
         DEF EnterMutation, IInv, TypeOK, Positions, Ownership, Busy
    <2>4. (waiters # <<>> => Served(effect, pc))'
      BY <1>enter DEF EnterMutation, IInv, TypeOK, Served, Busy
    <2> QED
      BY <2>1, <2>2, <2>3, <2>4 DEF IInv
  <1>sleep. ASSUME NEW c \in Callers, Sleep(c) PROVE IInv'
    <2>1. TypeOK'
      BY <1>sleep DEF Sleep, IInv, TypeOK, Scopes
    <2>2. Positions(pc)'
      BY <1>sleep DEF Sleep, IInv, TypeOK, Positions
    <2>3. Ownership(owner, reservation, effect, pc)'
      BY <1>sleep
         DEF Sleep, IInv, TypeOK, Positions, Ownership, Busy
    <2>4. (waiters # <<>> => Served(effect, pc))'
      BY <1>sleep DEF Sleep, IInv, TypeOK, Served, Busy
    <2> QED
      BY <2>1, <2>2, <2>3, <2>4 DEF IInv
  <1>admit. ASSUME NEW t \in Threads, AdmitMutation(t) PROVE IInv'
    <2>1. TypeOK'
      BY <1>admit DEF AdmitMutation, IInv, TypeOK, Scopes
    <2>2. Positions(pc)'
      BY <1>admit DEF AdmitMutation, IInv, TypeOK, Positions
    <2>3. Ownership(owner, reservation, effect, pc)'
      BY <1>admit
         DEF AdmitMutation, CanProceed, MutationReady, PermitIsFree, IInv, TypeOK, Positions, Ownership, Busy
    <2>4. (waiters # <<>> => Served(effect, pc))'
      BY <1>admit DEF AdmitMutation, IInv, TypeOK, Served, Busy
    <2> QED
      BY <2>1, <2>2, <2>3, <2>4 DEF IInv
  <1>timeout. ASSUME NEW t \in Threads, TimeoutMutation(t) PROVE IInv'
    <2>1. TypeOK'
      BY <1>timeout DEF TimeoutMutation, IInv, TypeOK, Scopes
    <2>2. Positions(pc)'
      BY <1>timeout DEF TimeoutMutation, IInv, TypeOK, Positions
    <2>3. Ownership(owner, reservation, effect, pc)'
      BY <1>timeout
         DEF TimeoutMutation, IInv, TypeOK, Positions, Ownership, Busy
    <2>4. (waiters # <<>> => Served(effect, pc))'
      BY <1>timeout DEF TimeoutMutation, IInv, TypeOK, Served, Busy
    <2> QED
      BY <2>1, <2>2, <2>3, <2>4 DEF IInv
  <1>nest. ASSUME NEW c \in Callers, NestMutation(c) PROVE IInv'
    <2>1. TypeOK'
      <3>1. calls[c] \in Nat /\ calls[c] - 1 \in Nat /\ depth' \in Nat
        BY <1>nest DEF NestMutation, IInv, TypeOK
      <3>2. calls' \in [Callers -> Nat]
        BY <1>nest, <3>1 DEF NestMutation, IInv, TypeOK
      <3> QED
        BY <1>nest, <3>1, <3>2 DEF NestMutation, IInv, TypeOK, Scopes
    <2>2. Positions(pc)'
      BY <1>nest DEF NestMutation, IInv, TypeOK, Positions
    <2>3. Ownership(owner, reservation, effect, pc)'
      BY <1>nest
         DEF NestMutation, IInv, TypeOK, Positions, Ownership, Busy
    <2>4. (waiters # <<>> => Served(effect, pc))'
      BY <1>nest DEF NestMutation, IInv, TypeOK, Served, Busy
    <2> QED
      BY <2>1, <2>2, <2>3, <2>4 DEF IInv
  <1>unnest. ASSUME NEW c \in Callers, UnnestMutation(c) PROVE IInv'
    <2>1. TypeOK'
      BY <1>unnest DEF UnnestMutation, IInv, TypeOK, Scopes
    <2>2. Positions(pc)'
      BY <1>unnest DEF UnnestMutation, IInv, TypeOK, Positions
    <2>3. Ownership(owner, reservation, effect, pc)'
      BY <1>unnest
         DEF UnnestMutation, IInv, TypeOK, Positions, Ownership, Busy
    <2>4. (waiters # <<>> => Served(effect, pc))'
      BY <1>unnest DEF UnnestMutation, IInv, TypeOK, Served, Busy
    <2> QED
      BY <2>1, <2>2, <2>3, <2>4 DEF IInv
  <1>leave. ASSUME NEW c \in Callers, LeaveForExternal(c) PROVE IInv'
    <2>1. TypeOK'
      <3>1. calls[c] - 1 \in Nat /\ depth \in Nat
        BY <1>leave DEF LeaveForExternal, IInv, TypeOK
      <3>2. calls' \in [Callers -> Nat]
        BY <1>leave, <3>1 DEF LeaveForExternal, IInv, TypeOK
      <3>3. saved' \in [Callers -> Nat]
        BY <1>leave, <3>1 DEF LeaveForExternal, IInv, TypeOK
      <3> QED
        BY <1>leave, <3>2, <3>3 DEF LeaveForExternal, IInv, TypeOK, Scopes
    <2>2. Positions(pc)'
      BY <1>leave DEF LeaveForExternal, IInv, TypeOK, Positions
    <2>3. Ownership(owner, reservation, effect, pc)'
      BY <1>leave
         DEF LeaveForExternal, IInv, TypeOK, Positions, Ownership, Busy
    <2>4. (waiters # <<>> => Served(effect, pc))'
      BY <1>leave DEF LeaveForExternal, IInv, TypeOK, Served, Busy
    <2> QED
      BY <2>1, <2>2, <2>3, <2>4 DEF IInv
  <1>return. ASSUME NEW c \in Callers, ReturnFromExternal(c) PROVE IInv'
    <2>1. TypeOK'
      BY <1>return DEF ReturnFromExternal, IInv, TypeOK, Scopes
    <2>2. Positions(pc)'
      BY <1>return DEF ReturnFromExternal, IInv, TypeOK, Positions
    <2>3. Ownership(owner, reservation, effect, pc)'
      BY <1>return
         DEF ReturnFromExternal, IInv, TypeOK, Positions, Ownership, Busy
    <2>4. (waiters # <<>> => Served(effect, pc))'
      BY <1>return DEF ReturnFromExternal, IInv, TypeOK, Served, Busy
    <2> QED
      BY <2>1, <2>2, <2>3, <2>4 DEF IInv
  <1>reacquire. ASSUME NEW c \in Callers, Reacquire(c) PROVE IInv'
    <2>1. TypeOK'
      BY <1>reacquire DEF Reacquire, IInv, TypeOK, Scopes
    <2>2. Positions(pc)'
      BY <1>reacquire DEF Reacquire, IInv, TypeOK, Positions
    <2>3. Ownership(owner, reservation, effect, pc)'
      BY <1>reacquire
         DEF Reacquire, CanProceed, CanReacquire, PermitIsFree, IInv, TypeOK, Positions, Ownership, Busy
    <2>4. (waiters # <<>> => Served(effect, pc))'
      BY <1>reacquire DEF Reacquire, IInv, TypeOK, Served, Busy
    <2> QED
      BY <2>1, <2>2, <2>3, <2>4 DEF IInv
  <1>lose. ASSUME NEW c \in Callers, TimeoutReacquire(c) PROVE IInv'
    <2>1. TypeOK'
      BY <1>lose DEF TimeoutReacquire, IInv, TypeOK, Scopes
    <2>2. Positions(pc)'
      BY <1>lose DEF TimeoutReacquire, IInv, TypeOK, Positions
    <2>3. Ownership(owner, reservation, effect, pc)'
      BY <1>lose
         DEF TimeoutReacquire, IInv, TypeOK, Positions, Ownership, Busy
    <2>4. (waiters # <<>> => Served(effect, pc))'
      <3>1. owner # None \/ reservation # None
        BY <1>lose DEF TimeoutReacquire, CanProceed, CanReacquire, PermitIsFree
      <3>2. PICK d \in Callers : pc[d] \in {"granted", "cut", "checked"}
        BY <3>1 DEF IInv, TypeOK, Ownership
      <3>3. pc'[d] = pc[d]
        BY <1>lose, <3>2 DEF TimeoutReacquire, IInv, TypeOK
      <3> QED
        BY <3>2, <3>3 DEF Served, Busy
    <2> QED
      BY <2>1, <2>2, <2>3, <2>4 DEF IInv
  <1>open. ASSUME NEW c \in Callers, OpenScope(c) PROVE IInv'
    <2>1. TypeOK'
      BY <1>open DEF OpenScope, IInv, TypeOK, Scopes
    <2>2. Positions(pc)'
      BY <1>open DEF OpenScope, IInv, TypeOK, Positions
    <2>3. Ownership(owner, reservation, effect, pc)'
      BY <1>open
         DEF OpenScope, IInv, TypeOK, Positions, Ownership, Busy
    <2>4. (waiters # <<>> => Served(effect, pc))'
      BY <1>open DEF OpenScope, IInv, TypeOK, Served, Busy
    <2> QED
      BY <2>1, <2>2, <2>3, <2>4 DEF IInv
  <1>close. ASSUME NEW c \in Callers, CloseScope(c) PROVE IInv'
    <2>1. TypeOK'
      BY <1>close DEF CloseScope, IInv, TypeOK, Scopes
    <2>2. Positions(pc)'
      BY <1>close DEF CloseScope, IInv, TypeOK, Positions
    <2>3. Ownership(owner, reservation, effect, pc)'
      BY <1>close
         DEF CloseScope, IInv, TypeOK, Positions, Ownership, Busy
    <2>4. (waiters # <<>> => Served(effect, pc))'
      BY <1>close DEF CloseScope, IInv, TypeOK, Served, Busy
    <2> QED
      BY <2>1, <2>2, <2>3, <2>4 DEF IInv
  <1>child. ASSUME NEW k \in Children, NEW c \in EffectCallers, EnterChild(k, c) PROVE IInv'
    <2>1. TypeOK'
      <3>1. left' \in [Callers -> Nat] /\ calls' \in [Callers -> Nat]
        <4>1. /\ left \in [Callers -> Nat] /\ calls \in [Callers -> Nat]
              /\ k \in Callers /\ MaxCalls \in Nat
          BY BoundsAssumption DEF IInv, TypeOK
        <4>2. left[k] - 1 \in Nat
          BY <1>child, <4>1 DEF EnterChild
        <4> QED
          BY <1>child, <4>1, <4>2 DEF EnterChild
      <3>2. childOf' \in [Children -> Scopes \cup {None}]
        BY <1>child DEF EnterChild, IInv, TypeOK, Scopes
      <3> QED
        BY <1>child, <3>1, <3>2 DEF EnterChild, IInv, TypeOK
    <2>2. Positions(pc)'
      BY <1>child DEF EnterChild, IInv, TypeOK, Positions
    <2>3. Ownership(owner, reservation, effect, pc)'
      BY <1>child
         DEF EnterChild, IInv, TypeOK, Positions, Ownership, Busy
    <2>4. (waiters # <<>> => Served(effect, pc))'
      BY <1>child DEF EnterChild, IInv, TypeOK, Served, Busy
    <2> QED
      BY <2>1, <2>2, <2>3, <2>4 DEF IInv
  <1>admitchild. ASSUME NEW k \in Children, AdmitChild(k) PROVE IInv'
    <2>1. TypeOK'
      <3>1. /\ owner' \in Threads \cup Children \cup {None} /\ depth' \in Nat
            /\ pc' \in [Callers -> PCs]
        <4>1. /\ owner \in Threads \cup Children \cup {None}
              /\ depth \in Nat /\ pc \in [Callers -> PCs]
          BY DEF IInv, TypeOK, PCs
        <4>2. [pc EXCEPT ![k] = "cut"] \in [Callers -> PCs]
                /\ [pc EXCEPT ![k] = "idle"] \in [Callers -> PCs]
          BY <4>1 DEF PCs
        <4> QED
          BY <1>admitchild, <4>1, <4>2 DEF AdmitChild
      <3> QED
        BY <1>admitchild, <3>1 DEF AdmitChild, IInv, TypeOK, Scopes, PCs
    <2>2. Positions(pc)'
      BY <1>admitchild DEF AdmitChild, IInv, TypeOK, Positions
    <2>3. Ownership(owner, reservation, effect, pc)'
      BY <1>admitchild
         DEF AdmitChild, CanProceed, ScopeLive, PermitIsFree, IInv, TypeOK, Positions, Ownership, Busy
    <2>4. (waiters # <<>> => Served(effect, pc))'
      BY <1>admitchild DEF AdmitChild, IInv, TypeOK, Served, Busy
    <2> QED
      BY <2>1, <2>2, <2>3, <2>4 DEF IInv
  <1>timeoutchild. ASSUME NEW k \in Children, TimeoutChild(k) PROVE IInv'
    <2>1. TypeOK'
      BY <1>timeoutchild DEF TimeoutChild, IInv, TypeOK, Scopes
    <2>2. Positions(pc)'
      BY <1>timeoutchild DEF TimeoutChild, IInv, TypeOK, Positions
    <2>3. Ownership(owner, reservation, effect, pc)'
      BY <1>timeoutchild
         DEF TimeoutChild, IInv, TypeOK, Positions, Ownership, Busy
    <2>4. (waiters # <<>> => Served(effect, pc))'
      BY <1>timeoutchild DEF TimeoutChild, IInv, TypeOK, Served, Busy
    <2> QED
      BY <2>1, <2>2, <2>3, <2>4 DEF IInv
  <1>check. ASSUME NEW k \in Children, CheckChild(k) PROVE IInv'
    <2>1. TypeOK'
      BY <1>check DEF CheckChild, IInv, TypeOK, Scopes
    <2>2. Positions(pc)'
      BY <1>check DEF CheckChild, IInv, TypeOK, Positions
    <2>3. Ownership(owner, reservation, effect, pc)'
      BY <1>check
         DEF CheckChild, IInv, TypeOK, Positions, Ownership, Busy
    <2>4. (waiters # <<>> => Served(effect, pc))'
      BY <1>check DEF CheckChild, IInv, TypeOK, Served, Busy
    <2> QED
      BY <2>1, <2>2, <2>3, <2>4 DEF IInv
  <1>publish. ASSUME NEW k \in Children, PublishChild(k) PROVE IInv'
    <2>1. TypeOK'
      BY <1>publish DEF PublishChild, IInv, TypeOK, Scopes
    <2>2. Positions(pc)'
      BY <1>publish DEF PublishChild, IInv, TypeOK, Positions
    <2>3. Ownership(owner, reservation, effect, pc)'
      BY <1>publish
         DEF PublishChild, IInv, TypeOK, Positions, Ownership, Busy
    <2>4. (waiters # <<>> => Served(effect, pc))'
      BY <1>publish DEF PublishChild, IInv, TypeOK, Served, Busy
    <2> QED
      BY <2>1, <2>2, <2>3, <2>4 DEF IInv
  <1>reserve. ASSUME NEW r \in Requests, EnterReserve(r) PROVE IInv'
    <2>1. TypeOK'
      <3>1. left' \in [Callers -> Nat] /\ calls' \in [Callers -> Nat]
        <4>1. /\ left \in [Callers -> Nat] /\ calls \in [Callers -> Nat]
              /\ r \in Callers /\ MaxCalls \in Nat
          BY BoundsAssumption DEF IInv, TypeOK
        <4>2. left[r] - 1 \in Nat
          BY <1>reserve, <4>1 DEF EnterReserve
        <4> QED
          BY <1>reserve, <4>1, <4>2 DEF EnterReserve
      <3>2. waiters' \in Seq(Requests)
        <4>1. waiters \in Seq(Requests)
          BY DEF IInv, TypeOK
        <4>2. Append(waiters, r) \in Seq(Requests)
          BY <4>1
        <4> QED
          BY <1>reserve, <4>1, <4>2 DEF EnterReserve
      <3>3. pc' \in [Callers -> PCs]
        BY <1>reserve DEF EnterReserve, IInv, TypeOK, PCs
      <3>4. reservation' \in Requests \cup {None}
              /\ effect' \in EffectCallers \cup {None}
        BY <1>reserve DEF EnterReserve, IInv, TypeOK
      <3>5. outcome' \in [Requests -> {"none", "served", "deadline", "value_error"}]
        BY <1>reserve DEF EnterReserve, IInv, TypeOK
      <3>6. UNCHANGED <<owner, depth, asleep, sup, saved, scopeOpen, childOf>> /\ TypeOK
        BY <1>reserve DEF EnterReserve, IInv
      <3> QED
        BY <3>1, <3>2, <3>3, <3>4, <3>5, <3>6 DEF TypeOK, Scopes, PCs
    <2>2. Positions(pc)'
      BY <1>reserve DEF EnterReserve, IInv, TypeOK, Positions
    <2>3. CASE PermitIsFree /\ effect = None /\ waiters = <<>>
      <3>1. /\ reservation' = r /\ effect' = r /\ owner' = None /\ owner = None
            /\ pc' = [pc EXCEPT ![r] = "cut"] /\ UNCHANGED sup
            /\ pc[r] = "idle" /\ effect = None /\ reservation = None
        BY <1>reserve, <2>3 DEF EnterReserve, PermitIsFree
      <3>2. Ownership(owner, reservation, effect, pc)'
        BY <3>1 DEF IInv, TypeOK, Positions, Ownership, Busy
      <3>3. Served(effect, pc)'
        BY <3>1 DEF Served
      <3> QED
        BY <2>1, <2>2, <3>2, <3>3 DEF IInv
    <2>4. CASE ~(PermitIsFree /\ effect = None /\ waiters = <<>>)
      <3>1. /\ UNCHANGED <<owner, reservation, effect, sup>>
            /\ pc' = [pc EXCEPT ![r] = "queued"] /\ pc[r] = "idle"
        BY <1>reserve, <2>4 DEF EnterReserve
      <3>2. Ownership(owner, reservation, effect, pc)'
        BY <3>1 DEF IInv, TypeOK, Positions, Ownership, Busy
      <3>3. Served(effect, pc)
        BY <2>4 DEF IInv, TypeOK, Ownership, PermitIsFree, Served, Busy
      <3>4. Served(effect, pc)'
        BY <3>1, <3>3 DEF IInv, TypeOK, Served, Busy
      <3> QED
        BY <2>1, <2>2, <3>2, <3>4 DEF IInv
    <2> QED
      BY <2>3, <2>4
  <1>resume. ASSUME NEW r \in Requests, ResumeGranted(r) PROVE IInv'
    <2>1. TypeOK'
      BY <1>resume DEF ResumeGranted, IInv, TypeOK, Scopes
    <2>2. Positions(pc)'
      BY <1>resume DEF ResumeGranted, IInv, TypeOK, Positions
    <2>3. Ownership(owner, reservation, effect, pc)'
      BY <1>resume
         DEF ResumeGranted, IInv, TypeOK, Positions, Ownership, Busy
    <2>4. (waiters # <<>> => Served(effect, pc))'
      BY <1>resume DEF ResumeGranted, IInv, TypeOK, Served, Busy
    <2> QED
      BY <2>1, <2>2, <2>3, <2>4 DEF IInv
  <1>expire. ASSUME NEW r \in Requests, ExpireWaiter(r) PROVE IInv'
    <2>1. TypeOK'
      BY <1>expire DEF ExpireWaiter, IInv, TypeOK, Scopes
    <2>2. Positions(pc)'
      BY <1>expire DEF ExpireWaiter, IInv, TypeOK, Positions
    <2>3. Ownership(owner, reservation, effect, pc)'
      BY <1>expire
         DEF ExpireWaiter, IInv, TypeOK, Positions, Ownership, Busy
    <2>4. (waiters # <<>> => Served(effect, pc))'
      BY <1>expire DEF ExpireWaiter, IInv, TypeOK, Served, Busy
    <2> QED
      BY <2>1, <2>2, <2>3, <2>4 DEF IInv
  <1>remove. ASSUME NEW r \in Requests, RemoveExpired(r) PROVE IInv'
    <2>1. TypeOK'
      <3>1. waiters \in Seq(Requests)
        BY DEF IInv, TypeOK
      <3>2. waiters' \in Seq(Requests)
        BY <1>remove, <3>1, RemovalIsQueue DEF RemoveExpired
      <3>3. outcome' \in [Requests -> {"none", "served", "deadline",
                                        "value_error"}]
        BY <1>remove DEF RemoveExpired, IInv, TypeOK
      <3> QED
        BY <1>remove, <3>2, <3>3 DEF RemoveExpired, IInv, TypeOK, Scopes
    <2>2. Positions(pc)'
      BY <1>remove DEF RemoveExpired, IInv, TypeOK, Positions
    <2>3. Ownership(owner, reservation, effect, pc)'
      BY <1>remove
         DEF RemoveExpired, IInv, TypeOK, Positions, Ownership, Busy
    <2>4. (waiters # <<>> => Served(effect, pc))'
      BY <1>remove DEF RemoveExpired, IInv, TypeOK, Served, Busy
    <2> QED
      BY <2>1, <2>2, <2>3, <2>4 DEF IInv
  <1>release. ASSUME NEW t \in Threads, ReleaseMutation(t) PROVE IInv'
    <2> DEFINE p == [pc EXCEPT ![t] = "idle"]
    <2>1. owner = t /\ reservation = None
      BY <1>release DEF ReleaseMutation, IInv, Ownership
    <2>2. p \in [Callers -> PCs] /\ Positions(p)
      BY <1>release DEF ReleaseMutation, IInv, TypeOK, Positions, PCs
    <2>3. Ownership(None, reservation, EffectWithout(t), p)
      BY <1>release, <2>1
         DEF ReleaseMutation, EffectWithout, IInv, TypeOK, Positions, Ownership,
             Busy
    <2>4. /\ None \in Threads \cup Children \cup {None}
          /\ reservation \in Requests \cup {None}
          /\ EffectWithout(t) \in EffectCallers \cup {None}
      BY DEF EffectWithout, IInv, TypeOK
    <2>5. /\ depth' \in Nat /\ saved' \in [Callers -> Nat]
          /\ outcome' \in [Requests -> {"none", "served", "deadline",
                                        "value_error"}]
      BY <1>release DEF ReleaseMutation, IInv, TypeOK
    <2>6. GrantNext(None, reservation, EffectWithout(t), p)
      BY <1>release DEF ReleaseMutation
    <2>7. UNCHANGED <<sup, scopeOpen, childOf, left, calls>>
      BY <1>release DEF ReleaseMutation
    <2> QED
      BY <2>2, <2>3, <2>4, <2>5, <2>6, <2>7, <1>g
  <1>cancel. ASSUME NEW r \in Requests, CancelGranted(r) PROVE IInv'
    <2> DEFINE p == [pc EXCEPT ![r] = "idle"]
    <2>1. reservation = r /\ owner = None
      BY <1>cancel DEF CancelGranted, IInv, Ownership
    <2>2. p \in [Callers -> PCs] /\ Positions(p)
      BY <1>cancel DEF CancelGranted, IInv, TypeOK, Positions, PCs
    <2>3. Ownership(owner, None, None, p)
      BY <1>cancel, <2>1
         DEF CancelGranted, EffectWithout, IInv, TypeOK, Positions, Ownership,
             Busy
    <2>4. /\ owner \in Threads \cup Children \cup {None}
          /\ None \in Requests \cup {None}
          /\ None \in EffectCallers \cup {None}
      BY DEF EffectWithout, IInv, TypeOK
    <2>5. /\ depth' \in Nat /\ saved' \in [Callers -> Nat]
          /\ outcome' \in [Requests -> {"none", "served", "deadline",
                                        "value_error"}]
      BY <1>cancel DEF CancelGranted, IInv, TypeOK
    <2>6. GrantNext(owner, None, None, p)
      BY <1>cancel DEF CancelGranted
    <2>7. UNCHANGED <<sup, scopeOpen, childOf, left, calls>>
      BY <1>cancel DEF CancelGranted
    <2> QED
      BY <2>2, <2>3, <2>4, <2>5, <2>6, <2>7, <1>g
  <1>releaseres. ASSUME NEW r \in Requests, ReleaseReservation(r) PROVE IInv'
    <2> DEFINE p == [pc EXCEPT ![r] = "idle"]
    <2>1. pc[r] = "cut" <=> reservation = r
      BY <1>releaseres DEF ReleaseReservation, IInv, Ownership
    <2>2. p \in [Callers -> PCs] /\ Positions(p)
      BY <1>releaseres DEF ReleaseReservation, IInv, TypeOK, Positions, PCs
    <2>3. Ownership(owner, (IF reservation = r THEN None ELSE reservation), EffectWithout(r), p)
      BY <1>releaseres, <2>1
         DEF ReleaseReservation, EffectWithout, IInv, TypeOK, Positions, Ownership,
             Busy
    <2>4. /\ owner \in Threads \cup Children \cup {None}
          /\ (IF reservation = r THEN None ELSE reservation) \in Requests \cup {None}
          /\ EffectWithout(r) \in EffectCallers \cup {None}
      BY DEF EffectWithout, IInv, TypeOK
    <2>5. /\ depth' \in Nat /\ saved' \in [Callers -> Nat]
          /\ outcome' \in [Requests -> {"none", "served", "deadline",
                                        "value_error"}]
      BY <1>releaseres DEF ReleaseReservation, IInv, TypeOK
    <2>6. GrantNext(owner, (IF reservation = r THEN None ELSE reservation), EffectWithout(r), p)
      BY <1>releaseres DEF ReleaseReservation
    <2>7. UNCHANGED <<sup, scopeOpen, childOf, left, calls>>
      BY <1>releaseres DEF ReleaseReservation
    <2> QED
      BY <2>2, <2>3, <2>4, <2>5, <2>6, <2>7, <1>g
  <1>finish. ASSUME NEW k \in Children, FinishChild(k) PROVE IInv'
    <2> DEFINE p == [pc EXCEPT ![k] = "idle"]
    <2>1. pc[k] = "cut" <=> owner = k
      BY <1>finish DEF FinishChild, IInv, Ownership
    <2>2. p \in [Callers -> PCs] /\ Positions(p)
      BY <1>finish DEF FinishChild, IInv, TypeOK, Positions, PCs
    <2>3. Ownership((IF owner = k THEN None ELSE owner), reservation, effect, p)
      BY <1>finish, <2>1
         DEF FinishChild, EffectWithout, IInv, TypeOK, Positions, Ownership,
             Busy
    <2>4. /\ (IF owner = k THEN None ELSE owner) \in Threads \cup Children \cup {None}
          /\ reservation \in Requests \cup {None}
          /\ effect \in EffectCallers \cup {None}
      BY DEF EffectWithout, IInv, TypeOK
    <2>5. /\ depth' \in Nat /\ saved' \in [Callers -> Nat]
          /\ outcome' \in [Requests -> {"none", "served", "deadline",
                                        "value_error"}]
      BY <1>finish DEF FinishChild, IInv, TypeOK
    <2>6. GrantNext((IF owner = k THEN None ELSE owner), reservation, effect, p)
      BY <1>finish DEF FinishChild
    <2>7. UNCHANGED <<sup, scopeOpen, childOf, left, calls>>
      BY <1>finish DEF FinishChild
    <2> QED
      BY <2>2, <2>3, <2>4, <2>5, <2>6, <2>7, <1>g
  <1>unwind. ASSUME NEW t \in Threads, UnwindAbandoned(t) PROVE IInv'
    <2> DEFINE p == [pc EXCEPT ![t] = "idle"]
    <2>1. saved' \in [Callers -> Nat]
      <3>1. saved \in [Callers -> Nat] /\ t \in Callers
        BY DEF IInv, TypeOK
      <3>2. saved[t] - 1 \in Nat
        BY <1>unwind, <3>1 DEF UnwindAbandoned
      <3> QED
        BY <1>unwind, <3>1, <3>2 DEF UnwindAbandoned
    <2>2. CASE saved[t] > 1
      <3>1. UNCHANGED <<owner, reservation, effect, waiters, asleep, pc, depth,
                        sup, scopeOpen, childOf, outcome, left, calls>>
        BY <1>unwind, <2>2 DEF UnwindAbandoned, IInv, TypeOK
      <3> QED
        BY <2>1, <3>1
           DEF IInv, TypeOK, Positions, Ownership, Served, Scopes
    <2>3. CASE saved[t] = 1 /\ effect = t
      <3>1. p \in [Callers -> PCs] /\ Positions(p)
        BY <1>unwind DEF UnwindAbandoned, IInv, TypeOK, Positions, PCs
      <3>2. Ownership(owner, reservation, None, p)
        BY <1>unwind, <2>3
           DEF UnwindAbandoned, IInv, TypeOK, Positions, Ownership, Busy
      <3>3. /\ owner \in Threads \cup Children \cup {None}
            /\ reservation \in Requests \cup {None}
            /\ None \in EffectCallers \cup {None}
        BY DEF IInv, TypeOK
      <3>4. /\ GrantNext(owner, reservation, None, p)
            /\ UNCHANGED <<depth, sup, scopeOpen, childOf, outcome, left, calls>>
        BY <1>unwind, <2>3 DEF UnwindAbandoned
      <3>5. /\ depth' \in Nat
            /\ outcome' \in [Requests -> {"none", "served", "deadline",
                                          "value_error"}]
        BY <3>4 DEF IInv, TypeOK
      <3> QED
        BY <2>1, <3>1, <3>2, <3>3, <3>4, <3>5, <1>g
    <2>4. CASE saved[t] = 1 /\ effect # t
      <3>1. /\ pc' = p /\ pc[t] = "lost"
            /\ UNCHANGED <<owner, reservation, effect, waiters, asleep, depth,
                           sup, scopeOpen, childOf, outcome, left, calls>>
        BY <1>unwind, <2>4 DEF UnwindAbandoned
      <3>2. TypeOK'
        BY <2>1, <3>1 DEF IInv, TypeOK, Scopes
      <3>3. Positions(pc)'
        BY <3>1 DEF IInv, TypeOK, Positions
      <3>4. Ownership(owner, reservation, effect, pc)'
        BY <2>4, <3>1 DEF IInv, TypeOK, Positions, Ownership, Busy
      <3>5. (waiters # <<>> => Served(effect, pc))'
        BY <3>1 DEF IInv, TypeOK, Served, Busy
      <3> QED
        BY <3>2, <3>3, <3>4, <3>5 DEF IInv
    <2> QED
      BY <1>unwind, <2>2, <2>3, <2>4 DEF UnwindAbandoned
  <1>stutter. ASSUME UNCHANGED vars PROVE IInv'
    BY <1>stutter
       DEF vars, IInv, TypeOK, Positions, Ownership, Served, Scopes
  <1>thread. ASSUME NEW t \in Threads, ThreadStep(t) PROVE IInv'
    BY <1>thread, <1>enter, <1>admit, <1>timeout, <1>release, <1>unwind
       DEF ThreadStep
  <1>request. ASSUME NEW r \in Requests, RequestStep(r) PROVE IInv'
    BY <1>request, <1>reserve, <1>resume, <1>expire, <1>remove, <1>cancel,
       <1>releaseres
       DEF RequestStep
  <1>childstep. ASSUME NEW k \in Children, ChildStep(k) PROVE IInv'
    BY <1>childstep, <1>child, <1>admitchild, <1>timeoutchild, <1>check,
       <1>publish, <1>finish
       DEF ChildStep
  <1>caller. ASSUME NEW c \in Callers, CallerStep(c) PROVE IInv'
    BY <1>caller, <1>sleep, <1>nest, <1>unnest, <1>leave, <1>return,
       <1>reacquire, <1>lose, <1>open, <1>close
       DEF CallerStep
  <1> QED
    BY <1>stutter, <1>thread, <1>request, <1>childstep, <1>caller
       DEF Next, Finished

\* What EffectHandoff says of a step that changes the effect.
Handed ==
    /\ effect # None => pc'[effect] = "idle"
    /\ effect' # None =>
         \A i \in DOMAIN waiters :
            pc[waiters[i]] = "queued" => \E j \in 1 .. i : waiters[j] = effect'

\* _grant_next_waiter_locked, run by a caller that gives up what it holds and
\* leaves: the oldest reservation that still waits is served, and the effect
\* of somebody else stays where it is.
LEMMA HandsOn ==
    ASSUME waiters \in Seq(Requests), pc \in [Callers -> PCs],
           NEW c \in Callers, pc[c] # "queued", NEW o, NEW r,
           GrantNext(o, r, EffectWithout(c), Goto(c, "idle")), effect' # effect
    PROVE  Handed
  <1> DEFINE p == Goto(c, "idle")
  <1>1. /\ p \in [Callers -> PCs] /\ p[c] = "idle"
        /\ \A d \in Callers : d # c => p[d] = pc[d]
    BY DEF Goto, PCs
  <1>2. \A i \in DOMAIN waiters : i \in Nat /\ waiters[i] \in Callers
    BY DEF Callers, EffectCallers
  <1> HIDE DEF p
  <1>3. effect # None => effect = c /\ EffectWithout(c) = None
    BY DEF GrantNext, EffectWithout
  <1>4. CASE effect' = None /\ pc' = p
    BY <1>1, <1>3, <1>4 DEF Handed
  <1>5. ASSUME NEW k \in DOMAIN waiters, OldestLive(k, p), effect' = waiters[k],
               pc' = [p EXCEPT ![waiters[k]] = "granted"]
        PROVE  Handed
    <2>1. effect # None => pc'[effect] = "idle"
      BY <1>1, <1>2, <1>3, <1>5 DEF OldestLive
    <2>2. ASSUME NEW i \in DOMAIN waiters, pc[waiters[i]] = "queued"
          PROVE  \E j \in 1 .. i : waiters[j] = effect'
      <3>1. p[waiters[i]] = "queued"
        BY <1>1, <1>2, <2>2
      <3>2. i \in Nat /\ k \in Nat /\ 1 <= i /\ 1 <= k /\ k <= i
        BY <1>2, <1>5, <3>1 DEF OldestLive
      <3> QED
        BY <1>5, <3>2
    <2> QED
      BY <2>1, <2>2 DEF Handed
  <1> QED
    BY <1>3, <1>4, <1>5 DEF GrantNext, EffectWithout, p

\* IInv holds in every reachable state of the authority.
LEMMA AlwaysIInv == Spec => []IInv
  BY InitIInv, StepKeepsIInv, PTL DEF Spec

\* Type correctness: every field of RuntimeMutationAuthority and every
\* caller's position keeps its type, for any number of callers.
THEOREM TypeCorrect == Spec => []TypeOK
  <1>1. IInv => TypeOK
    BY DEF IInv
  <1> QED
    BY <1>1, AlwaysIInv, PTL

\* Mutual exclusion of the state permit (mutation, reserve,
\* run_invocation_child, external_call): never two state writers, for any
\* number of threads, requests and children.
THEOREM SingleWriterAlways == Spec => []SingleWriter
  <1>1. IInv => SingleWriter
    <2> SUFFICES ASSUME IInv, NEW c \in InCut, NEW d \in InCut PROVE c = d
      BY DEF SingleWriter
    <2>1. \A x \in InCut : (x \in Requests /\ reservation = x) \/ owner = x
      BY DEF IInv, InCut, Positions, Ownership, Callers, EffectCallers
    <2>2. None \notin InCut
      BY CallersAssumption DEF InCut, Callers, EffectCallers
    <2> QED
      BY <2>1, <2>2 DEF IInv, Ownership
  <1> QED
    BY <1>1, AlwaysIInv, PTL

\* Exclusion of effects (external_call retains _effect_owner while the permit
\* changes hands): never two callers inside an effect.
THEOREM EffectExclusionAlways == Spec => []EffectExclusion
  <1>1. IInv => EffectExclusion
    BY DEF IInv, EffectExclusion, InEffect, Ownership, Busy
  <1> QED
    BY <1>1, AlwaysIInv, PTL

\* The permit and the effect are held only by a caller that is still inside
\* its cut or effect (_release_mutation_locked, _release_reservation_locked,
\* _release_abandoned_mutation_locked leak nothing).
THEOREM NothingLeakedAlways == Spec => []NothingLeaked
  <1>1. IInv => NothingLeaked
    <2> SUFFICES ASSUME IInv PROVE NothingLeaked
      OBVIOUS
    <2>1. owner # None => owner \in InCut
      BY DEF IInv, TypeOK, Ownership, InCut, Callers, EffectCallers
    <2>2. reservation # None => reservation \in InCut
      BY DEF IInv, TypeOK, Ownership, InCut, Callers, EffectCallers
    <2>3. effect # None => effect \in InEffect
      BY DEF IInv, TypeOK, Ownership, Positions, InEffect, Busy, EffectCallers
    <2> QED
      BY <2>1, <2>2, <2>3 DEF NothingLeaked
  <1> QED
    BY <1>1, AlwaysIInv, PTL

\* No queued reservation is stranded: while reserve() has a live waiter, some
\* caller that ends in _grant_next_waiter_locked is still on its way.
THEOREM QueueNotStrandedAlways == Spec => []QueueNotStranded
  <1>1. IInv => QueueNotStranded
    <2> SUFFICES ASSUME IInv, NEW i \in DOMAIN waiters PROVE Served(effect, pc)
      BY DEF QueueNotStranded, Served, Busy
    <2>1. waiters # <<>>
      OBVIOUS
    <2> QED
      BY <2>1 DEF IInv
  <1> QED
    BY <1>1, AlwaysIInv, PTL

\* Reservations are served in order, before any thread, and never at the cost
\* of an effect that is still owned (_grant_next_waiter_locked, reserve, and
\* the predicate of mutation that yields to the queue).
THEOREM EffectHandoffAlways == Spec => EffectHandoff
  <1>1. IInv /\ [Next]_vars => [effect' # effect => Handed]_vars
    <2> SUFFICES ASSUME IInv, Next, effect' # effect PROVE Handed
      OBVIOUS
    <2>1. /\ waiters \in Seq(Requests) /\ pc \in [Callers -> PCs]
          /\ Threads \subseteq Callers /\ Requests \subseteq Callers /\ Children \subseteq Callers
      BY DEF IInv, TypeOK, PCs, Callers, EffectCallers
    <2>2. ASSUME NEW t \in Threads, ThreadStep(t) PROVE Handed
      <3>1. CASE AdmitMutation(t)
        <4>1. t \in Threads /\ t \notin Children /\ pc[t] = "wait"
          BY <3>1, CallersAssumption DEF AdmitMutation
        <4>2. effect = None /\ waiters = <<>>
          BY <3>1, <4>1 DEF AdmitMutation, CanProceed, MutationReady
        <4> QED
          BY <4>2 DEF Handed
      <3>2. CASE ReleaseMutation(t)
        <4>1. GrantNext(None, reservation, EffectWithout(t), Goto(t, "idle")) /\ pc[t] # "queued"
          BY <3>2 DEF ReleaseMutation
        <4> QED
          BY <2>1, <4>1, HandsOn
      <3>3. CASE UnwindAbandoned(t)
        <4>1. effect = t /\ GrantNext(owner, reservation, None, Goto(t, "idle")) /\ pc[t] # "queued"
          BY <3>3 DEF UnwindAbandoned
        <4>2. None = EffectWithout(t)
          BY <4>1 DEF EffectWithout
        <4>3. GrantNext(owner, reservation, EffectWithout(t), Goto(t, "idle"))
          BY <4>1, <4>2
        <4> QED
          BY <2>1, <4>1, <4>3, HandsOn
      <3> QED
        BY <2>2, <3>1, <3>2, <3>3 DEF ThreadStep, EnterMutation, TimeoutMutation
    <2>3. ASSUME NEW r \in Requests, RequestStep(r) PROVE Handed
      <3>1. CASE EnterReserve(r)
        <4>1. effect = None /\ waiters = <<>>
          BY <3>1 DEF EnterReserve
        <4> QED
          BY <4>1 DEF Handed
      <3>2. CASE CancelGranted(r)
        <4>1. pc[r] = "granted" /\ ~sup[r] /\ r \in EffectCallers
          BY <3>2 DEF CancelGranted, IInv, Positions, EffectCallers
        <4>2. effect = r
          BY <4>1 DEF IInv, Ownership, Busy
        <4>3. None = EffectWithout(r)
          BY <4>2 DEF EffectWithout
        <4>4. GrantNext(owner, None, EffectWithout(r), Goto(r, "idle"))
          BY <3>2, <4>3 DEF CancelGranted
        <4> QED
          BY <2>1, <4>1, <4>4, HandsOn
      <3>3. CASE ReleaseReservation(r)
        <4>1. PICK o : o = IF reservation = r THEN None ELSE reservation
          OBVIOUS
        <4>2. GrantNext(owner, o, EffectWithout(r), Goto(r, "idle")) /\ pc[r] # "queued"
          BY <3>3, <4>1 DEF ReleaseReservation
        <4> QED
          BY <2>1, <4>2, HandsOn
      <3> QED
        BY <2>3, <3>1, <3>2, <3>3 DEF RequestStep, ResumeGranted, ExpireWaiter, RemoveExpired
    <2>4. ASSUME NEW k \in Children, ChildStep(k) PROVE Handed
      <3>1. CASE FinishChild(k)
        <4>1. pc[k] # "queued"
          BY <3>1 DEF FinishChild
        <4>2. effect = EffectWithout(k)
          BY CallersAssumption DEF EffectWithout, IInv, TypeOK, EffectCallers
        <4>3. PICK o : o = IF owner = k THEN None ELSE owner
          OBVIOUS
        <4>4. GrantNext(o, reservation, EffectWithout(k), Goto(k, "idle"))
          BY <3>1, <4>2, <4>3 DEF FinishChild
        <4> QED
          BY <2>1, <4>1, <4>4, HandsOn
      <3> QED
        BY <2>4, <3>1 DEF ChildStep, EnterChild, AdmitChild, TimeoutChild, CheckChild, PublishChild
    <2>5. ASSUME NEW c \in Callers, CallerStep(c) PROVE FALSE
      BY <2>5 DEF CallerStep, Sleep, NestMutation, UnnestMutation, LeaveForExternal,
                  ReturnFromExternal, Reacquire, TimeoutReacquire, OpenScope, CloseScope
    <2> QED
      BY <2>2, <2>3, <2>4, <2>5 DEF Next, Finished, vars
  <1> QED
    BY <1>1, AlwaysIInv, PTL DEF Spec, EffectHandoff, Handed
=============================================================================
