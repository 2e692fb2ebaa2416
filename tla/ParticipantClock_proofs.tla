------------------------ MODULE ParticipantClock_proofs ------------------------
(****************************************************************************)
(* The shared clock, its participants and its driver, for any policy, any   *)
(* number of participants, and any number of calls and mishaps.             *)
(*                                                                          *)
(* What lets a pass go on alone is that nothing else may touch what it      *)
(* works on: a pass whose session is there keeps other sessions out, one    *)
(* whose session is gone has left the plane blocked (Together).  So who is  *)
(* left to it is still due (DueStill), and whatever was dispatched is       *)
(* counted in its own copy of the states, in the snapshot's once it has     *)
(* been published (Accounted).                                              *)
(****************************************************************************)
EXTENDS ParticipantClock, WellFoundedInduction, TLAPS

\* A time control or a service control runs without a pass, a pass with its
\* session, and one whose session is over only where the plane says so.
Lost == sess # None /\ sess.at = "back" /\ sess.res = "lost"

Together ==
    /\ sess # None =>
           /\ ~blocked
           /\ sess.at = "out" <=> sess.res = "none"
           /\ sess.call \notin PassCalls => pass = None
           /\ sess.call \in PassCalls /\ ~Lost => pass # None /\ pass.owned
           /\ sess.call \in PassCalls /\ sess.at = "back" /\ ~Lost => sess.res = pass.end
           /\ sess.call \in {"jump", "reset"} => snap.clock.seg < MaxSegment
           /\ sess.call = "start" => drv = "off"
    /\ pass # None =>
           IF pass.owned THEN sess # None /\ sess.call \in PassCalls /\ ~Lost
           ELSE blocked \/ (Lost /\ sess.call \in PassCalls)

\* The participants are on the clock, in the snapshot and in the pass.
OnClock(part) ==
    \A p \in Roster : /\ part[p].seg = snap.clock.seg
                      /\ part[p].life \in Active => part[p].life = snap.clock.state

Coherent == OnClock(snap.part) /\ (pass # None => OnClock(pass.part))

\* Who is left to a pass is as the snapshot has it, and due.
DueStill ==
    Running =>
        /\ snap.svc \/ blocked
        /\ \A p \in pass.todo :
               /\ pass.part[p] = snap.part[p] /\ snap.part[p].life = "running"
               /\ snap.part[p].next = snap.clock.tick /\ snap.part[p].tried < MaxAttempts

\* Dispatched actions are counted in the state of their participant.
Counted(part) ==
    \A a \in Actions : sent[a] # 0 =>
        part[a[1]].seg > a[2] \/ (part[a[1]].seg = a[2] /\ a[3] < part[a[1]].tried)

Accounted ==
    /\ \A a \in Actions : sent[a] <= 1
    /\ pass = None /\ ~blocked /\ (Lost => sess.call \in ServiceCalls) => Counted(snap.part)
    /\ pass # None /\ pass.end \in {"none", "ok"} => Counted(pass.part)

\* After the driver's failure nothing that could open the service is out.
Closed ==
    drv = "failed" => /\ ~snap.svc /\ stopped
                      /\ sess # None => sess.call \in ServiceCalls

IInv == TypeOK /\ Together /\ Coherent /\ DueStill /\ Accounted /\ Closed

--------------------------------------------------------------------------------
(* What a call makes of the snapshot                                          *)

\* The least of some natural numbers.
LEMMA LeastIsIn ==
    ASSUME NEW S \in SUBSET Nat, S # {} PROVE Min(S) \in S
  <1> DEFINE less == {ss \in Nat \X Nat : ss[1] < ss[2]}
  <1>1. IsWellFoundedOn(less, Nat)
    BY NatLessThanWellFounded DEF OpToRel
  <1> HIDE DEF less
  <1>2. PICK x \in S : \A y \in S : ~(<<y, x>> \in less)
    <2>1. S \subseteq Nat
      OBVIOUS
    <2> QED
      BY <1>1, <2>1, WFMin, Zenon
  <1>3. \A y \in S : x <= y
    <2> SUFFICES ASSUME NEW y \in S, ~(x <= y) PROVE FALSE
      OBVIOUS
    <2>1. <<y, x>> \in Nat \X Nat /\ <<y, x>>[1] = y /\ <<y, x>>[2] = x /\ y < x
      OBVIOUS
    <2>2. <<y, x>> \in less
      BY <2>1 DEF less
    <2> QED
      BY <1>2, <2>2
  <1> QED
    BY <1>3 DEF Min

\* The driver waits for a tick that some running participant is due at.
LEMMA NextTickIsDue ==
    ASSUME TypeOK, ~Idle PROVE NextTick \in Nat
  <1>1. {snap.part[p].next : p \in Waiting} \in SUBSET Nat
    BY DEF TypeOK, Snaps, States, Waiting
  <1>2. {snap.part[p].next : p \in Waiting} # {}
    BY DEF Idle
  <1> QED
    BY <1>1, <1>2, LeastIsIn DEF NextTick

\* A cadence boundary is a tick.
LEMMA FirstDueIsTick ==
    ASSUME NEW t \in Nat PROVE FirstDue(t) \in Nat
  <1>1. Cadence \in Nat /\ Cadence > 0 /\ t + Cadence - 1 \in Nat
    BY PolicyAssumption
  <1>2. (t + Cadence - 1) \div Cadence \in Nat
    BY <1>1
  <1>3. \A x, y \in Nat : x * y \in Nat
    OBVIOUS
  <1> QED
    BY <1>1, <1>2, <1>3 DEF FirstDue

\* A state of a participant is that of the snapshot, or of a later segment.
Onward(st, old) ==
    \/ st.seg = old.seg /\ st.tried = old.tried
    \/ st.seg > old.seg

\* A time control ends with a snapshot on whose clock the participants are.
LEMMA ResultsCoherent ==
    ASSUME TypeOK, OnClock(snap.part), NEW call, NEW n \in Nat,
           call \in {"jump", "reset"} => snap.clock.seg < MaxSegment,
           NEW s \in Results(call, n)
    PROVE  s \in Snaps /\ Agree(s) /\ \A p \in Roster : Onward(s.part[p], snap.part[p])
  <1>0. Agree(s)
    BY DEF Results
  <1>1. CASE s = Advanced(snap, n)
    BY <1>0, <1>1 DEF Advanced, TypeOK, Snaps, Onward
  <1>2. ASSUME NEW state \in Active, s = FollowClock(snap, state)
        PROVE  s \in Snaps /\ \A p \in Roster : Onward(s.part[p], snap.part[p])
    <2>1. /\ s.clock = [snap.clock EXCEPT !.state = state]
          /\ s = [clock |-> s.clock, part |-> s.part, svc |-> s.svc]
          /\ s.svc = snap.svc \/ s.svc = (state = "running")
          /\ s.part = [p \in Roster |-> IF snap.part[p].life \in Active
                                       THEN [snap.part[p] EXCEPT !.life = state]
                                       ELSE snap.part[p]]
      BY <1>2 DEF FollowClock
    <2>2. s.clock \in [state : Active, seg : 0..MaxSegment, tick : Nat] /\ s.svc \in BOOLEAN
      BY <2>1 DEF TypeOK, Snaps
    <2>3. \A p \in Roster : /\ s.part[p] \in States /\ s.part[p].seg = snap.part[p].seg
                            /\ s.part[p].tried = snap.part[p].tried
      BY <2>1 DEF TypeOK, Snaps, States
    <2>4. s.part \in [Roster -> States]
      BY <2>1, <2>3
    <2>5. s \in Snaps
      BY <2>1, <2>2, <2>4 DEF Snaps
    <2> QED
      BY <2>3, <2>5 DEF Onward
  <1>3. CASE s = Jumped(snap, n) /\ call = "jump"
    <2>1. /\ s.part = snap.part /\ s.svc = snap.svc
          /\ s.clock = [state |-> snap.clock.state, seg |-> snap.clock.seg + 1, tick |-> n]
          /\ s = [clock |-> s.clock, part |-> s.part, svc |-> s.svc]
      BY <1>3 DEF Jumped, TypeOK, Snaps
    <2>2. snap.clock.seg + 1 \in 0..MaxSegment
      BY <1>3, PolicyAssumption DEF TypeOK, Snaps
    <2>3. s \in Snaps
      BY <2>1, <2>2 DEF TypeOK, Snaps
    <2> QED
      BY <1>0, <2>1, <2>3 DEF Onward
  <1>4. CASE call = "reset" /\ \E t \in {0, snap.clock.tick} : s = ResetTo(snap, t)
    BY <1>0, <1>4, FirstDueIsTick, PolicyAssumption
       DEF ResetTo, Participant, TypeOK, Snaps, States, Active, Onward, OnClock
  <1>5. "paused" \in Active /\ "running" \in Active
    BY DEF Active
  <1> QED
    BY <1>0, <1>1, <1>2, <1>3, <1>4, <1>5 DEF Results

\* A pass begins with those who are due, if the service accepts work.
LEMMA PassOverBegins ==
    ASSUME NEW s \in Snaps, Agree(s)
    PROVE  LET pa == PassOver(s) IN
           /\ pa \in Passes /\ pa.owned /\ pa.part = s.part /\ pa.end # "lost"
           /\ pa.end = "none" =>
                 /\ s.svc
                 /\ \A p \in pa.todo :
                       /\ s.part[p].life = "running" /\ s.part[p].next = s.clock.tick
                       /\ s.part[p].tried < MaxAttempts
  <1> DEFINE pa == PassOver(s)
  <1>1. /\ pa.todo = {p \in Roster : /\ s.part[p].life = "running"
                                     /\ s.part[p].next = s.clock.tick
                                     /\ s.part[p].tried < MaxAttempts}
        /\ pa.part = s.part /\ pa.owned = TRUE
        /\ pa.serial \in BOOLEAN /\ pa.end \in {"ok", "bad", "none"}
        /\ pa.end = "none" => s.svc
    BY DEF PassOver
  <1>2. pa = [todo |-> pa.todo, part |-> pa.part, owned |-> pa.owned,
              serial |-> pa.serial, end |-> pa.end]
    BY DEF PassOver
  <1> HIDE DEF pa
  <1>3. pa \in Passes
    BY <1>1, <1>2 DEF Passes, Snaps
  <1> QED
    BY <1>1, <1>3 DEF pa

\* What is settled leaves the state of a participant on the clock.
LEMMA NextStateType ==
    ASSUME NEW st \in States, st.tried < MaxAttempts, NEW v
    PROVE  LET new == NextActionState(st, v) IN
           /\ new \in States /\ new.seg = st.seg /\ new.tried = st.tried + 1
           /\ new.life \in Active => new.life = st.life
  <1> DEFINE new == NextActionState(st, v)
  <1>1. /\ new.seg = st.seg /\ new.next = st.next + Cadence /\ new.tried = st.tried + 1
        /\ new.life \in {"failed", "completed", st.life}
        /\ new = [life |-> new.life, seg |-> new.seg, next |-> new.next, tried |-> new.tried]
    <2> DEFINE life == IF Stops(v) THEN "failed"
                       ELSE IF st.tried + 1 >= MaxAttempts THEN "completed" ELSE st.life
    <2>1. new = [st EXCEPT !.next = @ + Cadence, !.tried = @ + 1, !.life = life]
      BY DEF NextActionState
    <2>2. life \in {"failed", "completed", st.life}
      OBVIOUS
    <2> HIDE DEF life, new
    <2> QED
      BY <2>1, <2>2 DEF States
  <1> HIDE DEF new
  <1>2. new.next \in Nat /\ new.tried \in 0..MaxAttempts
    BY <1>1, PolicyAssumption DEF States
  <1>3. new \in States
    BY <1>1, <1>2 DEF States
  <1> QED
    BY <1>1, <1>3 DEF new, Active

\* One whose turn has come has not been dispatched at this number.
LEMMA DueIsNew ==
    ASSUME IInv, Running, NEW p \in pass.todo
    PROVE  /\ p \in Roster /\ pass.part[p] \in States /\ pass.part[p].tried < MaxAttempts
           /\ Action(p) \in Actions /\ sent[Action(p)] = 0
  <1>1. pass \in Passes /\ p \in Roster /\ pass.part[p] \in States
    BY DEF IInv, TypeOK, Running, Passes
  <1>2. pass.part[p].tried < MaxAttempts
    BY DEF IInv, DueStill
  <1>3. Action(p) \in Actions
    BY <1>1, <1>2, PolicyAssumption DEF Action, Actions, States
  <1>4. Counted(pass.part)
    BY DEF IInv, Accounted, Running
  <1>5. sent[Action(p)] = 0
    BY <1>1, <1>3, <1>4 DEF Counted, Action, States
  <1> QED
    BY <1>1, <1>2, <1>3, <1>5

\* Those with a verdict leave the list, one action further.
LEMMA ProgressSettles ==
    ASSUME IInv, Running, NEW v, DOMAIN v \subseteq pass.todo
    PROVE  LET new == Progress(v) IN
           /\ new \in Passes /\ new.owned = pass.owned
           /\ new.end \in {"none", "ok", "bad"} /\ OnClock(new.part)
           /\ new.todo = pass.todo \ DOMAIN v
           /\ \A p \in new.todo : new.part[p] = pass.part[p]
           /\ \A p \in Roster :
                 /\ new.part[p].seg = pass.part[p].seg
                 /\ new.part[p].tried >= pass.part[p].tried
                 /\ p \in DOMAIN v => new.part[p].tried = pass.part[p].tried + 1
  <1> DEFINE new == Progress(v)
  <1>1. pass \in Passes /\ pass # None /\ OnClock(pass.part)
    BY DEF IInv, TypeOK, Coherent, Running
  <1>2. /\ new.todo = pass.todo \ DOMAIN v /\ new.part = SettlePeers(v)
        /\ new.owned = pass.owned /\ new.serial = pass.serial
        /\ new.end \in {"none", "ok", "bad"}
        /\ new = [todo |-> new.todo, part |-> new.part, owned |-> new.owned,
                  serial |-> new.serial, end |-> new.end]
    <2> DEFINE end == IF \E p \in DOMAIN v : Stops(v[p]) THEN "bad"
                      ELSE IF pass.todo \ DOMAIN v = {} THEN "ok" ELSE "none"
    <2>1. new = [pass EXCEPT !.todo = pass.todo \ DOMAIN v, !.part = SettlePeers(v),
                             !.end = end]
      BY DEF Progress
    <2>2. end \in {"none", "ok", "bad"}
      OBVIOUS
    <2> HIDE DEF end, new
    <2> QED
      BY <1>1, <2>1, <2>2 DEF Passes
  <1> HIDE DEF new
  <1>3. ASSUME NEW p \in Roster
        PROVE  /\ new.part[p] \in States /\ new.part[p].seg = pass.part[p].seg
               /\ new.part[p].life \in Active => new.part[p].life = pass.part[p].life
               /\ new.part[p].tried >= pass.part[p].tried
               /\ p \in DOMAIN v => new.part[p].tried = pass.part[p].tried + 1
               /\ p \notin DOMAIN v => new.part[p] = pass.part[p]
    <2>1. pass.part[p] \in States
      BY <1>1 DEF Passes
    <2>2. CASE p \in DOMAIN v
      <3>1. pass.part[p].tried < MaxAttempts
        BY <2>2, DueIsNew
      <3>2. new.part[p] = NextActionState(pass.part[p], v[p])
        BY <1>2, <2>2 DEF SettlePeers
      <3>3. /\ new.part[p] \in States /\ new.part[p].seg = pass.part[p].seg
            /\ new.part[p].tried = pass.part[p].tried + 1
            /\ new.part[p].life \in Active => new.part[p].life = pass.part[p].life
        BY <2>1, <3>1, <3>2, NextStateType
      <3> QED
        BY <2>1, <2>2, <3>3 DEF States
    <2>3. CASE p \notin DOMAIN v
      <3>1. new.part[p] = pass.part[p]
        BY <1>2, <2>3 DEF SettlePeers
      <3> QED
        BY <2>1, <2>3, <3>1 DEF States
    <2> QED
      BY <2>2, <2>3
  <1>4. new.part \in [Roster -> States]
    BY <1>2, <1>3 DEF SettlePeers
  <1>5. new \in Passes
    BY <1>1, <1>2, <1>4 DEF Passes
  <1>6. OnClock(new.part)
    BY <1>1, <1>3 DEF OnClock
  <1>7. \A p \in new.todo : p \in Roster /\ p \notin DOMAIN v
    BY <1>1, <1>2 DEF Passes
  <1> QED
    BY <1>2, <1>3, <1>5, <1>6, <1>7 DEF new

\* What is dispatched with them is dispatched once and counted.
LEMMA DispatchedIsCounted ==
    ASSUME IInv, Running, NEW v, DOMAIN v \subseteq pass.todo,
           \A a \in Actions : \/ sent'[a] = sent[a]
                              \/ /\ \E p \in DOMAIN v : a = Action(p)
                                 /\ sent'[a] = sent[a] + 1
    PROVE  \A a \in Actions :
              /\ sent'[a] <= 1
              /\ sent'[a] # 0 =>
                    LET st == Progress(v).part[a[1]] IN
                    st.seg > a[2] \/ (st.seg = a[2] /\ a[3] < st.tried)
  <1> SUFFICES ASSUME NEW a \in Actions
               PROVE  /\ sent'[a] <= 1
                      /\ sent'[a] # 0 =>
                            LET st == Progress(v).part[a[1]] IN
                            st.seg > a[2] \/ (st.seg = a[2] /\ a[3] < st.tried)
    OBVIOUS
  <1> DEFINE new == Progress(v)
  <1>1. /\ new \in Passes
        /\ \A p \in Roster :
              /\ new.part[p].seg = pass.part[p].seg
              /\ new.part[p].tried >= pass.part[p].tried
              /\ p \in DOMAIN v => new.part[p].tried = pass.part[p].tried + 1
    BY ProgressSettles
  <1>2. /\ sent[a] \in Nat /\ sent[a] <= 1 /\ Counted(pass.part) /\ pass \in Passes
    BY DEF IInv, TypeOK, Accounted, Running
  <1> HIDE DEF new
  <1>3. /\ a[1] \in Roster /\ a[2] \in Nat /\ a[3] \in Nat
        /\ pass.part[a[1]] \in States /\ new.part[a[1]] \in States
    BY <1>1, <1>2 DEF Actions, Passes
  <1>4. CASE sent'[a] = sent[a]
    BY <1>1, <1>2, <1>3, <1>4 DEF new, Counted, States
  <1>5. ASSUME NEW p \in DOMAIN v, a = Action(p), sent'[a] = sent[a] + 1
        PROVE  /\ sent'[a] <= 1
               /\ new.part[a[1]].seg = a[2] /\ a[3] < new.part[a[1]].tried
    <2>1. sent[a] = 0 /\ p \in Roster
      BY <1>5, DueIsNew
    <2>2. a[1] = p /\ a[2] = pass.part[p].seg /\ a[3] = pass.part[p].tried
      BY <1>5 DEF Action
    <2> QED
      BY <1>1, <1>3, <1>5, <2>1, <2>2
  <1> QED
    BY <1>4, <1>5 DEF new

--------------------------------------------------------------------------------
(* The steps                                                                  *)

\* The first due pass of an apply.
LEMMA InitIInv == Init => IInv
  <1> SUFFICES ASSUME Init PROVE IInv
    OBVIOUS
  <1> USE RosterAssumption, PolicyAssumption, NoneAssumption
  <1>1. snap \in Snaps /\ Agree(snap) /\ OnClock(snap.part)
    BY DEF Init, Snaps, States, Active, Participant, Agree, OnClock
  <1>2. /\ pass \in Passes /\ pass # None /\ pass.owned /\ pass.part = snap.part
        /\ pass.end # "lost"
        /\ pass.end = "none" =>
              /\ snap.svc
              /\ \A p \in pass.todo :
                    /\ snap.part[p].life = "running" /\ snap.part[p].next = snap.clock.tick
                    /\ snap.part[p].tried < MaxAttempts
    <2>1. pass = PassOver(snap)
      BY DEF Init
    <2> QED
      BY <1>1, <2>1, NoneAssumption, PassOverBegins
  <1>3. PICK c \in Callers : sess = Session(c, "start", 0)
    BY DEF Init
  <1>4. /\ sess \in Sessions /\ sess # None /\ sess.call = "start" /\ sess.at = "out"
        /\ sess.res = "none"
    BY <1>3 DEF Session, Sessions, PassCalls
  <1>5. TypeOK
    BY <1>1, <1>2, <1>4 DEF Init, TypeOK
  <1>6. Together
    BY <1>2, <1>4 DEF Init, Together, PassCalls, Lost
  <1>7. Coherent /\ DueStill /\ Closed
    BY <1>1, <1>2 DEF Init, Coherent, DueStill, Closed, Running
  <1>8. Accounted
    BY DEF Init, Accounted, Counted
  <1> QED
    BY <1>5, <1>6, <1>7, <1>8 DEF IInv

\* A plane that is not blocked and has no session out has no pass either.
LEMMA IdleHasNoPass ==
    ASSUME IInv, sess = None, ~blocked PROVE pass = None /\ Counted(snap.part)
  BY DEF IInv, Together, Accounted, Lost

\* A due pass is begun over the snapshot that is published.
LEMMA BeginPassKeeps ==
    ASSUME IInv, ~blocked, pass = None, NEW who \in Callers \cup {Driver},
           NEW s \in Snaps, Agree(s), Counted(s.part), BeginPass(who, s),
           snap' = s, UNCHANGED <<blocked, sent>>, drv' # "failed"
    PROVE  /\ sess' \in Sessions /\ pass' \in Passes
           /\ Together' /\ Coherent' /\ DueStill' /\ Accounted' /\ Closed'
  <1>1. /\ pass' \in Passes /\ pass' # None /\ pass'.owned /\ pass'.part = s.part
        /\ pass'.end = "none" =>
              /\ s.svc
              /\ \A p \in pass'.todo :
                    /\ s.part[p].life = "running" /\ s.part[p].next = s.clock.tick
                    /\ s.part[p].tried < MaxAttempts
    <2>1. pass' = PassOver(s)
      BY DEF BeginPass
    <2> QED
      BY <2>1, NoneAssumption, PassOverBegins
  <1>2. /\ sess' \in Sessions /\ sess' # None /\ sess'.call = "due" /\ sess'.at = "out"
        /\ sess'.res = "none"
    BY NoneAssumption DEF BeginPass, Session, Sessions, PassCalls
  <1>3. Together'
    BY <1>1, <1>2 DEF Together, PassCalls, Lost
  <1>4. Coherent' /\ DueStill'
    BY <1>1 DEF Coherent, DueStill, OnClock, Agree, Running
  <1>5. Accounted' /\ Closed'
    BY <1>1 DEF IInv, Accounted, Closed, Counted
  <1> QED
    BY <1>1, <1>2, <1>3, <1>4, <1>5

\* Every step of the callers, the pass and the driver keeps the invariant.
LEMMA StepKeepsIInv == IInv /\ [Next]_vars => IInv'
  <1> SUFFICES ASSUME IInv, [Next]_vars PROVE IInv'
    OBVIOUS
  <1> USE RosterAssumption, PolicyAssumption, NoneAssumption
  <1>0. TypeOK /\ Together /\ Coherent /\ DueStill /\ Accounted /\ Closed
    BY DEF IInv
  <1>Submit. ASSUME NEW c \in Callers, NEW call \in TimeCalls \cup ServiceCalls,
                    NEW n \in Nat, Submit(c, call, n),
                    call \in {"jump", "reset"} => snap.clock.seg < MaxSegment
             PROVE  IInv'
    <2> USE <1>0, <1>Submit
    <2>1. /\ sess = None /\ ~blocked /\ ~stopped /\ pass = None
          /\ UNCHANGED <<snap, blocked, stopped, pass, drv, sent>>
      BY IdleHasNoPass DEF Submit, Admitted
    <2>2. /\ sess' \in Sessions /\ sess' # None /\ sess'.call = call
          /\ sess'.at = "out" /\ sess'.res = "none"
      BY DEF Submit, Session, Sessions
    <2>3. call \notin PassCalls /\ call # "start"
      BY DEF TimeCalls, ServiceCalls, PassCalls
    <2>4. TypeOK'
      <3>1. UNCHANGED <<policy, deadline>>
        BY DEF Submit
      <3> QED
        BY <2>1, <2>2, <3>1 DEF TypeOK
    <2>5. Together'
      BY <2>1, <2>2, <2>3 DEF Together
    <2>6. Coherent' /\ DueStill'
      BY <2>1 DEF Coherent, OnClock, DueStill, Running
    <2>7. Accounted' /\ Closed'
      BY <2>1, <2>2 DEF Accounted, Closed, Counted, Lost
    <2> QED
      BY <2>4, <2>5, <2>6, <2>7 DEF IInv
  <1>SubmitDue. ASSUME NEW c \in Callers, SubmitDue(c) PROVE IInv'
    <2> USE <1>0, <1>SubmitDue
    <2>1. /\ ~blocked /\ ~stopped /\ pass = None /\ Counted(snap.part)
          /\ BeginPass(c, snap) /\ UNCHANGED <<snap, blocked, drv, sent>>
      BY IdleHasNoPass DEF SubmitDue, Admitted
    <2>2. /\ snap \in Snaps /\ Agree(snap) /\ drv' # "failed"
      BY <2>1 DEF TypeOK, Coherent, OnClock, Agree, Closed
    <2>3. /\ sess' \in Sessions /\ pass' \in Passes
          /\ Together' /\ Coherent' /\ DueStill' /\ Accounted' /\ Closed'
      BY <2>1, <2>2, BeginPassKeeps
    <2>4. TypeOK'
      BY <2>3 DEF SubmitDue, TypeOK
    <2> QED
      BY <2>3, <2>4 DEF IInv
  <1>CallReturns. CASE CallReturns
    <2> USE <1>0, <1>CallReturns
    <2>1. /\ sess \in Sessions /\ sess # None /\ sess.at = "out" /\ pass = None
          /\ UNCHANGED <<snap, blocked, stopped, pass, drv, sent>>
      BY DEF CallReturns, TypeOK
    <2>2. /\ sess' \in Sessions /\ sess' # None /\ sess'.call = sess.call
          /\ sess'.at = "back" /\ sess'.res \in {"ok", "lost"}
      <3>1. PICK res \in {"ok", "lost"} : sess' = [sess EXCEPT !.at = "back", !.res = res]
        BY DEF CallReturns
      <3> QED
        BY <2>1, <3>1 DEF Sessions
    <2>3. sess.call \notin PassCalls /\ ~Lost
      BY <2>1 DEF Together, Lost
    <2>4. TypeOK'
      BY <2>2 DEF CallReturns, TypeOK
    <2>5. Together'
      BY <2>1, <2>2, <2>3 DEF Together
    <2>6. Coherent' /\ DueStill' /\ Closed'
      BY <2>1, <2>2 DEF Coherent, OnClock, DueStill, Running, Closed
    <2>7. Accounted'
      BY <2>1, <2>2, <2>3 DEF Accounted, Counted
    <2> QED
      BY <2>4, <2>5, <2>6, <2>7 DEF IInv
  <1>PassReturns. CASE PassReturns
    <2> USE <1>0, <1>PassReturns
    <2>1. /\ sess \in Sessions /\ sess # None /\ sess.at = "out" /\ pass \in Passes
          /\ pass # None /\ pass.owned /\ pass.end \in {"ok", "bad", "lost"}
          /\ UNCHANGED <<snap, blocked, stopped, drv, sent>>
      BY DEF PassReturns, TypeOK, Passes
    <2>2. /\ sess' \in Sessions /\ sess' # None /\ sess'.call = sess.call
          /\ sess'.at = "back" /\ sess'.res = pass.end
          /\ pass' = IF pass.end = "lost" THEN None ELSE pass
      BY <2>1 DEF PassReturns, Sessions
    <2>3. sess.call \in PassCalls /\ sess.call \notin ServiceCalls
      BY <2>1 DEF Together, PassCalls, ServiceCalls
    <2>4. TypeOK'
      BY <2>2 DEF PassReturns, TypeOK
    <2>5. Together'
      BY <2>1, <2>2, <2>3 DEF Together, Lost
    <2>6. Coherent' /\ DueStill' /\ Closed'
      BY <2>1, <2>2 DEF Coherent, OnClock, DueStill, Running, Closed
    <2>7. Accounted'
      BY <2>1, <2>2, <2>3 DEF Accounted, Counted, Lost
    <2> QED
      BY <2>4, <2>5, <2>6, <2>7 DEF IInv
  <1>CallTimesOut. CASE CallTimesOut
    <2> USE <1>0, <1>CallTimesOut
    <2>1. /\ sess \in Sessions /\ sess # None /\ sess.at = "out"
          /\ UNCHANGED <<snap, blocked, stopped, drv, sent>>
      BY DEF CallTimesOut, TypeOK
    <2>2. /\ sess' \in Sessions /\ sess' # None /\ sess'.call = sess.call
          /\ sess'.at = "back" /\ sess'.res = "lost"
      BY <2>1 DEF CallTimesOut, Sessions
    <2>3. CASE pass = None
      <3>1. pass' = None
        BY <2>3 DEF CallTimesOut
      <3>2. TypeOK'
        BY <2>2, <3>1 DEF CallTimesOut, TypeOK
      <3>3. Together'
        BY <2>1, <2>2, <2>3, <3>1 DEF Together, Lost
      <3>4. Coherent' /\ DueStill' /\ Closed'
        BY <2>1, <2>2, <3>1 DEF Coherent, OnClock, DueStill, Running, Closed
      <3>5. Accounted'
        BY <2>1, <2>2, <2>3, <3>1 DEF Accounted, Counted, Lost
      <3> QED
        BY <3>2, <3>3, <3>4, <3>5 DEF IInv
    <2>4. CASE pass # None
      <3>1. /\ pass' \in Passes /\ pass' # None /\ pass'.owned = FALSE
            /\ pass'.part = pass.part /\ pass'.todo = pass.todo /\ pass'.end = pass.end
        BY <2>4 DEF CallTimesOut, TypeOK, Passes
      <3>2. TypeOK'
        BY <2>2, <3>1 DEF CallTimesOut, TypeOK
      <3>3. Together'
        BY <2>1, <2>2, <2>4, <3>1 DEF Together, Lost
      <3>4. Coherent' /\ DueStill' /\ Closed'
        BY <2>1, <2>2, <2>4, <3>1
           DEF Coherent, OnClock, DueStill, Running, Closed
      <3>5. Accounted'
        BY <2>1, <2>2, <2>4, <3>1 DEF Accounted, Counted
      <3> QED
        BY <3>2, <3>3, <3>4, <3>5 DEF IInv
    <2> QED
      BY <2>3, <2>4
  \* Those with the verdicts v are settled, and some of them dispatched.
  <1>Settle. ASSUME Running, NEW v, DOMAIN v \subseteq pass.todo,
                    pass' \in {Progress(v), [Progress(v) EXCEPT !.serial = TRUE]},
                    UNCHANGED <<policy, snap, blocked, stopped, sess, drv, deadline>>,
                    sent' \in [Actions -> Nat],
                    \A a \in Actions : \/ sent'[a] = sent[a]
                                       \/ /\ \E p \in DOMAIN v : a = Action(p)
                                          /\ sent'[a] = sent[a] + 1
             PROVE  IInv'
    <2> USE <1>0, <1>Settle
    <2> DEFINE new == Progress(v)
    <2>1. /\ new \in Passes /\ new.owned = pass.owned
          /\ new.end \in {"none", "ok", "bad"} /\ OnClock(new.part)
          /\ new.todo \subseteq pass.todo
          /\ \A p \in new.todo : new.part[p] = pass.part[p]
      BY ProgressSettles
    <2>2. \A a \in Actions :
             /\ sent'[a] <= 1
             /\ sent'[a] # 0 =>
                   \/ new.part[a[1]].seg > a[2]
                   \/ new.part[a[1]].seg = a[2] /\ a[3] < new.part[a[1]].tried
      BY DispatchedIsCounted
    <2> HIDE DEF new
    <2>3. /\ pass' \in Passes /\ pass' # None /\ pass'.owned = new.owned
          /\ pass'.end = new.end /\ pass'.part = new.part /\ pass'.todo = new.todo
      <3>1. CASE pass' = new
        BY <2>1, <3>1
      <3>2. CASE pass' = [new EXCEPT !.serial = TRUE]
        <4>1. pass' \in Passes
          BY <2>1, <3>2 DEF Passes
        <4>2. /\ pass'.owned = new.owned /\ pass'.end = new.end
              /\ pass'.part = new.part /\ pass'.todo = new.todo
          BY <2>1, <3>2
        <4> QED
          BY <4>1, <4>2
      <3> QED
        BY <3>1, <3>2 DEF new
    <2>4. pass # None /\ pass.end = "none"
      BY DEF Running
    <2>5. TypeOK'
      BY <2>3 DEF TypeOK
    <2>6. Together'
      <3>1. sess # None /\ sess.call \in PassCalls /\ ~Lost => sess.at = "out"
        BY <2>4 DEF Together, TypeOK, Sessions
      <3> QED
        BY <2>1, <2>3, <2>4, <3>1 DEF Together, Lost
    <2>7. Coherent'
      BY <2>1, <2>3 DEF Coherent, OnClock
    <2>8. DueStill'
      BY <2>1, <2>3, <2>4 DEF DueStill
    <2>9. Accounted' /\ Closed'
      BY <2>2, <2>3 DEF Accounted, Counted, Closed
    <2> QED
      BY <2>5, <2>6, <2>7, <2>8, <2>9 DEF IInv
  <1>Batch. ASSUME NEW S \in SUBSET pass.todo, NEW v \in [S -> Verdicts], Running, Batch(v)
            PROVE  IInv'
    <2> USE <1>0, <1>Batch
    <2>1. /\ DOMAIN v \subseteq pass.todo /\ pass' = Progress(v)
          /\ UNCHANGED <<policy, snap, blocked, stopped, sess, drv, deadline>>
      BY DEF Batch
    <2>2. /\ sent' \in [Actions -> Nat]
          /\ \A a \in Actions : \/ sent'[a] = sent[a]
                                \/ /\ \E p \in DOMAIN v : a = Action(p)
                                   /\ sent'[a] = sent[a] + 1
      BY DEF Batch, TypeOK
    <2> QED
      BY <2>1, <2>2, <1>Settle
  <1>Serial. ASSUME NEW p \in pass.todo, NEW v, Running, Serial(p, v) PROVE IInv'
    <2> USE <1>0, <1>Serial
    <2> DEFINE w == [q \in {p} |-> v]
    <2>1. /\ DOMAIN w = {p} /\ DOMAIN w \subseteq pass.todo
          /\ pass' = [Progress(w) EXCEPT !.serial = TRUE]
          /\ UNCHANGED <<policy, snap, blocked, stopped, sess, drv, deadline>>
      BY DEF Serial
    <2>2. /\ sent' \in [Actions -> Nat]
          /\ \A a \in Actions : \/ sent'[a] = sent[a]
                                \/ a = Action(p) /\ sent'[a] = sent[a] + 1
      <3>1. sent \in [Actions -> Nat]
        BY DEF TypeOK
      <3>2. CASE UNCHANGED sent
        BY <3>1, <3>2
      <3>3. CASE sent' = [sent EXCEPT ![Action(p)] = sent[Action(p)] + 1]
        <4> DEFINE act == Action(p)
        <4>1. sent' = [sent EXCEPT ![act] = sent[act] + 1]
          BY <3>3
        <4> HIDE DEF act
        <4>2. \A a \in Actions : IF a = act THEN sent'[a] = sent[a] + 1
                                           ELSE sent'[a] = sent[a]
          BY <3>1, <4>1
        <4>3. \A a \in Actions : sent'[a] \in Nat
          BY <3>1, <4>2
        <4>4. sent' = [a \in Actions |-> sent'[a]]
          BY <3>1, <4>1, Zenon
        <4>5. sent' \in [Actions -> Nat]
          BY <4>3, <4>4
        <4> QED
          BY <4>2, <4>5 DEF act
      <3> QED
        BY <3>2, <3>3 DEF Serial, Dispatch
    <2>3. p \in DOMAIN w
      BY <2>1
    <2> HIDE DEF w
    <2>4. \A a \in Actions : \/ sent'[a] = sent[a]
                            \/ /\ \E q \in DOMAIN w : a = Action(q)
                               /\ sent'[a] = sent[a] + 1
      BY <2>2, <2>3
    <2>5. pass' \in {Progress(w), [Progress(w) EXCEPT !.serial = TRUE]}
      BY <2>1
    <2> QED
      BY <2>1, <2>2, <2>4, <2>5, <1>Settle
  <1>Break. ASSUME NEW end \in {"lost", "bad"}, Break(end) PROVE IInv'
    <2> USE <1>0, <1>Break
    <2>1. /\ pass \in Passes /\ pass # None /\ pass.end = "none"
          /\ UNCHANGED <<policy, snap, blocked, stopped, sess, drv, deadline>>
      BY DEF Break, Running, TypeOK
    <2>2. /\ pass' \in Passes /\ pass' # None /\ pass'.end = end
          /\ pass'.owned = pass.owned /\ pass'.part = pass.part
      BY <2>1 DEF Break, Passes
    <2>3. sent' \in [Actions -> Nat] /\ \A a \in Actions : sent'[a] <= 1
      <3>1. CASE UNCHANGED sent
        BY <3>1 DEF TypeOK, Accounted
      <3>2. ASSUME NEW p \in pass.todo, Dispatch(p)
            PROVE  sent' \in [Actions -> Nat] /\ \A a \in Actions : sent'[a] <= 1
        <4>1. Action(p) \in Actions /\ sent[Action(p)] = 0
          BY DueIsNew DEF Break
        <4> QED
          BY <3>2, <4>1 DEF Dispatch, TypeOK, Accounted
      <3> QED
        BY <3>1, <3>2 DEF Break
    <2>4. TypeOK'
      BY <2>1, <2>2, <2>3 DEF TypeOK
    <2>5. Together'
      <3>1. sess # None /\ sess.call \in PassCalls /\ ~Lost => sess.at = "out"
        BY <2>1 DEF Together, TypeOK, Sessions
      <3> QED
        BY <2>1, <2>2, <3>1 DEF Together, Lost
    <2>6. Coherent' /\ DueStill'
      BY <2>1, <2>2 DEF Coherent, OnClock, DueStill, Running
    <2>7. Accounted' /\ Closed'
      BY <2>1, <2>2, <2>3 DEF Accounted, Closed
    <2> QED
      BY <2>4, <2>5, <2>6, <2>7 DEF IInv
  <1>Forget. CASE Forget
    <2> USE <1>0, <1>Forget
    <2>1. /\ pass # None /\ ~pass.owned /\ pass' = None
          /\ UNCHANGED <<policy, snap, blocked, stopped, sess, drv, deadline, sent>>
      BY DEF Forget
    <2>2. TypeOK'
      BY <2>1 DEF TypeOK
    <2>3. Together'
      BY <2>1 DEF Together, Lost
    <2>4. Coherent' /\ DueStill' /\ Closed'
      BY <2>1 DEF Coherent, OnClock, DueStill, Running, Closed
    <2>5. Accounted'
      BY <2>1 DEF Accounted, Together, Lost, PassCalls, ServiceCalls
    <2> QED
      BY <2>2, <2>3, <2>4, <2>5 DEF IInv
  <1>EndTime. ASSUME NEW s \in Results(sess.call, sess.n), EndTime(s) PROVE IInv'
    <2> USE <1>0, <1>EndTime
    <2>1. /\ sess \in Sessions /\ sess # None /\ sess.call \in TimeCalls
          /\ sess.at = "back" /\ sess.res = "ok"
          /\ snap' = s /\ UNCHANGED <<policy, blocked, stopped, sent>>
      BY DEF EndTime, Back, TypeOK
    <2>2. /\ ~blocked /\ pass = None /\ ~Lost /\ Counted(snap.part)
          /\ sess.call \in {"jump", "reset"} => snap.clock.seg < MaxSegment
          /\ sess.call \notin ServiceCalls
      BY <2>1 DEF Together, Accounted, Lost, TimeCalls, PassCalls, ServiceCalls
    <2>3. s \in Snaps /\ Agree(s) /\ \A p \in Roster : Onward(s.part[p], snap.part[p])
      BY <2>1, <2>2, ResultsCoherent DEF Coherent, Sessions
    <2>4. Counted(s.part)
      <3>1. ASSUME NEW a \in Actions
            PROVE  /\ a[1] \in Roster /\ a[2] \in Nat /\ a[3] \in Nat
                   /\ s.part[a[1]] \in States /\ snap.part[a[1]] \in States
        BY <2>3 DEF Actions, Snaps, TypeOK
      <3>2. \A st \in States : st.seg \in Nat /\ st.tried \in Nat
        BY DEF States
      <3>3. ASSUME NEW a \in Actions, sent[a] # 0
            PROVE  \/ s.part[a[1]].seg > a[2]
                   \/ s.part[a[1]].seg = a[2] /\ a[3] < s.part[a[1]].tried
        <4>1. \/ snap.part[a[1]].seg > a[2]
              \/ snap.part[a[1]].seg = a[2] /\ a[3] < snap.part[a[1]].tried
          BY <2>2, <3>3 DEF Counted
        <4>2. \/ /\ s.part[a[1]].seg = snap.part[a[1]].seg
                 /\ s.part[a[1]].tried = snap.part[a[1]].tried
              \/ s.part[a[1]].seg > snap.part[a[1]].seg
          BY <2>3, <3>1 DEF Onward
        <4>3. /\ s.part[a[1]].seg \in Nat /\ snap.part[a[1]].seg \in Nat
              /\ a[2] \in Nat
          BY <3>1, <3>2
        <4>4. CASE s.part[a[1]].seg > snap.part[a[1]].seg
          <5>1. snap.part[a[1]].seg >= a[2]
            BY <4>1, <4>3
          <5> QED
            BY <4>3, <4>4, <5>1
        <4>5. CASE /\ s.part[a[1]].seg = snap.part[a[1]].seg
                   /\ s.part[a[1]].tried = snap.part[a[1]].tried
          BY <4>1, <4>5
        <4> QED
          BY <4>2, <4>4, <4>5
      <3> QED
        BY <3>3 DEF Counted
    <2>5. deadline' \in Deadlines \cup {None}
      BY DEF EndTime, TypeOK, Deadlines
    <2>6. CASE sess.call \notin {"pause", "reset"} /\ ~stopped
      <3>1. BeginPass(sess.who, s) /\ drv' = drv /\ drv # "failed"
        BY <2>6 DEF EndTime, Closed
      <3>2. /\ sess' \in Sessions /\ pass' \in Passes
            /\ Together' /\ Coherent' /\ DueStill' /\ Accounted' /\ Closed'
        BY <2>1, <2>2, <2>3, <2>4, <3>1, BeginPassKeeps DEF Sessions
      <3>3. TypeOK'
        BY <2>1, <2>3, <2>5, <3>1, <3>2 DEF TypeOK
      <3> QED
        BY <3>2, <3>3 DEF IInv
    <2>7. CASE ~(sess.call \notin {"pause", "reset"} /\ ~stopped)
      <3>1. sess' = None /\ pass' = pass /\ drv' \in {drv, "failing"}
        BY <2>7 DEF EndTime, DriverTo
      <3>2. TypeOK'
        BY <2>1, <2>3, <2>5, <3>1 DEF TypeOK
      <3>3. Together' /\ Coherent' /\ DueStill' /\ Closed'
        BY <2>1, <2>2, <2>3, <3>1
           DEF Together, Coherent, OnClock, Agree, DueStill, Running, Closed
      <3>4. Accounted'
        BY <2>1, <2>2, <2>4, <3>1 DEF Accounted, Counted
      <3> QED
        BY <3>2, <3>3, <3>4 DEF IInv
    <2> QED
      BY <2>6, <2>7
  <1>EndDue. CASE EndDue
    <2> USE <1>0, <1>EndDue
    <2>1. /\ sess \in Sessions /\ sess # None /\ sess.call \in PassCalls
          /\ sess.at = "back" /\ sess.res \in {"ok", "bad"} /\ ~Lost
          /\ sess' = None /\ pass' = None
          /\ snap' = [snap EXCEPT !.part = pass.part]
          /\ blocked' = (blocked \/ sess.res = "bad")
          /\ drv' \in {"poll", "off", "ended", drv}
          /\ UNCHANGED <<policy, stopped, deadline, sent>>
      BY DEF EndDue, Back, TypeOK, DriverTo, Lost
    <2>2. pass \in Passes /\ pass # None /\ pass.end = sess.res
      BY <2>1 DEF Together, TypeOK
    <2>3. /\ snap' \in Snaps /\ snap'.part = pass.part /\ snap'.clock = snap.clock
          /\ snap'.svc = snap.svc
      BY <2>1, <2>2 DEF TypeOK, Snaps, Passes
    <2>4. TypeOK'
      BY <2>1, <2>3 DEF TypeOK
    <2>5. Together' /\ Coherent' /\ DueStill' /\ Closed'
      BY <2>1, <2>2, <2>3
         DEF Together, Coherent, OnClock, DueStill, Running, Closed
    <2>6. Accounted'
      BY <2>1, <2>2, <2>3 DEF Accounted, Counted
    <2> QED
      BY <2>4, <2>5, <2>6 DEF IInv
  <1>EndUnknown. CASE EndUnknown
    <2> USE <1>0, <1>EndUnknown
    <2>1. /\ sess # None /\ Lost /\ sess' = None /\ blocked' = TRUE
          /\ drv' \in {drv, "ended"}
          /\ UNCHANGED <<policy, snap, stopped, pass, deadline, sent>>
      BY DEF EndUnknown, Back, DriverTo, Lost
    <2>2. TypeOK'
      BY <2>1 DEF TypeOK
    <2>3. Together' /\ Coherent' /\ Closed'
      BY <2>1 DEF Together, Coherent, OnClock, Closed
    <2>4. DueStill' /\ Accounted'
      BY <2>1 DEF DueStill, Running, Accounted, Counted
    <2> QED
      BY <2>2, <2>3, <2>4 DEF IInv
  <1>EndService. CASE EndService
    <2> USE <1>0, <1>EndService
    <2>1. /\ sess # None /\ sess.call \in ServiceCalls /\ sess' = None
          /\ blocked' = (blocked \/ drv = "failed")
          /\ drv = "failed" => snap'.svc = snap.svc
          /\ snap' \in Snaps /\ snap'.part = snap.part /\ snap'.clock = snap.clock
          /\ UNCHANGED <<policy, stopped, pass, drv, deadline, sent>>
      BY DEF EndService, Back, TypeOK, Snaps
    <2>2. sess.call \notin PassCalls /\ pass = None
      BY <2>1 DEF Together, PassCalls, ServiceCalls
    <2>3. TypeOK'
      BY <2>1 DEF TypeOK
    <2>4. Together' /\ Coherent' /\ DueStill' /\ Closed'
      BY <2>1, <2>2 DEF Together, Coherent, OnClock, DueStill, Running, Closed
    <2>5. Accounted'
      BY <2>1, <2>2 DEF Accounted, Counted
    <2> QED
      BY <2>3, <2>4, <2>5 DEF IInv
  <1>Lose. CASE Lose
    <2> USE <1>0, <1>Lose
    <2>1. /\ sess # None /\ sess' = None /\ blocked' = TRUE /\ drv = "cut"
          /\ pass' = IF pass # None /\ pass.owned THEN None ELSE pass
          /\ UNCHANGED <<policy, snap, stopped, drv, deadline, sent>>
      BY DEF Lose, Locking
    <2>2. TypeOK'
      BY <2>1 DEF TypeOK
    <2>3. Together' /\ Coherent' /\ Closed'
      BY <2>1 DEF Together, Coherent, OnClock, Closed
    <2>4. DueStill' /\ Accounted'
      BY <2>1 DEF DueStill, Running, Accounted, Counted
    <2> QED
      BY <2>2, <2>3, <2>4 DEF IInv
  <1>Driver. ASSUME UNCHANGED <<policy, snap, blocked, sess, pass, sent>>,
                    stopped => stopped', stopped' \in BOOLEAN, deadline' \in Deadlines \cup {None},
                    drv' \in {"poll", "wait", "serve", "failing", "cut", drv},
                    drv' # drv => drv # "off"
             PROVE  IInv'
    <2> USE <1>0, <1>Driver
    <2>1. TypeOK'
      BY DEF TypeOK
    <2>2. Together' /\ Coherent' /\ DueStill'
      BY DEF Together, Coherent, OnClock, DueStill, Running, Lost
    <2>3. Accounted'
      BY DEF Accounted, Counted, Lost
    <2>4. Closed'
      BY DEF Closed
    <2> QED
      BY <2>1, <2>2, <2>3, <2>4 DEF IInv
  <1>deadline. ~Idle => Deadline \in Deadlines
    <2> SUFFICES ASSUME ~Idle PROVE Deadline \in Deadlines
      OBVIOUS
    <2>1. NextTick \in Nat
      BY <1>0, NextTickIsDue
    <2>2. Key \in (0..MaxSegment) \X Nat \X Nat
      BY <1>0, <2>1 DEF Key, TypeOK, Snaps
    <2> QED
      BY <1>0, <2>2 DEF Deadline, Deadlines, TypeOK
  <1>Poll. CASE Poll
    <2>1. deadline' \in Deadlines \cup {None} /\ drv' \in {"serve", "wait", "poll"}
      BY <1>0, <1>deadline, <1>Poll DEF Poll, Look, TypeOK
    <2>2. UNCHANGED <<policy, snap, blocked, stopped, sess, pass, sent>> /\ drv = "poll"
      BY <1>Poll DEF Poll
    <2> QED
      BY <1>0, <1>Driver, <2>1, <2>2 DEF TypeOK
  <1>Elapse. CASE Elapse
    <2>1. deadline' \in Deadlines
      BY <1>0, <1>Elapse DEF Elapse, TypeOK, Deadlines
    <2> QED
      BY <1>0, <1>Driver, <1>Elapse, <2>1 DEF Elapse, TypeOK
  <1>Wake. CASE Wake
    BY <1>0, <1>Driver, <1>Wake DEF Wake, TypeOK
  <1>Serve. CASE Serve
    <2> USE <1>0, <1>Serve
    <2>1. sess = None /\ drv = "serve" /\ UNCHANGED <<policy, snap, blocked, stopped, sent>>
      BY DEF Serve
    <2>2. CASE ~Ready \/ ~Admitted
      <3>1. /\ UNCHANGED <<sess, pass>> /\ drv' \in {"failing", "poll"}
            /\ deadline' \in {deadline, None} \/ (~Idle /\ deadline' = Deadline)
        BY <2>2 DEF Serve, Look
      <3>2. deadline' \in Deadlines \cup {None}
        BY <3>1, <1>deadline DEF TypeOK
      <3> QED
        BY <1>Driver, <2>1, <3>1, <3>2 DEF TypeOK
    <2>3. CASE Ready /\ Admitted
      <3>1. /\ drv' = "busy" /\ UNCHANGED deadline /\ ~blocked /\ ~Idle
            /\ pass = None /\ Counted(snap.part)
        BY <2>1, <2>3, IdleHasNoPass DEF Serve, Look, Ready, Admitted
      <3>2. CASE DueNow
        <4>1. BeginPass(Driver, snap)
          BY <2>3, <3>2 DEF Serve
        <4>2. snap \in Snaps /\ Agree(snap)
          BY DEF TypeOK, Coherent, OnClock, Agree
        <4>3. /\ sess' \in Sessions /\ pass' \in Passes
              /\ Together' /\ Coherent' /\ DueStill' /\ Accounted' /\ Closed'
          BY <2>1, <3>1, <4>1, <4>2, BeginPassKeeps
        <4>4. TypeOK'
          BY <2>1, <3>1, <4>3 DEF TypeOK
        <4> QED
          BY <4>3, <4>4 DEF IInv
      <3>3. CASE ~DueNow
        <4>1. /\ sess' = Session(Driver, "advance", NextTick - snap.clock.tick)
              /\ pass' = None
          BY <2>3, <3>1, <3>3 DEF Serve
        <4>2. NextTick - snap.clock.tick \in Nat
          <5>1. NextTick \in Nat /\ snap.clock.tick \in Nat
            BY <3>1, NextTickIsDue DEF TypeOK, Snaps
          <5>2. ~(NextTick <= snap.clock.tick)
            BY <3>1, <3>3 DEF DueNow
          <5> QED
            BY <5>1, <5>2
        <4>3. /\ sess' \in Sessions /\ sess' # None /\ sess'.call = "advance"
              /\ sess'.at = "out" /\ sess'.res = "none"
          BY <4>1, <4>2 DEF Session, Sessions, TimeCalls
        <4>4. TypeOK'
          BY <2>1, <3>1, <4>1, <4>3 DEF TypeOK
        <4>5. Together'
          BY <2>1, <3>1, <4>1, <4>3 DEF Together, PassCalls
        <4>6. Coherent' /\ DueStill' /\ Closed'
          BY <2>1, <3>1, <4>1 DEF Coherent, OnClock, DueStill, Running, Closed
        <4>7. Accounted'
          BY <2>1, <3>1, <4>1, <4>3 DEF Accounted, Counted
        <4> QED
          BY <4>4, <4>5, <4>6, <4>7 DEF IInv
      <3> QED
        BY <3>2, <3>3
    <2> QED
      BY <2>2, <2>3
  <1>DriverTimesOut. CASE DriverTimesOut
    BY <1>0, <1>Driver, <1>DriverTimesOut DEF DriverTimesOut, TypeOK
  <1>Cut. CASE Cut
    BY <1>0, <1>Driver, <1>Cut DEF Cut, TypeOK
  <1>CommitFailure. CASE CommitFailure
    <2> USE <1>0, <1>CommitFailure
    <2>1. /\ drv = "cut" /\ drv' = "failed" /\ stopped' = TRUE
          /\ snap' \in Snaps /\ snap'.part = snap.part /\ snap'.clock = snap.clock
          /\ snap'.svc = FALSE
          /\ UNCHANGED <<policy, blocked, sess, pass, deadline, sent>>
      BY DEF CommitFailure, TypeOK, Snaps
    <2>2. sess # None => sess.call \in ServiceCalls /\ sess.call \notin PassCalls
      BY <2>1 DEF CommitFailure, Locking, Together, TypeOK, Sessions, PassCalls
    <2>3. TypeOK'
      BY <2>1 DEF TypeOK
    <2>4. Together' /\ Coherent'
      BY <2>1, <2>2 DEF Together, Coherent, OnClock, Lost
    <2>5. DueStill'
      <3>1. pass # None => blocked
        BY <2>2 DEF Together, Lost
      <3> QED
        BY <2>1, <3>1 DEF DueStill, Running
    <2>6. Accounted' /\ Closed'
      BY <2>1, <2>2 DEF Accounted, Counted, Closed, Lost
    <2> QED
      BY <2>3, <2>4, <2>5, <2>6 DEF IInv
  <1>StopAdmission. CASE StopAdmission
    BY <1>0, <1>Driver, <1>StopAdmission DEF StopAdmission, TypeOK
  <1>stutter. CASE UNCHANGED vars
    BY <1>0, <1>Driver, <1>stutter DEF vars, TypeOK
  <1>Ask. ASSUME NEW c \in Callers, Ask(c) PROVE IInv'
    <2>1. ASSUME NEW call \in {"pause", "resume"} \cup ServiceCalls, Submit(c, call, 0)
          PROVE  IInv'
      BY <1>Submit, <2>1 DEF TimeCalls, ServiceCalls
    <2>2. ASSUME NEW n \in 1..MaxTick, Submit(c, "advance", n) PROVE IInv'
      BY <1>Submit, <2>2 DEF TimeCalls
    <2>3. ASSUME NEW n \in 0..MaxTick, snap.clock.seg < MaxSegment, Submit(c, "jump", n)
          PROVE  IInv'
      BY <1>Submit, <2>3 DEF TimeCalls
    <2>4. ASSUME snap.clock.seg < MaxSegment, Submit(c, "reset", 0) PROVE IInv'
      BY <1>Submit, <2>4 DEF TimeCalls
    <2> QED
      BY <1>Ask, <1>SubmitDue, <2>1, <2>2, <2>3, <2>4 DEF Ask
  <1> QED
    BY <1>CallReturns, <1>PassReturns, <1>CallTimesOut, <1>Batch, <1>Serial,
       <1>Break, <1>Forget, <1>EndTime, <1>EndDue, <1>EndUnknown, <1>EndService,
       <1>Lose, <1>Poll, <1>Elapse, <1>Wake, <1>Serve, <1>DriverTimesOut,
       <1>Cut, <1>CommitFailure, <1>StopAdmission, <1>Ask, <1>stutter
       DEF Next, DriverStep, SessionStep, WorkerStep

LEMMA IInvAlways == Spec => []IInv
  BY InitIInv, StepKeepsIInv, PTL DEF Spec

--------------------------------------------------------------------------------
(* The theorems                                                               *)

\* The variables keep their types.
THEOREM TypeCorrect == Spec => []TypeOK
  <1>1. IInv => TypeOK
    BY DEF IInv
  <1> QED
    BY IInvAlways, <1>1, PTL

\* No action of a participant is handed to the backend twice, and where the
\* plane knows of no unresolved operation each is counted in its participant.
THEOREM ActionsOnceAlways == Spec => []ActionsOnce
  <1>1. IInv => ActionsOnce
    <2> SUFFICES ASSUME IInv, NEW a \in Actions
                 PROVE  /\ sent[a] <= 1
                        /\ sess = None /\ ~blocked /\ sent[a] = 1
                              /\ snap.part[a[1]].seg = a[2] =>
                           a[3] < snap.part[a[1]].tried
      BY DEF ActionsOnce
    <2>1. sent[a] <= 1
      BY DEF IInv, Accounted
    <2>2. ASSUME sess = None, ~blocked, sent[a] = 1, snap.part[a[1]].seg = a[2]
          PROVE  a[3] < snap.part[a[1]].tried
      <3>1. Counted(snap.part)
        BY <2>2, IdleHasNoPass
      <3>2. a[2] \in Nat
        BY DEF Actions
      <3> QED
        BY <2>2, <3>1, <3>2 DEF Counted
    <2> QED
      BY <2>1, <2>2
  <1> QED
    BY IInvAlways, <1>1, PTL

\* Once the driver has failed the service stays closed.
THEOREM PacingLossStandsAlways == Spec => []PacingLossStands
  <1>1. IInv => PacingLossStands
    BY DEF IInv, Closed, PacingLossStands
  <1> QED
    BY IInvAlways, <1>1, PTL

\* Whoever a step hands to the backend is left to a pass that runs.
LEMMA DispatchedIsLeft ==
    ASSUME IInv, [Next]_vars, NEW a \in Actions, sent'[a] > sent[a]
    PROVE  Running /\ \E p \in pass.todo : a = Action(p)
  <1> USE RosterAssumption, PolicyAssumption, NoneAssumption
  <1>0. sent \in [Actions -> Nat]
    BY DEF IInv, TypeOK
  <1>1. sent' # sent
    BY <1>0
  <1>2. ASSUME NEW S \in SUBSET pass.todo, NEW v \in [S -> Verdicts], Running, Batch(v)
        PROVE  \E p \in pass.todo : a = Action(p)
    BY <1>0, <1>2 DEF Batch
  <1>3. ASSUME NEW p \in pass.todo, Dispatch(p) PROVE a = Action(p)
    BY <1>0, <1>3 DEF Dispatch
  <1>4. ASSUME NEW p \in pass.todo, NEW v, Running, Serial(p, v)
        PROVE  \E q \in pass.todo : a = Action(q)
    BY <1>1, <1>3, <1>4 DEF Serial
  <1>5. ASSUME NEW end, Break(end) PROVE Running /\ \E p \in pass.todo : a = Action(p)
    BY <1>1, <1>3, <1>5 DEF Break
  <1>6. ~Forget /\ ~SessionStep
    BY <1>1
       DEF Forget, SessionStep, CallReturns, PassReturns, EndTime, EndDue,
           EndUnknown, EndService, Lose
  <1>7. /\ ~DriverStep /\ ~Elapse /\ ~CallTimesOut /\ ~DriverTimesOut /\ ~StopAdmission
        /\ sent' # sent
    BY <1>1
       DEF DriverStep, Poll, Wake, Serve, Cut, CommitFailure, Elapse,
           CallTimesOut, DriverTimesOut, StopAdmission
  <1>8. ~UNCHANGED vars /\ \A c \in Callers : ~Ask(c)
    BY <1>1 DEF vars, Ask, Submit, SubmitDue
  <1> QED
    BY <1>2, <1>4, <1>5, <1>6, <1>7, <1>8 DEF Next, WorkerStep

\* An action is dispatched on the running clock, in the segment and at the tick
\* its participant was due at.
THEOREM DispatchInTurnAlways == Spec => DispatchInTurn
  <1>1. ASSUME IInv, [Next]_vars, NEW a \in Actions, sent'[a] > sent[a]
        PROVE  /\ snap.clock.state = "running" /\ snap.clock.seg = a[2]
               /\ snap.part[a[1]].next = snap.clock.tick
               /\ snap.svc \/ blocked
    <2>1. Running
      BY <1>1, DispatchedIsLeft
    <2>2. PICK p \in pass.todo : a = Action(p)
      BY <1>1, DispatchedIsLeft
    <2>3. p \in Roster
      BY <1>1, <2>1, DueIsNew
    <2>4. a[1] = p /\ a[2] = pass.part[p].seg
      BY <2>2 DEF Action
    <2>5. /\ pass.part[p] = snap.part[p] /\ snap.part[p].life = "running"
          /\ snap.part[p].next = snap.clock.tick /\ (snap.svc \/ blocked)
      BY <1>1, <2>1 DEF IInv, DueStill
    <2>6. snap.part[p].seg = snap.clock.seg /\ snap.clock.state = "running"
      BY <1>1, <2>3, <2>5 DEF IInv, Coherent, OnClock, Active
    <2> QED
      BY <2>4, <2>5, <2>6
  <1>2. IInv /\ [Next]_vars =>
          [\A a \in Actions : sent'[a] > sent[a] =>
              /\ snap.clock.state = "running" /\ snap.clock.seg = a[2]
              /\ snap.part[a[1]].next = snap.clock.tick
              /\ snap.svc \/ blocked]_vars
    BY <1>1
  <1> QED
    BY IInvAlways, <1>2, PTL DEF Spec, DispatchInTurn

================================================================================
