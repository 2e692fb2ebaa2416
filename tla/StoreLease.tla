----------------------------- MODULE StoreLease -----------------------------
(****************************************************************************)
(* The owner lease of the two durable ledgers.  Both follow one discipline: *)
(* take a lock, admit the owner in a transaction that advances the owner    *)
(* generation, and check the ownership before each later transaction, not   *)
(* within it.                                                               *)
(*                                                                          *)
(* postgresql: the lock is an advisory lock of a session of its own, which  *)
(* the server drops with the session while other connections live on; each  *)
(* transaction locks the row with the generation and compares it.           *)
(* local: the lock is a flock on the store's directory (and on the lock     *)
(* file, whose identity is what the check compares), which lasts as long as *)
(* any descriptor, a forked copy's too; SQLite has no generation check.     *)
(****************************************************************************)
EXTENDS Naturals, FiniteSets

CONSTANTS
    Procs,       \* processes, each with one store object
    Txs,         \* transactions under way at one time
    Nobody,
    MaxGen,      \* bound: admissions
    MaxFaults    \* bound: sessions lost, files replaced, processes lost, forks

ASSUME NamesAssumption == Nobody \notin Procs \cup Txs /\ Procs \cap Txs = {}
ASSUME BoundsAssumption == MaxGen \in Nat \ {0} /\ MaxFaults \in Nat

VARIABLES
    kind,        \* of the ledger
    phase,       \* of each store's admission
    mygen,       \* _owner_generation of each store object, 0 for None
    held,        \* who has the lock: a process or the forked copy of it
    file,        \* identity of the lock file
    leased,      \* ... and the one each lease was acquired with
    generation,  \* the owner generation in the ledger
    writer,      \* who has the ledger's write lock: a transaction or an admission
    tx,          \* transactions
    written,     \* history: the generation that committed last
    faults

objects == <<phase, mygen, leased>>
leaseVars == <<kind, objects, held, file, generation, writer, tx, written, faults>>

Own(p) == <<p, "process">>
Copy(p) == <<p, "copy">>
Descriptors == Procs \X {"process", "copy"}

Free == [by |-> Nobody, gen |-> 0, at |-> "free"]

LeaseTypeOK ==
    /\ kind \in {"postgresql", "local"}
    /\ phase \in [Procs -> {"none", "locked", "checked", "admitting", "owner"}]
    /\ mygen \in [Procs -> 0 .. MaxGen + 1]
    /\ held \subseteq Descriptors
    /\ file \in Nat /\ leased \in [Procs -> Nat]
    /\ generation \in 0 .. MaxGen /\ written \in 0 .. generation
    /\ writer \in Procs \cup Txs \cup {Nobody}
    /\ \A p \in Procs : writer = p <=> phase[p] = "admitting"
    /\ tx \in [Txs -> [by : Procs, gen : 1 .. MaxGen, at : {"checked", "open"}] \cup {Free}]
    /\ \A t \in Txs : writer = t <=> tx[t].at = "open"
    /\ faults \in 0 .. MaxFaults

LeaseInit ==
    /\ kind \in {"postgresql", "local"}
    /\ phase = [p \in Procs |-> "none"] /\ mygen = [p \in Procs |-> 0]
    /\ held = {} /\ file = 1 /\ leased = [p \in Procs |-> 0]
    /\ generation = 0 /\ writer = Nobody /\ tx = [t \in Txs |-> Free]
    /\ written = 0 /\ faults = MaxFaults

Fault == faults > 0 /\ faults' = faults - 1

-----------------------------------------------------------------------------
(* Ownership                                                               *)

\* Mutant: only the lock file is locked, not the directory.
LockFreeFile == \A d \in held : leased[d[1]] # file

\* pg_try_advisory_lock; _acquire_store_directory_guard
LockFree == held = {}

\* assert_owner: the session still has the lock; the lock file is still the one
\* the lease was acquired with (that it is still locked is not looked at).
Owns(p) ==
    /\ phase[p] # "none"
    /\ IF kind = "postgresql" THEN Own(p) \in held ELSE leased[p] = file

\* close of a lease.  LOCK_UN frees the lock for every copy of the descriptor.
Unlocked(p) == IF kind = "local" THEN held \ {Own(p), Copy(p)} ELSE held \ {Own(p)}

\* admit_runtime, _admit: the store object is not admitted and gets the lock.
Acquire(p) ==
    /\ phase[p] = "none" /\ LockFree /\ generation < MaxGen
    /\ held' = held \cup {Own(p)}
    /\ phase' = [phase EXCEPT ![p] = "locked"]
    /\ leased' = [leased EXCEPT ![p] = file]
    /\ UNCHANGED <<kind, mygen, file, generation, writer, tx, written, faults>>

\* The ownership check of the connection for the admission
CheckAdmission(p) ==
    /\ phase[p] = "locked" /\ Owns(p)
    /\ phase' = [phase EXCEPT ![p] = "checked"]
    /\ UNCHANGED <<kind, mygen, leased, held, file, generation, writer, tx,
                   written, faults>>

\* Mutant: an admission is not held against the generation in the ledger.
CurrentAlways(g) == TRUE

\* _require_current_owner; there is none in the local store
Current(g) == kind = "local" \/ g = generation

\* The admission's transaction: a store that was admitted before must still be
\* the latest one.
BeginAdmission(p) ==
    /\ phase[p] = "checked" /\ writer = Nobody
    /\ mygen[p] = 0 \/ Current(mygen[p])
    /\ writer' = p
    /\ phase' = [phase EXCEPT ![p] = "admitting"]
    /\ UNCHANGED <<kind, mygen, leased, held, file, generation, tx, written, faults>>

Admit(p) ==
    /\ phase[p] = "admitting" /\ generation < MaxGen
    /\ generation' = generation + 1 /\ written' = generation'
    /\ mygen' = [mygen EXCEPT ![p] = generation']
    /\ phase' = [phase EXCEPT ![p] = "owner"]
    /\ writer' = Nobody
    /\ UNCHANGED <<kind, leased, held, file, tx, faults>>

\* The admission raises, the lease is closed.  Within the transaction the new
\* generation is in the object before the commit, which may have happened or
\* not; the local store does not keep it.
AdmissionFails(p) ==
    /\ phase[p] \in {"locked", "checked", "admitting"}
    /\ phase' = [phase EXCEPT ![p] = "none"]
    /\ held' = Unlocked(p)
    /\ IF phase[p] = "admitting"
       THEN /\ writer' = Nobody
            /\ \/ UNCHANGED <<generation, written, mygen>>
               \/ /\ generation < MaxGen /\ kind = "postgresql"
                  /\ mygen' = [mygen EXCEPT ![p] = generation + 1]
                  /\ \/ generation' = generation + 1 /\ written' = generation'
                     \/ UNCHANGED <<generation, written>>
       ELSE UNCHANGED <<writer, generation, written, mygen>>
    /\ UNCHANGED <<kind, leased, file, tx, faults>>

-----------------------------------------------------------------------------
(* Transactions of an owner                                                *)

\* _connection, _connect: admitted, and the ownership is asserted
Check(p, t) ==
    /\ phase[p] = "owner" /\ Owns(p) /\ tx[t] = Free
    /\ tx' = [tx EXCEPT ![t] = [by |-> p, gen |-> mygen[p], at |-> "checked"]]
    /\ UNCHANGED <<kind, objects, held, file, generation, writer, written, faults>>

\* transaction: FOR UPDATE and the generation; BEGIN IMMEDIATE
Begin(t) ==
    /\ tx[t].at = "checked" /\ writer = Nobody /\ Current(tx[t].gen)
    /\ writer' = t /\ tx' = [tx EXCEPT ![t].at = "open"]
    /\ UNCHANGED <<kind, objects, held, file, generation, written, faults>>

\* "execution owner is stale", a connection that fails, or a rollback
Ends(t) ==
    /\ tx[t] # Free
    /\ tx' = [tx EXCEPT ![t] = Free]
    /\ writer' = IF writer = t THEN Nobody ELSE writer
    /\ UNCHANGED <<kind, objects, held, file, generation, written, faults>>

Commit(t) ==
    /\ tx[t].at = "open"
    /\ written' = tx[t].gen
    /\ writer' = Nobody /\ tx' = [tx EXCEPT ![t] = Free]
    /\ UNCHANGED <<kind, objects, held, file, generation, faults>>

-----------------------------------------------------------------------------
(* The end of an ownership                                                 *)

\* close of the lease.  The control plane drains first (see ExecutionAdapter);
\* the local store needs that, the other is fenced by the generation and is
\* not assumed to.
Close(p) ==
    /\ phase[p] = "owner"
    /\ kind = "local" => \A t \in Txs : tx[t].by # p
    /\ phase' = [phase EXCEPT ![p] = "none"]
    /\ held' = Unlocked(p)
    /\ UNCHANGED <<kind, mygen, leased, file, generation, writer, tx, written, faults>>

\* The server ends the session with the advisory lock.
SessionLost(p) ==
    /\ kind = "postgresql" /\ Own(p) \in held /\ Fault
    /\ held' = held \ {Own(p)}
    /\ UNCHANGED <<kind, objects, file, generation, writer, tx, written>>

\* The lock file is removed or replaced under its owner.
ReplaceFile ==
    /\ kind = "local" /\ Fault
    /\ file' = file + 1
    /\ UNCHANGED <<kind, objects, held, generation, writer, tx, written>>

\* A worker is forked.  It inherits the descriptors; the copy of the lease is
\* refused in assert_owner by its process id.
Fork(p) ==
    /\ kind = "local" /\ Own(p) \in held /\ Copy(p) \notin held /\ Fault
    /\ held' = held \cup {Copy(p)}
    /\ UNCHANGED <<kind, objects, file, generation, writer, tx, written>>

\* Mutant: closing the copy unlocks as well.
CopyUnlocks(p) ==
    /\ Copy(p) \in held
    /\ held' = held \ {Copy(p), Own(p)}
    /\ UNCHANGED <<kind, objects, file, generation, writer, tx, written, faults>>

\* close in the copy, __del__ or its end: the descriptors, but no LOCK_UN
CopyCloses(p) ==
    /\ Copy(p) \in held
    /\ held' = held \ {Copy(p)}
    /\ UNCHANGED <<kind, objects, file, generation, writer, tx, written, faults>>

\* A transaction that the process leaves behind; a begun one is the server's.
Left(p, t) == IF tx[t].by = p /\ (kind = "local" \/ tx[t].at = "checked") THEN Free ELSE tx[t]

\* The process is lost; another one, with a new store object, takes its place.
\* The server may have got the commit of its admission.
ProcessExit(p) ==
    /\ phase[p] # "none" /\ Fault
    /\ phase' = [phase EXCEPT ![p] = "none"]
    /\ mygen' = [mygen EXCEPT ![p] = 0]
    /\ held' = held \ {Own(p)}
    /\ tx' = [t \in Txs |-> Left(p, t)]
    /\ writer' = IF writer = p \/ (\E t \in Txs : writer = t /\ Left(p, t) = Free)
                 THEN Nobody ELSE writer
    /\ \/ UNCHANGED <<generation, written>>
       \/ /\ kind = "postgresql" /\ phase[p] = "admitting" /\ generation < MaxGen
          /\ generation' = generation + 1 /\ written' = generation'
    /\ UNCHANGED <<kind, leased, file>>

-----------------------------------------------------------------------------

LeaseNext ==
    \/ \E p \in Procs :
          \/ Acquire(p) \/ CheckAdmission(p) \/ BeginAdmission(p)
          \/ Admit(p) \/ AdmissionFails(p)
          \/ Close(p) \/ SessionLost(p) \/ Fork(p) \/ CopyCloses(p) \/ ProcessExit(p)
          \/ \E t \in Txs : Check(p, t)
    \/ \E t \in Txs : Begin(t) \/ Commit(t) \/ Ends(t)
    \/ ReplaceFile

LeaseSpec == LeaseInit /\ [][LeaseNext]_leaseVars

-----------------------------------------------------------------------------
(* Properties                                                              *)

\* Writes come in the order of the admissions: once an admission has
\* committed, nothing of a former owner does, however its writes were delayed
\* between check, transaction and commit, and however it lost its lock.
WritesInOrder == [][written' >= written]_leaseVars

\* Two processes never both pass the ownership check of one ledger, although
\* the local check does not look at the lock and copies share it.
OneOwner == \A p, q \in Procs : Owns(p) /\ Owns(q) => p = q

\* A stale owner does not advance over its replacement: whoever is admitted
\* and passes the ownership check has the ledger's generation.
ReplacementStands ==
    \A p \in Procs : phase[p] = "owner" /\ Owns(p) => mygen[p] = generation

=============================================================================
