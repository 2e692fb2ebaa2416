# A TLA+ verification of the RAES runtime

RAES describes cyber-range scenarios (the SDL), compiles them to plans and runs the
plans against backends. What can go wrong in ways that a test hardly reaches is
concentrated in one package, `implementations/python/packages/raes_runtime`: its
control plane admits operations, invokes backends outside the process, publishes
results in a durable store, and has to stay correct when a process is lost, a store
write is not acknowledged, a callback outlives its caller, or a supervisor
intervenes while an effect is out. This project models that core.

All paths below are relative to `implementations/python/packages/` unless they
start with `specs/` or `docs/`.

## 1. Inventory

### The runtime

| Part | State it keeps | Operations | Interacts with |
|---|---|---|---|
| Mutation authority (`raes_runtime/control_plane_mutation.py`) | permit (`_owner_thread`, `_reservation`), effect owner, nesting depth, queue of asynchronous waiters, child scopes | `mutation`, `supervision`, `reserve`, `external_call`, `run_invocation_child`, scope open and close | every public call of the plane |
| Operation control plane (`control_plane_supervised_execution.py`, `control_plane_execution.py`, `control_plane_supervision.py`, `control_plane_durability.py`, `control_plane_admission.py`) | poison, stop flag, execution generation; caches of records and snapshot | claim, validate, dispatch, settle, cancel, stop admission, driver failure, resolution | authority, adapter, store, backend |
| Startup recovery (`control_plane_recovery.py`, `control_plane_composition.py`) | none of its own | classification of every unfinished record | store, recovery observer |
| Stores (`control_plane_store_memory.py`, `..._local*.py`, `..._postgresql*.py`, `..._transitions.py`, `operation_invocation_ledger.py`) | records, invocation ledgers, snapshot and revision, stop, generation, lease | claim, save, control transition, terminal commit | plane, through the adapter's store lane |
| Execution adapter (`operation_execution_adapter.py`) | slots and limiter per lane, pending count, timers, draining and closed flags | `call`, `arm_deadline`, `cancel_deadline`, `drain`, `close` | everything that leaves the process |
| Lifecycle and engine (`control_plane_lifecycle.py`, `runtime_engine.py`) | admitted calls, closing and closed flags, run contexts, target reservation | admission of calls, close, open, reserve and retire a run | adapter, lease |
| Operation provider, reconciliation, Temporal delivery (`operation_provider_*.py`, `operation_reconciliation*.py`, `operation_temporal*.py`, `operation_worker_authority.py`) | controls, responses, deadlines of an invocation | start, observe, cancel, absence evidence, worker grants | plane, backend provider, Temporal |
| HTTP offload (`control_plane_api/_offload.py`) | pending calls per lane, active calls | run, mutate, control, close | authority (`reserve`) |
| Mixed runtime (`mixed_*.py`) | phase, hand-off, edges | phase execution, hand-off, recovery | provider path |
| Clock and its driver (`time_*.py`, `interaction_time.py`, `participant_clock_driver.py`, `participant_driver_failure.py`) | state, segment and tick of each clock; deadlines of the driver | advance, pause, resume, jump, reset; wait for a cadence; record of the driver's failure | operations of the plane, scheduler, participant execution lock |
| Participant scheduler (`participant_scheduler*.py`, `participant_execution_*.py`) | lifecycle, next tick and attempts of each participant; execution services; resource ledger | initialise, due pass (serial or in batches), reset, controls of the service | participant backends, clock |
| Participant crossing and control (`participant_crossing_*.py`, `participant_control*.py`) | crossing history, control transcript | mediation, settlement | operations of the plane |
| Injects, workflows (`inject_*.py`, `control_plane_workflow*.py`) | occurrences, workflow state | claims of occurrences, workflow control | operations of the plane |
| Runs, trials, experiments (`runtime_run_*.py`, `runtime_trial_*.py`, `runtime_experiment*.py`) | decisions in the store | advance a plan, claim, end and retry a trial | engine, store |
| Backend calls, registry, manager (`backend_*.py`, `registry*.py`, `manager*.py`) | installed components | validated calls of backends | plane |

### Around it

`raes` (the SDL), `raes_processor` (compiler, planner, comparison), `raes_contracts`
and `raes_schemas` (data models), `raes_backend_protocols` and `raes_backend_stubs`
(interfaces, doubles), `raes_cli`, `raes_mcp`, `raes_conformance`, `raes_operations`.
They are sequential transformations of data. `PROJECT.json` lists each with the
reason it is not modelled.

### What is hard

- *Interleaving*: supervisory cuts run while an effect session is out in an external
  call; a cancellation races a dispatch; a drain races a deadline.
- *Unreliable store calls*: a write may be confirmed, committed with the
  acknowledgement lost, dropped, or committed after its caller gave up.
- *Crash and recovery*: between any two writes, and during startup itself.
- *Timeouts*: of permits, of reservations, of calls whose callback goes on.
- *Repetition*: the engine runs an activity again, a report is delivered twice, a
  trial step is looked at again by the next call, the next process or the next
  attempt.
- *Stale views*: a call reads the decisions of an experiment once and acts on them
  while others add to them; an owner of a store checks its lease and then writes.
- *Pacing*: a thread sleeps until the next cadence while others move the clock, and a
  pass over the participants that outlived its call goes on dispatching.
- *Limits*: one effect, one slot, bounded lanes, admitted parallelism.

The list with source lines and the properties that cover each item is `hazards` in
`PROJECT.json`.

### What makes each modelled part correct

- Mutation authority: one state writer, one effect; neither is leaked or stranded
  by timeouts, cancellations and abandoned cuts; waiters are served, in order.
- Control plane: an effect only behind a durable RUNNING record, once per
  idempotency key; what may have happened stays quarantined until it is known;
  a result and its snapshot appear together and overwrite nothing; a stop is a
  boundary; what a lost process left is classified.
- Adapter and close: slots are neither lost nor returned twice; abandoned callbacks
  are bounded; a runtime that reports itself closed is quiet and gave up its lease
  last; everybody comes back within a budget.
- Target: its reservation is a lock. It is not handed on while anything its holder
  began may still happen, whether the holder is an operation or a run, and an engine
  of another ledger stays away as long as that is so.
- Remote invocation: the provider is started once and hears of each control once,
  whatever the engine repeats; the first verdict stands and is true; every operation
  is settled.
- Store lease: one owner, and nothing a former owner still has under way lands after
  its successor was admitted.
- HTTP offload: a request holds its lane as long as anything of it runs; its
  reservation covers the run it was taken for; what was abandoned before the
  reservation came is not run.
- Trial: no step is handed to its owner twice, also over losses and retries; teardown
  waits for whatever is open; a cause of interruption stands; the trial ends, or its
  target is set aside.
- Experiment: one executor per attempt, parallelism within the admitted bounds, a
  retry only over a justified failure, no assignment after a cancellation.
- Participants and clock: an action is handed over once, at the tick its participant
  was due at and with the clock running; who is due gets its turn without help; a
  driver that fails closes the service, and it stays closed.

## 2. Modules

| Module | Models |
|---|---|
| `MutationAuthority` | `RuntimeMutationAuthority`, all of it that changes state |
| `OperationLifecycle` | abstract: what the plane promises of a store scope |
| `ControlPlane` | operations, store, supervision, crash and recovery; implements `OperationLifecycle` |
| `ExecutionAdapter` | `LocalExecutionAdapter`, deadlines, and the close of the runtime that owns it |
| `ExclusiveTarget` | abstract: what the reservation of a target promises |
| `RemoteInvocation` | operations delivered to a provider through an engine; implements `ExclusiveTarget` |
| `RuntimeEngine` | run contexts on one target, retirement, close, a rival engine; implements `ExclusiveTarget` |
| `StoreLease` | owner lease and generation of the two durable stores |
| `HttpOffload` | the HTTP layer's call executor |
| `TrialUnit` | a trial that this engine runs itself, from the first attempt to retirement |
| `ExperimentLedger` | the decisions of an experiment, extended by several callers |
| `ParticipantClock` | a clock, the participants that act by its ticks, and the thread that drives it |
| `..._proofs` | theorems about every module above but the two abstract ones, for TLAPS; those about `HttpOffload` are in `ControlPlane_proofs`, those about `StoreLease` in `ExecutionAdapter_proofs` |
| `MC...` | instances for TLC |

The composition is by assumption and guarantee.

- `MutationAuthority` shows that state cuts exclude each other, that one session owns
  the effect through its external calls and that supervisory cuts may run during
  them. A step of `ControlPlane` or `RemoteInvocation` is such a cut. The reservation
  that `HttpOffload` waits for is the first-in-first-out lock of `EffectHandoff`.
- `ExecutionAdapter` shows that a caller may give up on a callback that goes on. In
  `ControlPlane` this is the outcome `late` of a store write, in `RuntimeEngine` a
  member of `callbacks`, in `TrialUnit` a `callback` that runs behind an unknown
  record. That its drain leaves nothing at work is what the close of the local store
  in `StoreLease` relies on.
- `ControlPlane` shows how a native operation settles; a step of a trial is one, and
  `TrialUnit` keeps of it what the trial reads.
- `TrialUnit` is the inside of what `ExperimentLedger` has as one step, `AdvanceUnit`.
- `ParticipantClock` stands on both: a call is a session of `MutationAuthority` whose
  permit is free while its code is out, `blocked` is what `ControlPlane` makes of an
  operation without a result, and a pass that is not `owned` is a callback of
  `ExecutionAdapter` whose caller gave up.
- `ExclusiveTarget` is implemented twice, by the reserved flag of operations and by
  the reservation of runs; the second holds the target for a run while the first
  holds it for one of the run's operations.

### MutationAuthority

`owner`, `reservation`, `effect`, `depth`, `waiters` are the fields of the class.
`pc`, `sup` and `saved` are where a caller is: `cut` inside `mutation`, `ext` in an
external call, `back` waiting to take the permit again, `lost` after that wait timed
out, while the frames unwind. A step is what happens under the class's `Condition`
without waiting. `asleep` distinguishes a thread in `Condition.wait` from one that
was notified; without it lost wake-ups could not be seen. `scopeOpen` and `childOf`
are the `InvocationChildScope`s; `CheckChild` and `PublishChild` are two steps
because `require_live_child_scope` checks and returns.

### ControlPlane

Durable: `rec` (record and invocation ledger of each operation), `snap` (the
operations whose result the snapshot contains), `rev`, the stop, the generation, and
`late`, a write whose caller timed out. Process: `up`, `gen`, `poisoned`, `stopped`,
`sess` (the session that owns the effect and its stage) and `sup` (a supervisory cut
between its two writes). Outside: `invoked` and `world`, what really became of an
effect; no guard of the plane reads them except through what a backend or the
recovery observer reports.

Kinds of operation: `Native` (plans, with ledger: ACCEPTED, then RUNNING with the
consumed grant), `Plain` (participant actions, RUNNING from the claim, no ledger),
`Core` (facts of the runtime, here the driver failure) and `Resolutions`
(administrative resolution of an indeterminate parent).

Every write is `Write(w, res)`: `ack`, `lost`, `drop` or `late`, with the store's own
guards (`StoreAccepts`) at the moment it takes effect. `readable` says whether the
readback that follows an error works. A late write is checked and applied when it
lands (`LateWriteLands`). At most one late write is outstanding; the store lane has
four slots, so two may be in reality. A crash drops it: that it landed just before is
the behaviour in which `LateWriteLands` comes first.

The plane's caches are not variables. Every cut begins by reloading them, and a
terminal commit that was not confirmed or read back poisons the plane, so a plane
that is not poisoned has no stale cache to act on.

### ExecutionAdapter

A call has two sides, `caller` and `task`, because the timeout of one races the start
and the end of the other. `release` is two steps, semaphore then count, as in the
code. AnyIO (external) is modelled as its source says: with `abandon_on_cancel` the
limiter's token is returned when the caller is cancelled, and a job whose future is
cancelled before the thread looks is skipped. `closing`, `admitted`, `stage`,
`lease` are `RuntimeLifecycleMixin` and `RuntimeEngineResources.close` for one run
context; `AbortClose` may happen at every point where the code can raise, and poisons
once the close of the store has begun. A callback of a deadline is itself a call of
the plane and is refused while closing; a refused or failed one poisons the plane
(`failure_handler`), unless its timer was cancelled. Calls that this callback makes
in turn are not modelled: it is admitted, and pending, for as long as they last.

### OperationLifecycle

`LegalTransitions` is the table of `raes_contracts/operation_lifecycle.py`. On top of
it the module says what no single table can: an operation is invoked only while
RUNNING and at most once; the snapshot changes only in the step that makes its
operation terminal, and by that operation's result only. `ImplementsLifecycle` maps
`st` to `rec[o].st` and the other variables to themselves.

### ExclusiveTarget

`holder` and `loose`, the clients whose effect has begun and has not ceased. A client
begins an effect only as holder, and nobody else acquires before the holder releases,
with or after the end of its effect. Both implementations map `loose` to what is
really out there (`world`, callbacks without a caller, unsettled operations), not to
what a flag says.

### RemoteInvocation

Durable: `rec` (status and invocation ledger), `answer` (reconciliation responses),
`resolved` (parents with a valid reconciliation child). The plane: the admitted
requests and their armed deadlines (`armed`), control budgets, the delivering session
and `cuts`, the supervisory cuts that gave up the permit to ask the evidence resolver
and will find another state when they return. Outside: submissions under way, started
workflows, a `job` for each activity that runs, and `late`, a request whose sender
gave up. `starts`, `calls` and `world` are the provider's. Once evidence establishes
that the effect has ceased or never took place, the operation becomes what the provider
proposed: `SUCCEEDED` only over an effect that is there, `FAILED` and `CANCELLED` over
any (`FinishOutcome`). So a provider that was started may end `CANCELLED`, and
`TerminalIsTrue` says of a cancellation after the grant what it says of a failure. An activity may run any
number of times (`MaxRuns`); each request of it may be refused, lost, answered to
nobody, or arrive late. Only the plane's grant decides whether it may start the
provider.

### RuntimeEngine

`opened` and `retired` are the `RunContextDecision`s, `op` and `entries` what a
context's own ledger says of the target; `phase`, `live`, `gone`, `halted`, `shut`,
`reserved` and `closer` are the engine's fields. Calls enter, reserve, claim, settle
or are abandoned; `retire` holds the engine's lock across a store call and is two
steps, and a call that was given up may commit later (`late`). A rival engine waits
for the process-wide claim. The engine may be lost or collected without close at any
time and opened again.

### StoreLease

One module for both stores, because they follow one discipline: lock, admission that
advances the generation, a check before (not within) each transaction. `kind` says
which. PostgreSQL: the lock ends with its session while transactions of the same
process go on; each locks the generation row and compares. Local: the lock lasts as
long as any descriptor, also that of a forked copy; there is no comparison, and its
safety rests on the drain before close.

### HttpOffload

For each request a `caller`, an `actor` task and a `worker` thread, because each may
end without the others. `active`, `granted`, `cancelled` are the `stage` dictionary;
`told` is a cancellation the event loop has delivered and the task has not seen.
The condition is never held across an await, so each of its sections is one step.

### TrialUnit

Per attempt and step: `started` and `decided` (`RunPhaseDecision`), `record` (the
operation under the step's key), `callback` and `runs` (the installed owner's code,
outside), `seen` (its observation). What a call does next is computed from these, as
the code does: `Todo` for the branch, `ExecutionStep`, `AfterExecutionStep` and
`FinishStep` inside it. Every durable write is a step of its own and `Restart` may
come after each. A phase or domain without a service is in `Vacuous`. The contents of
observations are reduced to what a decision reads: whether effects are absent,
whether the cleanup permits reuse or is idempotent, whether the retry is ready. A step
with an unknown outcome keeps its record `indeterminate` and its reservation: what could
discharge it is a verified reconciliation child, and a native operation, which no
operation provider answers for, cannot get one
(`control_plane_resolution_records.py:27-28`). The
test of `_require_idle_context` for snapshot entries is left out: it can only refuse
more.

### ExperimentLedger

`attempts`, `assigned`, `outcome`, `terminal`, `retired`, `cancelled` are the
decisions; `stage`, `verdict`, `prepared` what is established where the attempt runs,
which the coordinator learns only by reports. A caller carries what it read: a `view`
for advance, and for a compare-and-append whether its cut is still `fresh` (every
added decision makes all others stale). Reports of attempts that still go on are left
out: they add a decision nobody reads and make other cuts fail, which `Refused` lets
them do at any time. The loss of the process is that all calls are refused, since
whatever counts is on the ledger.

### ParticipantClock

`snap` is the snapshot the plane publishes: the clock, the participants' autonomous
states and whether the service accepts work. `sess` is the call that has the effect:
`out` in backend code with the permit free, `back` when it waits for the permit to
publish. `pass` is the due pass with the state it has settled so far, which counts only
when `EndDue` publishes it; `owned` ends with `CallTimesOut`. `drv` and `deadline` are
the driver thread; `blocked` and `stopped` are what the plane's admission asks.

`Submit`, `SubmitDue` (public calls and their preflight), `CallReturns`, `EndTime`,
`EndDue`, `EndUnknown`, `EndService` are the stages of a call; `Batch`, `Serial`,
`Break` the dispatches of a pass; `Poll`, `Wake`, `Serve`, `Cut`, `CommitFailure` the
driver. `Results` is the coordinator with the check of the final snapshot: a control
that does not fit the clock, or leaves participants in another segment than the clock
(any jump), ends without a result. An advance, a jump or a resume goes on to its due
pass within the same call and lock (`BeginPass` in `EndTime`). `Lose` is the timeout of
the permit when the failing driver has it and waits for the lock; the model takes it
only there, since no other cut waits for that lock.

Wall time is one fact, that the deadline has `elapsed`. `crossed` marks a deadline that
a pause has passed over and exists for `PacingHonoured` only. Left out: the activity
profile (random timing, bursts, retries), resource budgets, tool sessions beyond
whether a policy hosts them, a second clock or policy, and the driver's stop.

## 3. Runs

| Run | Instance | States | Shows |
|---|---|---|---|
| `authority` | 1 thread, 2 reservations, 1 child, 1 session each, 2 nested or external calls | 153 k | one writer, one effect, nothing leaked, queue not stranded, FIFO hand-off, every wait ends without its timeout |
| `control_plane` | 2 native attempts under one key, participant action, driver failure, resolution, 2 store faults, 1 crash | 556 k | write-ahead, once per key, quarantine, published successes; effects are admitted, `OperationLifecycle` is implemented, what a lost process left is classified |
| `adapter` | 2 threads, 1 deadline, closer, 2 calls, lanes of one slot | 204 k | slots accounted, quiet when shut and lease last (`CloseIsQuiet`), callers and close come back although callbacks may hang |
| `engine` | owner and 2 runs, 2 threads, 2 calls, 1 fault | 629 k (symmetric) | `ExclusiveTarget` is implemented; the rival is kept away and a closed engine is quiet |
| `remote_delivery` | 1 operation, 2 workers, a cancel and a reconcile, 3 activities, 2 faults | 2.4 M (symmetric) | delivered once |
| `remote_target` | 2 operations, 1 worker, 2 activities, 1 fault | 754 k | terminal records are true, the first verdict stands, `ExclusiveTarget` is implemented, every operation settles |
| `store` | 3 processes, 2 transactions, 4 generations, 3 faults | 453 k (symmetric) | one owner, writes in the order of generations |
| `http` | 3 effect requests, lane of two, 2 closes, 2 cancelled tasks | 63 k | lanes accounted and reservation covering the run (`OffloadAccounted`), abandoned calls are not run, every call ends |
| `trial` | 2 attempts, 1 phase, 2 domains (1 without service), 2 faults of any kind | 297 k | effects once, order of the lifecycle, attempts disjoint and retired clean (`HandedOnClean`), interruption sticks, the trial ends |
| `experiment` | 2 callers, 2 owners, 2 entries, 2 attempts, parallelism one | 1.67 M (symmetric) | one executor and within capacity (`ExecutionBounded`), attempts justified, cancellation fences assignment |
| `participant_clock` | 2 participants of 2 actions, cadence 2, batches of 2, ticks to 3, a second segment, 3 calls of others, 1 mishap; either failure policy | 337 k | actions once and in turn, the driver's closure stands, who is due is served |

Why the bounds are enough to meet the interesting cases. In the authority two
reservations are needed for a queue with an order, and a thread beside them for two
callers of different mechanism; two nested or external calls per cut cover nesting
around an external call and the reverse. In the plane two faults and a crash cover a
fault in the handling of a fault; two native attempts are the smallest number with a
retry under the same key, and the participant action is the bystander
(`MCControlPlane_native.cfg`, with three native attempts, gives the same results). In the adapter lanes of one slot make every
capacity limit bite. The remote runs divide the work: two workers on one operation
for repeated and overlapping delivery, two operations for the target between them.
Three processes give a former owner, its successor and one that waits, and four
generations let an owner come back. A lane of two with three requests has one that is
refused and two that queue. Two faults in a trial are an unknown outcome and a loss
while it is dealt with, or a cancellation and a deadline; in the experiment two
entries with parallelism one make capacity bite, and two callers are a stale one and
the one that overtakes it. On the clock two participants make a batch, two actions a
cadence that comes again, tick three one that is not on a cadence, the second segment
what a reset leaves behind; three calls are a control, its counterpart and one more
(pause, resume, reset, or close and open), and one mishap a timeout, a failure or a
lost driver (two mishaps and two calls, 248 k states, give the same results). With `Policies = {"idempotent", "reset"}` the trial has
529 k states and the same results; the configuration keeps one policy for its time.

`TypeOK` of each module was checked in the same configurations and is not a listed
property; it is proved for each of them (`TypeCorrect`, `HttpTypeCorrect`,
`LeaseTypeCorrect`).

Symmetry is used only in runs without liveness, over callers, workers, processes and
runs that are interchangeable. The configurations that switch deadlock checking off
do so because the system may rest there: nothing to do and the bounds used up, or
closed.

### Fairness

- `MutationAuthority`: weak fairness of each caller that is *awake*. A sleeping
  thread gets nothing but a notification, a queued request nothing but a grant, and
  no timeout is fair. External work returns, because each external call has a budget.
- `ControlPlane`: weak fairness of a native session, of the second half of a
  supervisory cut, and of restart and recovery, with confirmed writes. The bounds
  limit faults and crashes, as in any behaviour in which they stop eventually. A
  participant action has no budget; nothing is assumed of it and nothing is claimed.
- `ExecutionAdapter`: weak fairness of the portal, of worker bookkeeping and of the
  budgets, of close; none of callbacks, threads or timers.
- `RemoteInvocation`: every call of a session has a budget, an armed deadline fires,
  a lost plane is started again. Nothing is assumed of engine, workers or provider;
  `EverySettles` does not need them.
- `HttpOffload`: the event loop runs tasks that are ready, worker calls end (each has
  a budget in the adapter), whoever else holds the reservation gives it back. No
  caller has to leave and no wait has to time out.
- `TrialUnit`: somebody calls advance again and again, a call goes on, installed code
  ends, and (strong fairness) an observer that is asked for ever finds once that the
  execution has ceased. Nobody resolves an unknown step; a trial that has one is set
  aside (`Quarantined`), as its run takes no further effect and keeps its target.
- `ParticipantClock`: the driver's loop, the call that is out and the pass go on, and
  wall time passes. Backend calls return, because each call has a budget; nobody has
  to call, and no timeout is fair.

### Disagreements found

One is a listed run, the others are configurations to run by hand; each is expected to
be violated.

1. `authority_expired_waiter` (listed): a reservation that timed out ends with
   `ValueError` when a release removed it from the queue first, so the HTTP layer does
   not answer with its deadline response.
2. `MCMutationAuthority_LateHandlerFenced.cfg`: a child handler passes its liveness
   check, its effect owner's cut is abandoned and the scope closed, and the handler
   publishes. `control_plane_mutation.py:139`: "Fence a late handler before it
   publishes state after closure."
3. `MCControlPlane_PoisonRefusesEffects.cfg`: a plane poisoned by a supervisory cut
   still dispatches the operation that was in validation.
4. `MCControlPlane_EffectsExcludeEachOther.cfg`: a participant action whose cut is
   abandoned stays RUNNING without any reservation; the next effect begins beside it.
5. `MCControlPlane_FailureIsEstablished.cfg`: a participant action whose backend call
   raised is recorded FAILED while its effect may take place.
6. `MCRuntimeEngine_RetirementIsVerified.cfg`: the store call of `retire` times out,
   the run goes on, and the retirement commits afterwards.
7. `MCRuntimeEngine_UnresolvedKeepsBinding.cfg`: an engine is reopened and closed
   before its unresolved runs are restored; close sees none and gives the binding up,
   against "Unresolved work retains that binding".
8. `MCStoreLease_ReplacementStands.cfg`: a PostgreSQL admission asserts the lock
   before its transaction, so one that lost its session in between supersedes the
   owner admitted meanwhile.
   `docs/decisions/issue-1629-experiment-runtime-preflight.md:147`: "A stale owner or
   late callback cannot advance a replacement".
9. `MCParticipantClock_CadenceNotSkipped.cfg`: the preflight lets the clock leave a
   tick at which a participant is due (`state.next_tick < current_tick` leaves out
   equality), so after a reset, or while the service is closed, an advance passes a due
   cadence over, and the next pass fails on it.
   `docs/decisions/issue-861-dsl-437-benign-participant-execution-preflight.md:50`:
   "reject transitions that would skip a due cadence".
10. `MCParticipantClock_PacingHonoured.cfg`: a pause and a resume within one wait of
    the driver leave the key as it was, and the old deadline is used.
    `implementations/python/tests/test_dsl_437_benign_participant_execution.py:2127`:
    "Resuming must start a fresh interval, not reuse that deadline".
11. `MCParticipantClock_FailureNotInTheWay.cfg`: `commit_driver_failure` takes the
    permit and then waits for the participant lock, whose holder is back from its
    backend and waits for the permit. Only the budget of that wait ends it, and the
    finished result is given up. `participant_driver_failure.py:23`: "remains available
    while effects are uncertain".

3 to 5 are the reason why `EffectsAdmitted` speaks of native effects and of
indeterminate ones, and `SuccessIsPublished` only of successes.

Smaller observations, without a property. A PostgreSQL admission whose commit failed
leaves `_owner_generation` set, and the store object is refused from then on. A
deadline that passes between `_interruption` and the dispatch makes the phase `failed`,
which may be retried, instead of `timed-out`. A cancellation while a retry preparation
is open or unknown makes later calls skip the preparation, and `retire` refuses for
good: safe, and a person has to act. A loss between acceptance and grant cancels the
step for good; a capture may so be skipped before teardown. A cancelled experiment
whose assigned entry has an unassigned retry reports `ready` for ever. A remote
outcome whose operation stays `indeterminate` although resolved keeps its finished
entry occupied for ever (`_remote_unsettled`), against "Verified terminal facts
release coordinator capacity, never host leases." (`runtime_remote_trial.py:231`). A
caller that read the ledger before a cancellation may add a retry attempt after it,
which nobody can be assigned. The clock driver waits for the permit within the
admission budget, so one long effect of anybody's makes it fail and close admission for
the whole run, and so does an indeterminate operation it meets at its next claim. An
advance or a pause of a paused clock, and any jump of a clock with participants, leaves
the operation indeterminate rather than rejected. While somebody is due and the service is
closed the driver runs one empty pass after the other, with a record each. A resume of
the clock opens a service that an operator had closed. A pass that timed out goes on
dispatching after the service was closed (the exception in `DispatchInTurn`).

## 4. Proofs

Eight modules `..._proofs` prove `Spec => []P` for the safety invariants of their
component, `Spec => P` for its action properties and for the refinement of its abstract
specification, for every value of the constants. The theorems are listed in
`PROJECT.json`; in short:

| Module | Proved, besides `TypeCorrect` |
|---|---|
| `MutationAuthority_proofs` | `SingleWriter`, `EffectExclusion`, `NothingLeaked`, `QueueNotStranded`, `EffectHandoff` |
| `ExecutionAdapter_proofs` | `SlotsAccounted`, `CloseIsQuiet`; of `StoreLease` `OneOwner`, `WritesInOrder` |
| `ControlPlane_proofs` | `WriteAhead`, `AtMostOncePerKey`, `QuarantineKept`, `SuccessIsPublished`, `EffectsAdmitted`, `ImplementsLifecycle`; of `HttpOffload` `OffloadAccounted`, `AbandonedIsNotRun` |
| `RemoteInvocation_proofs` | `DeliveredOnce`, `TerminalIsTrue`, `FirstVerdictStands`, `ImplementsTarget` |
| `RuntimeEngine_proofs` | `RivalExcluded`, `ImplementsTarget` |
| `TrialUnit_proofs` | `EffectsOnce`, `LifecycleOrder`, `HandedOnClean`, `InterruptionSticks` |
| `ExperimentLedger_proofs` | `ExecutionBounded`, `AttemptsJustified`, `CancelFencesAssignment` |
| `ParticipantClock_proofs` | `ActionsOnce`, `PacingLossStands`, `DispatchInTurn` |

With these every invariant and every action property that a run checks is proved, and
every refinement; what stays with TLC is liveness and the disagreements.

Two components are proved beside the one they serve: `HttpOffload` beside the plane whose
calls it makes, `StoreLease` beside the adapter, whose drain the local store's close
waits for. A proof module of two components EXTENDS both, which is why the definitions
of these two have a prefix where the others have none (`HttpSpec`, `LeaseSpec`, and so
on) and call the absent owner `Nobody`. Nothing relates the states of the two; each
theorem is about one specification.

All have one layout. The invariant `IInv` is a conjunction of named parts; it holds
initially and is kept by every step, one case per action (`StepKeepsIInv`, in
`TrialUnit_proofs` `StepKeeps`, in `ExperimentLedger_proofs` `StepHolds`); the theorems
follow by unfolding definitions. Where an action property or a refinement is proved,
the step lemma also says what the step looks like from outside (`Cut`, `Onward`,
`Fenced`), so that the actions are gone through once. Every `IInv` was an invariant of
a TLC run on the instance of section 3 before it was proved.

### Assumptions

They are the named ASSUMEs of the modules, and no theorem has others.

- Names: callers, operations, processes and so on are different from `None` (`Nobody`)
  and from each other where they are different kinds of thing (`CallersAssumption`,
  `NamesAssumption`, `EngineNames`, `OpsAssumption`, `ActorsAssumption`,
  `OwnersAssumption`). The sets themselves are arbitrary, and may be infinite; only the
  calls of the adapter are finitely many (`CallsAssumption`), since they are counted.
- Bounds are natural numbers, and positive where the code refuses zero: the capacity of
  a lane (`LanesAssumption`), the entries of an experiment and the attempts of a trial
  (`SizesAssumption`; `contracts/admitted_trial_plan.py` has `min_length=1`), the
  parallelism (`ParallelismAssumption`). A theorem holds for any number of crashes,
  faults, runs and cuts, since it holds for every bound.
- `RosterAssumption`: a policy names each participant once, in some order (the compiler
  sorts what it selected, `raes_processor/compiler/participant_behaviors.py:269`), and
  the driver is none of the callers. `PolicyAssumption`: cadence, attempts and capacity
  are positive. `NoneAssumption`: no session, pass or deadline is `None`.
- `KeyAssumption`: every effect has an idempotency key, any that it likes.
  `ActionAssumption`: every control has an action. `VacuousAssumption`,
  `PoliciesAssumption`, `AbortAssumption`: which phases may be without a service, which
  restart policies and interruptions there are.

### The inductive invariants

None of the properties is inductive. What was missing is what the proofs say about the
code beyond the properties.

- `MutationAuthority`. A cut is entered on the strength of the fields, so the fields
  have to be tied to the callers: `Ownership` says that `owner` is exactly the thread or
  child in a cut, `reservation` exactly the request in one, never both, and `effect`
  exactly the caller that is busy and not supervisory; `Positions` which positions a
  kind of caller can be in; the last conjunct that a queue is never left without
  somebody who will serve it. `GrantNext`, which every release goes through, is handled
  once for the invariant (`GrantKeepsTypes`, `GrantKeepsOwnership`,
  `GrantServesQueue`) and once for `EffectHandoff` (`HandsOn`).
- `HttpOffload`. `Counts`: the slots of a lane are its unfinished actors, the
  admitted calls the actors inside. `HttpReserved`: who runs has the reservation, and who
  has it is not in the queue too; that a withdrawal takes the right entry from the queue
  needs that nobody is in it twice, which is part of the type. `Marked`: a caller that
  left early left its mark where its actor looks next, in the stage that the probe reads
  or in the cancellation that the wait for the reservation meets. `AbandonedIsNotRun`
  follows from it. `Gate` relates the close to the count, so that what it finds at
  zero stays there.
- `StoreLease`. `OneHolder`: the lock is with one process or its forked copy. `TxCurrent`:
  an open transaction carries the ledger's generation. The two stores have it for
  different reasons, PostgreSQL from the comparison and the row lock it keeps, the local
  store because the lock is there until the drain (`LocalHolds`, `LocalLatest`).
- `ExecutionAdapter`. `Shape` lists the pairs of positions that caller and task of a call
  can be in, and with it who has still to give the slot back. `Slots` and `Places` count
  them: what is left of a semaphore and the calls that hold a slot are its capacity.
  `Closes` is what each stage of the close has established; that the lease goes last
  needs that a close which failed after calling it leaves the runtime poisoned.
- `ControlPlane`. The difficulty is a write whose caller gave up. `Fits` is what is true
  of a write from its issue until it lands, when the world has moved on; `UnderWay` says
  which plane may go on beside one (after a dispatch that timed out none: it is
  poisoned), `Harmless` what may land behind a session's back. `Holds` ties the stage of
  a session to its record and to the snapshot it saw; `RecordFits` has what
  `require_record_invocation` demands and that a reservation is given up by a success
  only. `Cut` reduces a step to what the durable state sees: a write that fits lands, a
  backend is entered, or nothing; `EffectsAdmitted` and the refinement of
  `OperationLifecycle` follow from it.
- `RemoteInvocation`. `Fit` is about one operation: the target stays reserved until it
  settles and beyond that while a granted effect may still happen, and a verdict agrees
  with the world. `Working` ties grants and controls to the one activity that got them,
  which makes delivery single although engines repeat. The handlers are reduced to
  what they make of a record (`Moves`), of activities (`Served`) and of the target
  (`Cut`).
- `RuntimeEngine`. `InProcess` and `OnTarget` relate threads, callbacks and loose effects
  to the reservation: whatever may still happen belongs to the context that has it.
  `Bound` is the state in which another engine gets the backend.
- `ExperimentLedger`. Every call acts on what it has read earlier, so the invariant says
  what of that still holds however much was decided since: a cut that is `fresh` is the
  state itself (`CutHolds`), an old view is right in what can only grow (`SightHolds`).
  `Onward` is what every step does, and keeps the claims of the other calls. The
  assignment's bound is a cardinality, `Bounded`.
- `TrialUnit`. `StepHolds` is what operation, callback and decision of one step say of
  each other, `AttemptHolds` what later steps say about earlier ones, `CallHolds` what a
  call may rely on of what it read when it chose its step, although cancellation,
  deadlines and callbacks do not wait for it. The steps of a phase are a
  sequence, walked in order: `Walk` shows that the first one without success is ready
  and that all before it succeeded, from the least element of a set of positions.
- `ParticipantClock`. A time control computes its result while the permit is free, so the
  invariant says who may be about at the same time: `Together` ties session, pass and
  blocked admission to each other, also when the caller of a pass gave up (the pass is not
  `owned`) or the session lost its permit (`Lost`). `Coherent`: the participants are on
  the clock, in the snapshot and in the pass. `DueStill`: who is left to a pass is in the
  pass as in the snapshot, and due at the clock's tick, which is why nothing moves the
  clock under it; `DispatchInTurn` follows. `Accounted`: dispatched actions are counted in
  the state that will be published; with `DueIsNew`, that an action still due was not
  dispatched, it gives `ActionsOnce`. `Closed`: after the driver's failure nothing that
  could open the service is out, since `CommitFailure` waits for the participant lock
  that every time control and due pass keeps.

### The refinements

`ImplementsLifecycle` and the two `ImplementsTarget` are proved as `Init => A!Init` and
`IInv /\ [Next]_vars => A!Next \/ UNCHANGED A!vars` under the refinement mapping, without
fairness (the abstract specifications state none). For `ExclusiveTarget` the mapping
has a `CHOOSE` of whoever holds the target; `HolderIs` shows that it is determined. In
the engine a retirement that was committed after its caller gave up is `doubtful`: it
is disagreement 6, and what the invariant says of retired contexts it says of the
others (`Verified`).

### What is only model-checked

- Liveness: `EveryWaitEnds`, `InterruptedIsClassified`, `WaitsEnd`, `EverySettles`,
  `CallsEnd`, `TrialEnds`, `DueIsServed`. They rest on fairness, which means `ENABLED`,
  and the prover does not reason about either.
- Induction over data. The theorems of the library that take an operator as a parameter
  cannot be used with the provers at hand, so nothing is proved of recursive definitions;
  this is why `TrialUnit` and `ExperimentLedger` speak of least positions and
  cardinalities, for which the library has facts without such parameters.
- The disagreements of section 3, which are counterexamples.

## 5. Not modelled

In the modelled parts: context variables of the authority that only select a code
path (`mutation_probe`); in the plane inject and mixed claims, successes recorded
without an invocation, ACCEPTED records of a legacy ledger (their migration, and that
recovery makes one without write-ahead provenance INDETERMINATE instead of CANCELLED,
`control_plane_recovery.py:125-127`), audit events, and
close (which is `ExecutionAdapter`'s and `RuntimeEngine`'s); two planes on one store
at the same time (`StoreLease` has them, without the plane); the content of plans,
results and evidence. In the adapter: the dispatcher's close, the fork check,
`pause`. Of the clock and the participants: see the end of their section; with
resource budgets a reset may also fail after it has reset the participants and publish
that (`participant_scheduler_lifecycle.py:94-99`), which in the modelled profile v1 no
part of a reset can do without raising. Of remote delivery: the provider in the plane's own process, capacities of
the transcript, the workflow that delivers the sequence of a run, the Temporal server
beyond at-least-once. Of the engine: operation routing, the clock driver's stop. Of
the stores: codecs, schemas, migrations. Of HTTP: routes and authentication. Of trials:
steps that an operation provider carries out (their settlement and their resolution from
evidence are `RemoteInvocation`'s; a step so resolved would count as failed), archives
and replacement trials, the validation of receipts and evidence, completeness
of a capture, program admission and module preparation in `advance_plan`, experiment
records.

Most of the repository's lines are not here at all: the SDL, compiler and planner,
contracts, schemas, policy tools, front ends and conformance checks transform data
sequentially, without state that two actors share. The other parts of section 1 are
listed with their reasons in `PROJECT.json`.

## 6. Plan

Further modules: the activity profile's claims against resource budgets, the mixed
runtime's phases and hand-offs, claims of inject occurrences, replacement trials.
