# SOC-OS: specifications, model checking and proofs

This directory holds TLA+ models of the parts of SOC-OS that carry its own
coordination logic, the TLC configurations that check them on small instances,
and TLAPS proofs of the theorems that hold for every instance. `PROJECT.json`
is the index: it maps every definition to the source lines it stands for, and
lists the runs, the deliberately wrong variants ("mutants") that show each
property can fail, the hazards, the findings and the theorems.

To check a run: `tlc -config <cfg> <module>` with the pairs in the table below;
to check the proofs: `tlapm MetaCubeEngineProofs.tla` and so on.

## 1. The system

SOC-OS is a security operations centre in two services over one PostgreSQL
database.

* The **API server** (`artifacts/api-server`, TypeScript, one Node.js process,
  possibly several instances) takes security events, scores them, records them
  with an audit trail, and hosts several coordinators: a node cluster that runs
  tasks in child processes, a cyber range, a ledger of messages exchanged
  between nodes, quotas, and self-healing of managed resources.
* **META-CUBE** (`services/meta-cube`, Python, FastAPI and asyncio, one or more
  instances) turns accepted events into executions, DAGs of steps that survive
  crashes, retries and repeated delivery.

### Inventory

| Part | State | Operations | What must be right | Model |
|---|---|---|---|---|
| META-CUBE engine (`engine.py`, `postgres_store.py`) | execution record, attempts, results, checkpoint rows, dead letters; session lock per execution | run, step commit, retry, dead letter, operator retry and recover, crash | progress is consistent at every commit; steps with a checkpoint are never done again; a status means what it says | `MetaCubeEngine` |
| META-CUBE worker and Redis (`worker.py`, `redis_stream.py`, handlers in `api.py`) | local queue, stream, pending list, loop position of each instance | start, submit, publish, read, claim, acknowledge, resume, outage, crash | no accepted execution is forgotten; the stream drains | `MetaCubeWorker` |
| Operator calls (`engine.py`, both stores) | operation keys | retry and recover under an idempotency key | one effect and one answer for each key | `MetaCubeOperations` |
| Node cluster (`node-cluster.ts`) | priority queue, nodes and counters per tenant, running children, message history | dispatch, schedule, time limit, child error and exit, stop all | counters match, nobody waits in vain, settled stays settled | `NodeCluster` |
| Node exchange ledger (`node-exchange-ledger.ts`, its migration) | node keys, blocks, route hops, ledger head | register, change status, accept envelope, route and health queries | key rotation and revocation against acceptance, chain and routes | `NodeExchange` |
| Audit chain (`audit/index.ts`) | records and head per tenant | append inside the caller's transaction, verify | one unforked chain; a check calls it invalid only when a record was committed between its reads | `NodeExchange`, `HashChain` |
| Cyber range (`cyber-range.ts`) | runs with generations, 100 cubes each, admission counter and wait queue shared by all tenants | start, pause, reset, stop all, loops, child results | worker limit, results of late children, every run ends | `CyberRange` |
| CPU simulator (`cpu-simulator.ts`) | forecasts, outcomes and links in the database; a scheduler per instance; one session-level advisory lock | cycle: lock, recover open forecasts, forecast, observe, outcome, link, unlock | one outcome for each forecast, none forgotten | `CpuSimulator` |
| Boot (`hck-bios.ts`, `startup-orchestration.ts`, `index.ts`) | how far an instance has come, signals | probe, bind, seed, start the scheduler, shut down | no port in production after a failed BIOS; the scheduler after listening | `CpuSimulator` |
| Ingest queue (`queue.ts`) | events waiting, one in work | enqueue up to a limit, process | what the scheduler's idle test sees | `CpuSimulator` |
| Security test quota (`security-test-quota.ts`) | usage rows | reserve, complete, release, expire | no more free tests than allowed, requests end | `SecurityTestQuota` |
| Self-healing (`self-healing.ts`) | managed resource, restore points, audit records | register, preview, restore, automatic restore | operations take effect one after another; only registered states | `SelfHealing` |
| Event pipeline (`routes/events.ts` and engines) | event, correlation, quarantine rows | ingest, score, persist, heal, broadcast | evidence before side effects | partly: `SelfHealing` (persist, then restore), `SecurityTestQuota` (tests) |
| META-CUBE hand-off (`meta-cube-handoff.ts`) | audit evidence | call upstream, record outcome | evidence agrees with what the upstream accepted | planned |
| Principals, rules, traffic, agent observer, quarantine, dashboards, generated clients, analyzer, scripts | none that is coordinated, or single-row writes | | | not modelled, see section 8 |

### How the parts interact

The API server hands events to META-CUBE over HTTP. Inside META-CUBE a handler
commits an execution and then calls `worker.submit`; the worker publishes to a
Redis stream, or to its local queue when Redis is absent or failing; an instance
takes an entry and calls the engine, which takes the execution's lock in the
store. Every state-changing transaction of the API server that needs evidence
appends a record to the tenant's audit chain in the same transaction, so the
chain's head row is the one lock all of them share. The node cluster and the
cyber range live in process memory; their concurrency is the order of callbacks
and, in the cyber range, of micro-tasks. The simulator and the quota are shared
by all instances through advisory locks of PostgreSQL; self-healing relies on row
locks alone. An event that is isolated is first committed with its capture, and
then calls the self-healing registry in a second transaction.

### What is hard

* Crashes between two commits, and between a commit and the submission that
  should follow it.
* At-least-once delivery: the same execution reaches several instances, also
  after it has ended; entries are claimed while they are in work; Redis loses
  its data.
* Operator calls that are repeated and race with the engine and one another.
* Key status read, and then used several statements later.
* Callbacks of a child process that has been given up long before.
* Statements of one reader that see different commits.
* A counter that is tested before an `await` and raised after it.
* An advisory lock that belongs to a pooled session, which may end before, or
  long after, the work it protects.
* A reservation that times out while the work it stands for goes on.
* A row that is read without a lock, judged, and then updated by its id.
* A signal during start-up; an instance that ends between two transactions that
  belong together.

## 2. Modules

| Module | Role |
|---|---|
| `ExecutionLifecycle` | abstract: the life of an execution's durable status |
| `MetaCubeEngine` | instances, runs and the store; implements `ExecutionLifecycle` |
| `MetaCubeEngineProofs` | its proofs |
| `MetaCubeWorker` | transport and handlers around an engine seen through the status of its executions |
| `MetaCubeWorkerProofs` | its proofs |
| `OperationLog` | abstract: an operator call and its key are one atomic step |
| `MetaCubeOperations` | the calls statement by statement; implements `OperationLog` |
| `MetaCubeOperationsProofs` | its proofs |
| `NodeCluster` | scheduler, children and history |
| `HashChain` | abstract: an append-only hash chain |
| `NodeExchange` | keys, ledger and audit chain under concurrent transactions; implements `HashChain` twice |
| `NodeExchangeProofs` | its proofs, and those of `HashChain` |
| `CyberRange` | loops, admissions and children of all tenants, micro-task by micro-task |
| `CyberRangeProofs` | its proofs |
| `ForecastLedger` | abstract: forecasts are made one at a time and each gets one outcome |
| `CpuSimulator` | instances from boot to exit, their ingest queues and simulator cycles; implements `ForecastLedger` |
| `CpuSimulatorProofs` | its proofs |
| `SecurityTestQuota` | reservations statement by statement |
| `CountedPlacesProofs` | the proofs of `NodeCluster` and `SecurityTestQuota`, the two parts that give out a counted number of places |
| `RestoreRegistry` | abstract: operations on a resource as atomic steps in the order of their audit records |
| `SelfHealing` | the same as transactions that read without locks; implements `RestoreRegistry` |
| `SelfHealingProofs` | its proofs |
| `MC...` | the constants of the small instances |

The engine is composed with its surroundings through `ExecutionLifecycle`: the
engine module shows that runs of any interleaving cause only the status changes
of that module, and the worker module is written with exactly these changes as
what its runs and operators may do to an execution, so neither has to carry the
other's state. That the worker keeps to them is its definition and no result.

**Correspondence with the code.**

*MetaCubeEngine.* A variable for each durable column group (`status`,
`attempts`, `results`, `checkpoints`, `dlq`), `run[w]` for what `_run` holds in
local variables. One action is one transaction of `_run`: `StepSucceeds`,
`StepRetries`, `StepDeadLetters`, `StepRaises`, `RunCompletes`, `RunStuck`;
`Begin` is taking the session lock and reading the record; `Abort` is the loss
of the instance or its connection at any such point. Cancelling the worker task
is treated as a crash. After a statement error on a connection that lives on,
`pg_advisory_unlock` fails as well, and the session lock stays with the pooled
connection (`postgres_store.py:71`): whoever asks for it through another session
waits until that one ends. The models free the lock at once. For safety this only
adds behaviours; the liveness of the worker (`Raise`) is claimed only for
exceptions that leave no lock behind. Steps that the public API can create are linear chains of
one action; the engine's code accepts any DAG, and the model does too. A step of
the plan fails or succeeds as its `kind` and `failures` say. The status test of
a retry is in the store's `transition_operation`.

*MetaCubeWorker.* `loop[i].stage` is the await at which the Redis loop of
instance `i` stands: scan of the store, publishing what was read, reading the
group, draining, acknowledging, claiming. `queue[i]` and `localAlive[i]` are the
local consumer. `handlers[i]` are API handlers after their commit and before
`worker.submit`. `configured` distinguishes deployments with and without
`REDIS_URL`; an outage may keep or lose stream and group. Because
`engine.execute` is synchronous, an instance with a run does nothing else. A call of Redis needs a client and a
server (`Reaches`); without a client, claiming returns and everything else fails.

*MetaCubeOperations.* `call[c].stage` walks through the statements of
`transition_operation`: the lock, the look-up of the key, the status update, the
insert of the key (which waits for an uncommitted one), the commit. With
`Store = "file"` there is one lock, and the transition and the key are two
writes. `applied` is a history variable that counts durable transitions. A run of
the engine is one step (`Run`), although it commits many times: only the status
matters to these calls, and a run may leave it as any of its commits does. The
steps themselves are in `MetaCubeEngine`.

*NodeCluster.* Each public method and each callback runs to completion on the
event loop and is one action, with the call to `schedule` it ends in. One pass of
`schedule` is a recursive function over the positions of the queue (`Schedule`,
`Examine`); the node a task gets is the best of those that fit, by free share of
its capacity, health and declaration order (`Selected`). The definitions bear
the component's name (`ClusterInit`, `ClusterNext`, `ClusterSpec`) where others
have the same.
`child[t]` outlives the message: a killed child closes later.

*NodeExchange.* `call[c].stage` is how far a transaction has come; locks are
derived from the stages (`LockFree`, `Rows`, `HoldsHead`, `HoldsAudit`). What a
transaction has read under a lock is kept in its record (`others`, `base`,
`auditBase`), what it writes appears at its commit. A hash is the sequence of
what it covers, so equal hashes mean equal contents. Readers have two
statements, and one answer for whatever they find wrong, as in the code. The clock, payloads and signatures are reduced to what decides:
whether the signature is the sender's.

*CyberRange.* `pc[id]` is the await at which loop `id` of a run stands, and
`jobs` is the queue of micro-tasks: its head is the next continuation to run.
Calls of the routes and ends of children are turns of the event loop, taken when
`jobs` is empty (`Quiet`). `ticks` holds the `error` events of children that could
not be created, which Node.js emits from `process.nextTick`, all before the
continuations they cause. `stopAll` pauses the range and forgets the workers, but
leaves cubes `RUNNING`, as the code does. A `spawn` that throws synchronously
is not modelled.

*CpuSimulator.* `pc[i]` is the next statement or transaction of the cycle of
instance `i`; `serving[i]` how far it has booted; `timer[i]` the scheduler.
`lock` is the advisory lock. A session that has lost its client may keep it for a
while (`Orphan`) until PostgreSQL notices (`SessionEnds`). The content of a
forecast, the metrics and the kill switch are left out, and so is an unlock that
fails on a connection that stays alive in the pool.

*SecurityTestQuota.* Every statement of the reserving transaction is a step, as
they see each other's commits (READ COMMITTED). `expired[r]` are the rows the
transaction has released and not yet committed; their row locks make `complete`
and `release` wait. `worked` and `lapsed` are history variables. The route runs
its test between the grant and the settlement (`Test`); any request may end
anywhere (`Die`).

*SelfHealing.* One managed resource of one tenant. A transaction reads without
locks, then writes the row and keeps its lock (`lock`, `draft`), and last appends
to the audit chain, whose head lock it takes at the end, so that audit record and
commit are one step. `born` is the order in which the transactions of
registrations began, which is what `createdAt` says.

## 3. Mutants

Definitions whose comment begins with *Mutant* are wrong on purpose, in a way a
slip in the code could be: a dropped guard, a swapped order, a missing reset.
The specification never uses them. Replacing the definition that follows by the
mutant makes TLC find the property violated that `PROJECT.json` names.

## 4. Runs

| Run | Module, configuration | Asks | Instance |
|---|---|---|---|
| engine | `MCMetaCubeEngine`, `MCMetaCubeEngine.cfg` | Is durable progress consistent at every commit, for two instances, repeated delivery, crashes, operators? | 2 instances, 2 executions, 4 kinds of plan, 3 hand-overs each |
| worker_redis | `MCMetaCubeWorker`, `.cfg` | Does any acknowledgement or claim drop the last reference to open work? Is what has settled left alone in the end? | 2 instances, 1 execution, 2 copies of an entry, 1 operator call |
| worker_outage | same, `_Outage.cfg` | With one crash, one outage, one exception and one operator call at any point, is everything still brought to an outcome? | 1 instance, with and without Redis |
| worker_recovered (violation) | same, `_RecoveredSettles.cfg` | Is a recovered execution run? | 1 instance, 1 crash |
| operations | `MCMetaCubeOperations`, `.cfg` | One effect and one answer for each key, under repeats, races and crashes? | 2 executions, 2 keys, 2 clients, PostgreSQL |
| cluster | `MCNodeCluster`, `.cfg` | Counters, queue, priorities, settled messages, progress? | 2 tenants, 2 nodes each, 4 messages, 2 children |
| exchange | `MCNodeExchange`, `.cfg` | Keys, sequences, routes and chains under concurrent requests; no circular waits? | 2 nodes, 3 keys, 6 envelopes, 2 requests at a time, 5 audit records |
| range | `MCCyberRange`, `.cfg` | Worker limit, results, snapshots, ends of runs, with late children and waiters of runs that are over? | 2 tenants, 3 cubes, 2 loops each, 2 admissions, 3 generations |
| simulator | `MCCpuSimulator`, `.cfg` | One outcome for each forecast, and one in the end, whatever is interrupted? | 2 instances, 3 forecasts, 2 faults, 1 event |
| quota | `MCSecurityTestQuota`, `.cfg` | Is the free limit kept under races, expiry, failures and crashes? Do requests end? | 3 requests of one user, 1 free test |
| healing | `MCSelfHealing`, `.cfg` | Do unlocked reads lose updates, or evidence come late? | 2 registrations, 1 restore, 1 preview, 2 events, 1 damaged point |
| healing_location (violation) | same, `_InPlace.cfg` | Is a state only restored where it was captured? | same |

**What the passing runs show.**
*engine:* checkpoints and results agree; a step's dependencies are done before
it; `completed` means every step has a result; a dead letter exists for a
missing step at its exhausted counter; each hand-over adds at most one attempt
beyond the limit; a step with a checkpoint never runs again; statuses change as
`ExecutionLifecycle` says.
*worker_redis, worker_outage:* while nothing fails, open work is always in
somebody's hands; after failures it settles; an execution that keeps its
outcome is left alone in the end, although an instance may publish it from a list
it read before (`worker.py:114`) and two may claim one entry; with one instance
the stream is empty again and again; without Redis the instance that is up holds
all open work. With two instances `StreamDrains` is not claimed: a delivery of a
dead-lettered execution runs it again, and how often such a run commits before it
ends is bounded by counters of `MetaCubeEngine` only.
*operations:* see the table; also that no set of calls waits in a circle, since
a call may wait for an uncommitted key while it holds an execution's lock.
*cluster:* `ClusterInv`: the counters of nodes are the children that run on them,
and queue and history hold what the messages say. `NobodyWaitsInVain` is the
invariant behind the liveness property: every callback that frees a place
schedules what fits.
*exchange:* at most one active key per node without help from the unique index;
`ExchangeInv`: what a transaction has judged under its locks is still so at its
commit, and blocks, hops and audit records belong together; growing sequences;
routes that continue where the message went; a client that
is told *accepted* finds exactly one block, hop and audit record; a reader is
never told that a route is damaged, and that a chain is invalid (audit check, health
query) exactly when a commit to it came between the two statements; a block is only ever committed while its key is active.
*range:* the limit of children holds although `acquireAdmission` tests the
counter before its await and raises it after, because a woken waiter goes on
before any loop of a present run can ask (`PlacesPromised`); waiters of runs that
are over hand their place on; a late child writes nothing into a later run; every
run that is left alone completes.
*simulator:* the lock is held by working cycles only; at most one forecast is
open at a time, across instances, crashes
and lost sessions, and it gets exactly one outcome, from whichever instance runs
the next cycle. `dna_outcomes` has no unique index: the lock alone sees to that.
*quota:* at most `Limit` unpaid tests are run whose rows were not given up; no
request waits for ever for a lock.
*healing:* registrations, restores, rejections and quarantines take effect one
after another in the order of the audit chain; none is lost or undone by a
transaction that read earlier; the audit records alone tell the resource's
location, state and status; no event is healed before its evidence is stored.

**Bounds and why they suffice.** Two instances, clients or requests are enough
for every pairwise race, and locks, keys and rows are the only things they share.
The four plans contain a dependency with a late success, a declaration order
that differs from the run order, an unsatisfiable pair, and an exception.
Three hand-overs allow a crash, a repeated delivery and a delivery after an
operator call. Two copies of a stream entry allow a duplicate while one is in
work. Four messages for two children and a history of two make the queue, the
limits, the priorities and the trimming all bite. Five audit records allow two
registrations, a rotation and two blocks; six have been checked once (1.4
million states) with the same result. Two tenants with two loops each compete
for two admissions, and three generations are a run, its pause or reset, and the
next run with the children of the first one left. Three forecasts and two faults
allow a cycle to be interrupted, its recovery to be interrupted as well, and
another cycle after that. A third request can find the reservation of the first
aged while the second is still testing. Two registrations can swap the resource's
location around a restore. The bounds are guards named in the modules
(`MaxDeliveries`, `MaxCopies`, `MaxCrashes`, `MaxOutages`, `MaxOps`, `MaxRaises`,
`MaxAudit`, `MaxGen`, `MaxForecast`, `MaxEvents`, `MaxFaults`, `MaxDamaged`;
`MaxQueue` is the code's own limit); a run with `CHECK_DEADLOCK FALSE` is one in
which the bounded work may be finished so that nothing more happens.

**Fairness.** `MetaCubeWorker`: an instance is restarted by its supervisor
(weak), Redis comes back (weak), and each asyncio task that is ready again and
again gets its turn (strong, as the event loop is FIFO and a task is only
disabled while the instance runs the engine or is down), and a run of the engine
ends (weak). Nothing obliges clients or operators to act. `NodeCluster`: each child closes or runs into its time
limit, which is a timer of the process; nothing else is fair. `CyberRange`:
micro-tasks and ticks are run to the end before anything else, and each child
exits or is ended by its time limit. `CpuSimulator`: a process manager starts
instances again, boots end, the interval of the scheduler and the event loop go
on, and PostgreSQL notices a session whose client is gone; no instance has to be
stopped, and faults are bounded. `SecurityTestQuota`: requests are worked on, and
the advisory lock's queue is first come, first served; as each request takes it
once, weak fairness is enough. The other modules state no fairness: their
properties are safety properties, and `SomebodyProceeds` (in
`MetaCubeOperations` and `NodeExchange`) says through `ENABLED` that requests in
flight are never all blocked.

## 5. Findings

1. **A recovered execution can be forgotten** (`worker.py:88`, run
   *worker_recovered*): `RECOVERED` is not a resumable status, so a crash
   between the recovery and its submission leaves it for ever.
2. **A state is restored at another location** (`self-healing.ts:211`, run
   *healing_location*): `applyVerifiedRestorePoint` compares the location of the
   restore point with a row it reads without a lock, and then updates the row by
   its id. A registration that moves the resource may commit in between; the
   old location's state is then written at the new one and reported `VERIFIED`.

**Further counterexamples.** These configurations are not among the runs of
`PROJECT.json`; TLC finds the violation in seconds when they are run by hand.

| Configuration | Property | What it shows |
|---|---|---|
| `MCMetaCubeEngine_AttemptLimit.cfg` | `AttemptLimit` | `_run` stops only for `COMPLETED` (`engine.py:216`): a repeated delivery of a dead-lettered execution makes another attempt past `maxRetries` and writes another letter |
| `MCMetaCubeWorker_RaiseLocally.cfg` | `AcceptedSettles` | an exception ends the local consumer (`worker.py:101`), and later executions are not run until a restart |
| `MCMetaCubeOperations_FileCrash.cfg` | `AppliedOnce` | in file mode the transition and its key are two writes (`engine.py:190`); a repeat after a crash in between applies it twice |
| `MCNodeExchange_Verify.cfg` | `IntactAuditVerifies` | `verifyAudit` reads records and head in two statements (`audit/index.ts:213`) and calls an intact chain invalid (`HEAD_MISMATCH`) when a record is committed between them; `ValidUnlessOvertaken` says that nothing else makes it |
| `MCCyberRange_WorkerCap.cfg` | `WorkerCap` | children that cannot be created (EAGAIN, EMFILE) report their errors in one batch; the releases then come before the woken waiters have raised the counter, and the next loops pass the test: more children than the limit (`.agents/memory/cyber-range-process-boundary.md:10` asks for "a manager-wide worker cap") |

**Seen while modelling**, without a configuration of its own:

* While Redis stays down, an execution published before the outage waits for its
  return.
* "Repeated XADDs are safe" (`worker.py:112`) holds of completed executions; a
  stale entry of a dead-lettered one runs it again (see the first configuration).
* An operator retry resets the counter of the first incomplete step in
  declaration order, while the engine runs ready steps in id order, so the step
  that failed may get a single further attempt (`postgres_store.py:244`; the
  linear chains the public API builds do not show it).
* The health query of the exchange ledger reads the head before the latest block
  and can report `VERIFICATION_FAILED` for a sound ledger (the answer `lagging` of
  the model, `ValidUnlessOvertaken`); the ledger design says a conflicting envelope "is audited"
  (`docs/superpowers/specs/2026-09-01-node-exchange-ledger-design.md:187`) while
  `MESSAGE_HOP_CONFLICT` writes no record; an envelope's expiry is tested before
  the transaction waits for its locks; its hash does not cover the signature, so
  a repeat with another signature is answered as a repeat; revoking a revoked key
  moves `revokedAt`.
* A signal during seeding stops a scheduler that has not started; `onListening`
  starts it afterwards (`index.ts:126`), and only the exit ends it. At most one
  forecast is ever open, so the limit of 25 recovered forecasts cuts nothing off.
* "Keep the first three accepted security-test runs free"
  (`.agents/memory/billing-authorization-boundary.md:12`): a test whose
  completion fails, whose instance dies or whose reservation outlives its 15
  minutes has been run and is not counted (`lapsed` in the model).
  The release on `finish` is not awaited: its failure is an unhandled rejection.
* An event that finds no restore point reads the resource again
  (`self-healing.ts:291`) and quarantines it by its id: a resource registered in
  between, with a verified point, is quarantined. `createdAt` is the time a
  transaction began, so the "latest" point need not be the one committed last.
  The hash chain of events takes its predecessor without a lock and across
  tenants (`events.ts:92`), so it can fork. When the restore after the commit of the
  evidence fails, the answer is an error and nothing repeats the restore.

## 6. Proofs

*MetaCubeEngineProofs.* For any instances, executions, steps and plans that
satisfy `EngineAssumption`: `Spec => []EngineInv`, and from it type correctness,
`DependenciesFirst`, `DeadLetterExplained`, `AttemptsAccounted`,
`CheckpointedStepsFrozen` and the refinement of `ExecutionLifecycle`. The
properties are not inductive by themselves: what a
run holds in memory must be tied to the store. `RunsExclusive` (one run of an
execution, from the session lock) and `RunSound` (the batch in memory is ready
and undone in the store) do that; the proof has one step per action.

Through the refinement, `CompletedIsNotReopened`: a completed execution is left
only by an operator's recovery, and what was accepted or saved remains.

*MetaCubeOperationsProofs.* Two inductive invariants, one for each store. With
`Store = "postgres"`, `OperationsInv` gives `AppliedOnce` and the refinement of
`OperationLog`; the key facts are that a claimed key a call meets after its
look-up belongs to another execution (`KeysChecked`, because calls for the same
one had to wait) and that an uncommitted key is nobody else's (`KeysReserved`).
In file mode `FileInv` rests on the one lock of the store: at most one call is
between its look-up and its two writes, and if no process dies there,
transitions and keys differ by that call alone. So `OperationsApplyOnce` assumes
`Store = "postgres" \/ ~Crashes`, and no less would do: the configuration
`MCMetaCubeOperations_FileCrash.cfg` is the counterexample. That replies are the
winner's (`RepliesAreTheWinners`) and that a taken key names the same winner,
execution and operation for good (`ClaimsAreFinal`) holds in either store, with
crashes.

*MetaCubeWorkerProofs.* For any finite set of executions, any instances and
bounds: `WorkerInv` is inductive. "In somebody's hands" is not: an entry that an
instance is about to acknowledge is in the pending list and in nobody's hands a
step later. `OpenKept` therefore counts an entry only while nobody acknowledges
it (`Kept`), and `StreamInv` says which references exist at all: an entry not yet
read is in no inbox (`FreshApart`), a run begun by a message is of the execution
it names (`RunsNamed`), nothing is on its way before it was accepted
(`Accepted`). From it follow `NeverDropped` and `NothingForgotten`. That the executions are finitely many (`WorkerAssumption`) is what
makes the list of a scan an enumeration of all of them (`OrdersNameAll`).

*NodeExchangeProofs.* For any nodes, keys, envelopes, clients and bounds:
`ExchangeInv` is inductive, and from it follow at most one active key of a node
(`KeysExclude`), `SequencesIncrease`, `RoutesContinue`, `RevocationIsFinal`,
`AcceptedIsRecorded` and `ImplementsChains`. The argument is about locks
(`LocksHeld`): the node's advisory lock excludes requests for its other keys, the
ledger's excludes a second acceptance, and a sender's row lock keeps status
requests from its key between the check and the commit; the audit head has one
holder. So what was read still holds at the commit (`ReadsHold`), although
reader and writer never share a lock for all of it: a registration takes no row
of the key it adds, but that key did not exist. `BlocksRecorded` (hops and
records are those of the blocks, and a number or a hop has one block) carries
acceptance and routes. `OthersKept`, `OneMoves` and `CommitUnlocks` are the frame
lemmas that the actions share. `ChainsAreLinked` is about `HashChain` alone: rows
numbered without gap or fork, each linked to its predecessor, the head at the
last row; through the refinement it holds of the ledger and the audit chain
(`BothChainsLinked`), whose rows also stay (`RowsStay`). `ValidUnlessOvertaken`
rests on all of it: what a reader remembers is what the rows up to its number
still are (`Remembered`), so only a moved head can mislead it. For routes, the code finds the hop of a block by its place in the list, so one
has to know that a route has no gap (`RouteFromStart`) and that the hop numbers
below a block's are as many as its own (`PlaceOfBlock`, `PlaceOfHop`). Both go by
the least number for which they would fail. `NobodyWaitsInACircle` is the safety
half of `SomebodyProceeds`, with any number of clients: of requests in flight one
waits for nobody (`SomebodyFree`), because rows, ledger head and audit head are
taken in this order and requests for keys of one node exclude each other.

*CyberRangeProofs.* For any tenants, cubes, limit and bounds: `AdmissionInv` is
inductive, and contains the limit (until failures to create a child come in a
batch). What makes the late increment harmless is
the order of the micro-task queue: a woken waiter is due before any loop of a
present run that may ask, and such a loop before any late one (`Queues`), so
nobody asks while a place is promised (`PlacesPromised`). Most of the work is in
the lemmas on `Acquire` and `Release`, which every action ends with. Without assumptions on the limits it
would be false that waiting ends: `Width` and `MaxActive` are at least one (both
are 8 in the code, `cyber-range.ts:149`), so somebody may run whenever nobody
does (`NobodyWaitsInVain`), and a running range has loops (`RunsHaveLoops`). With
them `NoRunHangs` proves the safety half of `RunsEnd`: when no micro-task is
left and a range still runs, a child is out whose end will continue it
(`SomeChildIsOut`). A second invariant on top of it, `WorkInv`, ties cubes to loops: tracked are exactly the
children of present runs, no two loops have one cube (`CubesApart`), a cube shows
where its loop stands (`CubesShown`), and each cube of a running range is to be
taken, has a result or is in a loop's hands (`CubesCounted`). It gives
`SnapshotsAgree` and `ResultsStay`.

*CpuSimulatorProofs.* For any instances and bounds: `SimulatorInv` is inductive,
and every step is a step of `ForecastLedger` or none. Its core are `Exclusive`
(the lock is held by who works in a cycle and still has its connection, and by
nobody else: it is neither shared nor left behind, provided that an unlock on a
living connection succeeds) and `ReadsAreFresh` (so what it has read of the open
forecasts is still so).
With `OneOpen`, the first forecast the cycle reads is the only one. `OutcomesAreFinal`: an
outcome is never changed or joined by another, and forecasts and links stay.

*CountedPlacesProofs*, quota. For any requests, keys and limit: `QuotaInv` is
inductive. `LocksHeld` makes the count of the reserving transaction stable:
others can only take rows out of the count, so a place that was free when counted
(`PlaceLeft`) is free at the insert; `RowsExplained` ties rows to requests.
`NobodyWaitsForAWaiter` is the safety half of `RequestsEnd`: who holds the
advisory lock, or the lock of an expired row, is at a statement of the reserving
transaction that waits for nothing (`WaitsEnd`).

*CountedPlacesProofs*, cluster. For any tenants, tasks, limits and finite set of
nodes: `ClusterInd` is inductive, which is `ClusterInv` and `NobodyWaitsInVain`
with the order of the queue (`InOrder`). The work is in one pass of the scheduler:
`Passed` says what holds after `k` tasks of the queue have been examined, and
`ExaminePasses` that one more keeps it. A task passed over does not fit later in
the pass, because a start only takes places, so at the end nothing that waits fits
(`PassEnds`); and a node taken by a task is one that those before it in the queue
could not use, which is `NoOvertaking`. That a fitting node is selected when there
is one (`SelectedFits`) needs a best node of a finite set; the comparison of free
shares is transitive because fractions are compared crosswise (`Crosswise`,
`BetterOrders`). Trimming keeps what is unfinished whatever the limit of the
history (`TrimmedKeepsUnfinished`). `SettledStays` follows action by action.
`UnfinishedMeansRunning` is the safety half of `MessagesSettle`: as long as a
message is unfinished, a child is alive whose end will call the scheduler
(`SomeChildRuns`). It needs the last conjunct of `SlotsMatch`, that who holds a
place is a living child, and that some node of each tenant can serve any task
(`SomeNodeServesAll`).

*SelfHealingProofs.* For any requests and locations: `HealingInv` is inductive,
and every commit is a step of `RestoreRegistry`. What makes unlocked reads
harmless is `DraftsCurrent`: the draft of the lock's holder is computed from
the row as it is under the lock, never from what was read before. Its last part,
`AuditExplains`, is about the history: the resource is where its last
registration record puts it, in the state of the last record of a registration
or restore, and in the status of the last record that gives one; a commit is
explained by its own record (`CommitExplained`), and a record of anything else
leaves the earlier ones the last of their kind (`LastAfterAppend`).
`RegistryOnlyGrows`: restore points and records stay.

**Induction.** The library's induction theorems take an operator as a parameter,
which the installed provers cannot instantiate. Where an argument goes over
positions or hops, the proofs take the least element of the set of numbers for
which the claim fails (`LeastNatural`, from `WellFoundedInduction`). Recursive
functions (`Schedule`, `Those`) are shown to satisfy their equations in the same
way, in the lemmas that use them.

**Only model-checked.** Liveness under fairness (`ResumableSettles`,
`SettledIsLeftAlone`, `StreamDrains`, `MessagesSettle`, `RunsEnd`, `ForecastsResolve`, `RequestsEnd`)
and `ENABLED` are out of the prover's reach. The latter is all of
`SomebodyProceeds` in `MetaCubeOperations`, and in `NodeExchange` the half that
says that who waits for nobody can go on. Every other property of the passing
runs is proved. Of liveness, what has to hold at every moment is proved where it
says something: `NobodyWaitsInACircle`, `NoRunHangs`, `UnfinishedMeansRunning`,
`NobodyWaitsForAWaiter`, `NothingIsForgotten`, and that the simulator's lock is
not left behind. (In `MetaCubeOperations` a call that waits for a key waits for
one that is about to commit, which waits for nothing: there is no more to it.)
The two runs that expect a violation are TLC's alone.

## 7. Plan

Modelled so far: engine, transport, operator calls, cluster, exchange with audit
chain, cyber range, simulator with boot and ingest queue, quota, self-healing.
Next:

1. `MetaCubeHandoff`: the API's hand-off composed with `ExecutionLifecycle` (work
   accepted upstream whose audit record fails, or whose answer is lost), and
   admission under an idempotency key in `MetaCubeEngine`.
2. Composition of `SelfHealing` with the audit chain of `NodeExchange`, whose
   head both lock, for several resources.
3. A process creation that throws inside `schedule` of the cluster and inside
   `runCube`.

Proofs to come: the invariant of each next module.

## 8. Not modelled

The mapped lines are a small part of the repository, because most of it does
not coordinate anything: dashboards and their components, clients and schemas
generated from the API contract, table definitions and migrations, vendored
skills, scripts and text.

Scoring of events (Markov and quantum-inspired layers, rules, correlation,
strategy): arithmetic over text without coordination. Routes that validate,
query and format. Principals and policy: stateless checks. The WebSocket
broadcast promises nothing about delivery. Generated clients, dashboards,
scripts, documents and agent skills.

Of the modelled parts: authentication and views of META-CUBE, task
signing and request validation of the cluster, the listing of messages, time and
payload limits of the exchange, verification of a time window of the audit
chain, telemetry of a cube, strategy metrics and the kill switch of the simulator,
the billing provider (an answer of any kind), contents and hashes of managed
states, and listings of the self-healing registry.
