------------------------------ MODULE CyberRange ------------------------------
(***************************************************************************)
(* CyberRangeManager: each tenant has a range of cubes; a run works them   *)
(* off with Width loops, each of which needs an admission shared by all    *)
(* tenants before it creates a child process.  Nothing is persisted.       *)
(*                                                                         *)
(* JavaScript is modelled at the grain at which it interleaves: a loop     *)
(* gives way at every await and goes on when its continuation is the head  *)
(* of the queue of micro-tasks (jobs); calls of the routes and ends of     *)
(* children are turns of their own, taken when no micro-task is left.      *)
(* Children whose creation fails at once report in a batch before the next *)
(* turn (ticks: process.nextTick).  start runs its loops up to their first *)
(* await itself; as nothing else is in jobs then, queueing them comes to   *)
(* the same.                                                               *)
(*                                                                         *)
(* A definition marked Mutant is a deliberately wrong variant of the one   *)
(* that follows it; no part of the specification uses it.                  *)
(***************************************************************************)
EXTENDS Integers, Sequences, FiniteSets

CONSTANTS
    Tenant,
    Cubes,      \* CYBER_RANGE_CUBE_COUNT
    Width,      \* perRangeConcurrency
    MaxActive,  \* maxActiveWorkers
    MaxGen      \* bound: generations of each range

ASSUME RangeAssumption ==
    /\ IsFiniteSet(Tenant)
    /\ Cubes \in Nat /\ Width \in Nat \ {0} /\ MaxActive \in Nat \ {0}
    /\ MaxGen \in [Tenant -> Nat]

Cube == 0 .. Cubes - 1
LoopsOf(t, g) == {t} \X {g} \X (1 .. Width)
Loop == UNION {{t} \X (1 .. MaxGen[t]) \X (1 .. Width) : t \in Tenant}
TenantOf(id) == id[1]

VARIABLES
    status,  \* of each range
    gen,     \* runGeneration
    next,    \* nextCubeIndex
    cube,    \* the status of each cube
    active,  \* activeWorkers, each child named by its loop
    pc,      \* where a loop of a run waits
    item,    \* the cube a loop works on
    result,  \* what the child of a loop reported
    count,   \* activeWorkerCount
    queue,   \* admissionQueue
    jobs,    \* micro-tasks: the loops whose continuations are due
    ticks,   \* loops whose child could not be created and has yet to say so
    burst    \* history: two such errors came in one batch

vars == <<status, gen, next, cube, active, pc, item, result, count, queue, jobs, ticks, burst>>

Results == {"SUCCESS", "FAILED"}  \* SUCCESS stands for ISOLATED, too
Ready == {"next", "woken", "admitted", "settled"}

TypeOK ==
    /\ status \in [Tenant -> {"READY", "RUNNING", "PAUSED", "COMPLETED"}]
    /\ gen \in [Tenant -> Nat] /\ \A t \in Tenant : gen[t] <= MaxGen[t]
    /\ next \in [Tenant -> Nat]
    /\ cube \in [Tenant -> [Cube -> {"IDLE", "RUNNING", "PAUSED"} \cup Results]]
    /\ active \subseteq Loop
    /\ pc \in [Loop -> Ready \cup {"none", "queued", "child", "stillborn", "done"}]
    /\ item \in [Loop -> Nat]
    /\ result \in [Loop -> Results]
    /\ count \in Int
    /\ queue \in Seq(Loop)
    /\ jobs \in Seq(Loop)
    /\ ticks \in Seq(Loop)
    /\ burst \in BOOLEAN

Init ==
    /\ status = [t \in Tenant |-> "READY"]
    /\ gen = [t \in Tenant |-> 0]
    /\ next = [t \in Tenant |-> 0]
    /\ cube = [t \in Tenant |-> [c \in Cube |-> "IDLE"]]
    /\ active = {}
    /\ pc = [id \in Loop |-> "none"]
    /\ item = [id \in Loop |-> 0]
    /\ result = [id \in Loop |-> "FAILED"]
    /\ count = 0
    /\ queue = <<>>
    /\ jobs = <<>>
    /\ ticks = <<>>
    /\ burst = FALSE

(* Mutant: only the status of the range is looked at.                      *)
MatchesStatus(id) == status[TenantOf(id)] = "RUNNING"

(* The run a loop belongs to is the present one and goes on.               *)
Matches(id) == gen[TenantOf(id)] = id[2] /\ status[TenantOf(id)] = "RUNNING"

-----------------------------------------------------------------------------
(* Admissions.                                                             *)

Due(id, p) == jobs # <<>> /\ id = Head(jobs) /\ pc[id] = p

(* acquireAdmission by the loop at the head of jobs.                       *)
Acquire(id) ==
    \/ /\ count >= MaxActive
       /\ queue' = Append(queue, id)
       /\ pc' = [pc EXCEPT ![id] = "queued"]
       /\ jobs' = Tail(jobs)
       /\ UNCHANGED count
    \/ /\ count < MaxActive
       /\ count' = count + 1
       /\ pc' = [pc EXCEPT ![id] = "admitted"]
       /\ jobs' = Append(Tail(jobs), id)
       /\ UNCHANGED queue

(* Mutant: the first waiter is not woken.                                  *)
ReleaseQuietly(id) ==
    /\ count' = count - 1
    /\ jobs' = Append(Tail(jobs), id)
    /\ pc' = [pc EXCEPT ![id] = "next"]
    /\ UNCHANGED queue

(* The release of an admission wakes the first waiter, whose continuation  *)
(* is queued before that of the loop itself.                               *)
Release(id) ==
    /\ count' = count - 1
    /\ \/ /\ queue = <<>>
          /\ jobs' = Append(Tail(jobs), id)
          /\ pc' = [pc EXCEPT ![id] = "next"]
          /\ UNCHANGED queue
       \/ /\ queue # <<>>
          /\ jobs' = Append(Append(Tail(jobs), Head(queue)), id)
          /\ pc' = [pc EXCEPT ![Head(queue)] = "woken", ![id] = "next"]
          /\ queue' = Tail(queue)

-----------------------------------------------------------------------------
(* Micro-tasks.                                                            *)

Take(id) ==
    /\ Due(id, "next") /\ Matches(id)
    /\ next[TenantOf(id)] < Cubes
    /\ next' = [next EXCEPT ![TenantOf(id)] = @ + 1]
    /\ item' = [item EXCEPT ![id] = next[TenantOf(id)]]
    /\ Acquire(id)
    /\ UNCHANGED <<status, gen, cube, active, result, ticks, burst>>

(* Mutant: the first loop that finds no cube completes the run.            *)
LeaveFirst(id) ==
    /\ Due(id, "next")
    /\ Matches(id) => next[TenantOf(id)] >= Cubes
    /\ pc' = [pc EXCEPT ![id] = "done"]
    /\ jobs' = Tail(jobs)
    /\ next' = [next EXCEPT ![TenantOf(id)] = IF Matches(id) THEN @ + 1 ELSE @]
    /\ status' = [status EXCEPT ![TenantOf(id)] = IF Matches(id) THEN "COMPLETED" ELSE @]
    /\ UNCHANGED <<gen, cube, active, item, result, count, queue, ticks, burst>>

(* A loop ends; the end of the last one lets runRange go on.               *)
Leave(id) ==
    /\ Due(id, "next")
    /\ Matches(id) => next[TenantOf(id)] >= Cubes
    /\ pc' = [pc EXCEPT ![id] = "done"]
    /\ jobs' = Tail(jobs)
    /\ next' = [next EXCEPT ![TenantOf(id)] = IF Matches(id) THEN @ + 1 ELSE @]
    /\ status' = [status EXCEPT ![TenantOf(id)] =
                     IF Matches(id) /\ \A o \in LoopsOf(id[1], id[2]) : pc'[o] = "done"
                     THEN "COMPLETED" ELSE @]
    /\ UNCHANGED <<gen, cube, active, item, result, count, queue, ticks, burst>>

(* A waiter goes on in acquireAdmission.                                   *)
Wake(id) ==
    /\ Due(id, "woken")
    /\ count' = count + 1
    /\ pc' = [pc EXCEPT ![id] = "admitted"]
    /\ jobs' = Append(Tail(jobs), id)
    /\ UNCHANGED <<status, gen, next, cube, active, item, result, queue, ticks, burst>>

(* The variables of a call of runCube end with it.                         *)
Forget(id) ==
    /\ item' = [item EXCEPT ![id] = 0]
    /\ result' = [result EXCEPT ![id] = "FAILED"]

(* Mutant: the admission is kept.                                          *)
WithdrawHolding(id) ==
    /\ Due(id, "admitted") /\ ~Matches(id)
    /\ pc' = [pc EXCEPT ![id] = "next"]
    /\ jobs' = Append(Tail(jobs), id)
    /\ Forget(id)
    /\ UNCHANGED <<status, gen, next, cube, active, count, queue, ticks, burst>>

(* Admitted too late, the run is over.                                     *)
Withdraw(id) ==
    /\ Due(id, "admitted") /\ ~Matches(id)
    /\ Release(id) /\ Forget(id)
    /\ UNCHANGED <<status, gen, next, cube, active, ticks, burst>>

(* spawn: the system may refuse (EAGAIN, EMFILE, ...), of which the loop   *)
(* learns by an event.                                                     *)
Spawn(id) ==
    /\ Due(id, "admitted") /\ Matches(id)
    /\ cube' = [cube EXCEPT ![TenantOf(id)][item[id]] = "RUNNING"]
    /\ active' = active \cup {id}
    /\ jobs' = Tail(jobs)
    /\ \/ pc' = [pc EXCEPT ![id] = "child"] /\ UNCHANGED ticks
       \/ pc' = [pc EXCEPT ![id] = "stillborn"] /\ ticks' = Append(ticks, id)
    /\ UNCHANGED <<status, gen, next, item, result, count, queue, burst>>

(* runCube goes on with its result, writes it if the run is still the      *)
(* present one, and releases.                                              *)
Settle(id) ==
    /\ Due(id, "settled")
    /\ cube' = [cube EXCEPT ![TenantOf(id)] =
                   IF Matches(id) THEN [@ EXCEPT ![item[id]] = result[id]] ELSE @]
    /\ active' = active \ {id}
    /\ Release(id) /\ Forget(id)
    /\ UNCHANGED <<status, gen, next, ticks, burst>>

Micro(id) == Take(id) \/ Leave(id) \/ Wake(id) \/ Withdraw(id) \/ Spawn(id) \/ Settle(id)

-----------------------------------------------------------------------------
(* Events and calls.                                                       *)

Quiet == jobs = <<>> /\ ticks = <<>>

(* A child closes, with telemetry or not, or runs into its time limit.     *)
ChildEnds(id) ==
    /\ Quiet /\ pc[id] = "child"
    /\ \E r \in Results : result' = [result EXCEPT ![id] = r]
    /\ pc' = [pc EXCEPT ![id] = "settled"]
    /\ jobs' = <<id>>
    /\ UNCHANGED <<status, gen, next, cube, active, item, count, queue, ticks, burst>>

(* The children that could not be created emit "error", one after another  *)
(* and before the continuations of their loops.                            *)
SpawnErrors ==
    /\ jobs = <<>> /\ ticks # <<>>
    /\ jobs' = ticks /\ ticks' = <<>>
    /\ pc' = [id \in Loop |-> IF pc[id] = "stillborn" THEN "settled" ELSE pc[id]]
    /\ result' = [id \in Loop |-> IF pc[id] = "stillborn" THEN "FAILED" ELSE result[id]]
    /\ burst' = (burst \/ Len(ticks) > 1)
    /\ UNCHANGED <<status, gen, next, cube, active, item, count, queue>>

IdleCubes == [c \in Cube |-> "IDLE"]
Untracked(T) == {id \in active : TenantOf(id) \notin T}

Start(t) ==
    /\ Quiet /\ status[t] # "RUNNING" /\ gen[t] < MaxGen[t]
    /\ status' = [status EXCEPT ![t] = "RUNNING"]
    /\ gen' = [gen EXCEPT ![t] = @ + 1]
    /\ next' = [next EXCEPT ![t] = 0]
    /\ cube' = [cube EXCEPT ![t] = IdleCubes]
    /\ active' = Untracked({t})
    /\ jobs' = [l \in 1 .. Width |-> <<t, gen'[t], l>>]
    /\ pc' = [id \in Loop |-> IF id \in LoopsOf(t, gen'[t]) THEN "next" ELSE pc[id]]
    /\ UNCHANGED <<item, result, count, queue, ticks, burst>>

Pause(t) ==
    /\ Quiet /\ status[t] = "RUNNING" /\ gen[t] < MaxGen[t]
    /\ gen' = [gen EXCEPT ![t] = @ + 1]
    /\ active' = Untracked({t})
    /\ cube' = [cube EXCEPT ![t] = [c \in Cube |-> IF @[c] = "RUNNING" THEN "PAUSED" ELSE @[c]]]
    /\ status' = [status EXCEPT ![t] = "PAUSED"]
    /\ UNCHANGED <<next, pc, item, result, count, queue, jobs, ticks, burst>>

Reset(t) ==
    /\ Quiet /\ gen[t] < MaxGen[t]
    /\ gen' = [gen EXCEPT ![t] = @ + 1]
    /\ active' = Untracked({t})
    /\ status' = [status EXCEPT ![t] = "READY"]
    /\ next' = [next EXCEPT ![t] = 0]
    /\ cube' = [cube EXCEPT ![t] = IdleCubes]
    /\ UNCHANGED <<pc, item, result, count, queue, jobs, ticks, burst>>

(* Called at the shutdown of the server.                                   *)
StopAll ==
    /\ Quiet /\ \A t \in Tenant : gen[t] < MaxGen[t]
    /\ gen' = [t \in Tenant |-> gen[t] + 1]
    /\ active' = {}
    /\ status' = [t \in Tenant |-> IF status[t] = "RUNNING" THEN "PAUSED" ELSE status[t]]
    /\ UNCHANGED <<next, cube, pc, item, result, count, queue, jobs, ticks, burst>>

Next ==
    \/ \E id \in Loop : Micro(id) \/ ChildEnds(id)
    \/ SpawnErrors
    \/ \E t \in Tenant : Start(t) \/ Pause(t) \/ Reset(t)
    \/ StopAll

Spec == Init /\ [][Next]_vars

(* Micro-tasks and ticks are always run to the end; a child exits or is    *)
(* ended by the time limit.                                                *)
FairSpec ==
    /\ Spec
    /\ WF_vars(\E id \in Loop : Micro(id))
    /\ WF_vars(SpawnErrors)
    /\ \A id \in Loop : WF_vars(ChildEnds(id))

-----------------------------------------------------------------------------
(* Properties.                                                             *)

Holders == {id \in Loop : pc[id] \in {"admitted", "child", "stillborn", "settled"}}
Woken == {id \in Loop : pc[id] = "woken"}

Elements(s) == {s[i] : i \in 1 .. Len(s)}
Once(s) == \A i, j \in 1 .. Len(s) : s[i] = s[j] => i = j

(* Members of A are only found before those of B.                          *)
Before(s, A, B) == \A i, j \in 1 .. Len(s) : s[i] \in A /\ s[j] \in B => i < j

(* The counter is the number of admissions held; every loop is in the      *)
(* queue its state says, once.                                             *)
Queues ==
    /\ count = Cardinality(Holders)
    /\ Elements(jobs) = {id \in Loop : pc[id] \in Ready} /\ Once(jobs)
    /\ Elements(queue) = {id \in Loop : pc[id] = "queued"} /\ Once(queue)
    /\ Elements(ticks) = {id \in Loop : pc[id] = "stillborn"} /\ Once(ticks)

(* Loops about to ask for an admission, and those that got it too late.    *)
Asking == {id \in Loop : pc[id] = "next" /\ Matches(id)}
Late == {id \in Loop : pc[id] = "admitted" /\ ~Matches(id)}

(* What makes test-then-raise safe: a waiter that was promised a place     *)
(* goes on before any loop of a present run asks for one, and a waiter     *)
(* that will hand its place on does so after all of those have asked.      *)
PlacesPromised ==
    burst \/ /\ Cardinality(Holders) + Cardinality(Woken) <= MaxActive
             /\ Before(jobs, Woken, Asking) /\ Before(jobs, Asking, Late)
             /\ \A id \in Elements(jobs) : pc[id] = "settled" => Len(jobs) = 1

(* The loops of a range are of generations up to its present one, and of   *)
(* the present one while it runs.                                          *)
Generations ==
    \A id \in Loop :
       /\ pc[id] # "none" => id[2] <= gen[TenantOf(id)]
       /\ pc[id] # "none" /\ pc[id] # "done" /\ id[2] = gen[TenantOf(id)] => Matches(id)

(* No wake-up is lost: loops only wait while all places are held or        *)
(* promised, and of a running run some loop has not ended.                 *)
NobodyWaitsInVain == queue # <<>> => Cardinality(Holders) + Cardinality(Woken) >= MaxActive
RunsHaveLoops ==
    /\ \A id \in Loop : Matches(id) => pc[id] # "none"
    /\ \A t \in Tenant : status[t] = "RUNNING" =>
          \E id \in Loop : TenantOf(id) = t /\ Matches(id) /\ pc[id] # "done"

(* The limit of children holds for all tenants together, whatever is       *)
(* started, paused or reset and whenever children end - as long as the     *)
(* failures to create one are reported one by one - and no place stays     *)
(* free while a loop waits.  acquireAdmission tests the counter before its *)
(* await and raises it after it; only the order of micro-tasks keeps a     *)
(* newcomer from taking the place of a woken waiter.                       *)
Admissions == TypeOK /\ Queues /\ Generations /\ PlacesPromised
AdmissionInv == Admissions /\ NobodyWaitsInVain /\ RunsHaveLoops

(* "enforce a manager-wide worker cap": never more than MaxActive children *)
(* - not so when failures to create one come in a batch.                   *)
WorkerCap == Cardinality({id \in Loop : pc[id] = "child"}) <= MaxActive

(* What snapshot reports is that of one run: tracked are the children of   *)
(* the present run, one for each cube that is RUNNING (stopAll alone       *)
(* leaves cubes RUNNING, in a range it has PAUSED), and a COMPLETED range  *)
(* has a result for every cube.                                            *)
SnapshotsAgree ==
    \A t \in Tenant :
       /\ {id \in active : TenantOf(id) = t} =
             {id \in Holders : TenantOf(id) = t /\ pc[id] # "admitted" /\ Matches(id)}
       /\ status[t] = "RUNNING" =>
             {c \in Cube : cube[t][c] = "RUNNING"} = {item[id] : id \in {o \in active : TenantOf(o) = t}}
       /\ status[t] = "COMPLETED" => \A c \in Cube : cube[t][c] \in Results

(* A result stays until the next start or reset, and no late child of an   *)
(* earlier run writes into a later one: a cube gets a result only after it *)
(* was started in the same run.                                            *)
ResultsStay ==
    [][\A t \in Tenant, c \in Cube :
          cube'[t][c] # cube[t][c] /\ gen'[t] = gen[t] =>
             \/ cube[t][c] = "IDLE" /\ cube'[t][c] = "RUNNING"
             \/ /\ cube[t][c] = "RUNNING" /\ cube'[t][c] \in Results
                /\ \E id \in active \ active' : TenantOf(id) = t /\ id[2] = gen[t] /\ item[id] = c]_vars

(* Every run comes to its end unless it is paused or reset, also when it   *)
(* shares the admissions with others and children are left from earlier    *)
(* runs: waiters are woken in turn and every child ends.                   *)
RunsEnd ==
    \A t \in Tenant : \A g \in 1 .. MaxGen[t] :
       (gen[t] = g /\ status[t] = "RUNNING") ~> (gen[t] # g \/ status[t] = "COMPLETED")
=============================================================================
