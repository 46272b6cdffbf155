--------------------------- MODULE MetaCubeEngine ---------------------------
(***************************************************************************)
(* The META-CUBE execution engine: accepted executions are DAGs of steps   *)
(* whose progress is written to a shared store after every step.  Several  *)
(* service instances (Worker) share the store; each runs one execution at  *)
(* a time under the store's session lock `execution:<id>`, which the store *)
(* drops when the instance dies.                                           *)
(*                                                                         *)
(* Delivery is at least once: any instance may be handed any accepted      *)
(* execution at any time.  Every action below is one store transaction, so *)
(* Abort(w) between two of them is a crash, a store error or an exception. *)
(*                                                                         *)
(* A definition marked Mutant is a deliberately wrong variant of the one   *)
(* that follows it; no part of the specification uses it.                  *)
(***************************************************************************)
EXTENDS Integers, Sequences, Functions

CONSTANTS
    Exec,           \* execution ids
    Step,           \* step ids; the engine runs ready steps in id order
    Request,        \* accepted event payloads
    NoRequest,      \* marks an execution id not handed out yet
    Worker,         \* service instances
    NoExec,         \* marks an idle instance
    Plan,           \* Plan[r]: the DAG and the attempt limit of request r
    MaxDeliveries   \* bound: hand-overs of one execution to an instance

Kind == {"ok", "fail", "unsupported"}

(* order: the steps as declared; a step fails while fewer than failures    *)
(* attempts were made, or always when its kind is "fail".                  *)
PlanType ==
    [order : Seq(Step), deps : [Step -> SUBSET Step], kind : [Step -> Kind],
     failures : [Step -> Nat], max : Nat \ {0}]

ASSUME EngineAssumption ==
    /\ Step \subseteq Int
    /\ NoRequest \notin Request
    /\ NoExec \notin Exec
    /\ Plan \in [Request -> PlanType]
    /\ MaxDeliveries \in Nat

VARIABLES
    request,      \* the payload an execution was accepted with
    status,       \* the durable status column
    attempts,     \* durable attempt counters
    results,      \* steps with a durable result
    checkpoints,  \* steps with a checkpoint row
    dlq,          \* dead letters of the execution
    deliveries,   \* how often the execution was handed to an instance
    run           \* what each instance holds in memory

vars == <<request, status, attempts, results, checkpoints, dlq, deliveries, run>>
durable == <<request, status, attempts, results, checkpoints, dlq>>

Status == {"absent", "created", "running", "retry_wait", "completed",
           "failed", "dead_letter", "recovered"}
Letter == [step : Step, attempts : Nat]
Idle == [exec |-> NoExec, batch |-> {}, mode |-> "running"]
Run == [exec : Exec \cup {NoExec}, batch : SUBSET Step,
        mode : {"running", "recovered"}]

TypeOK ==
    /\ request \in [Exec -> Request \cup {NoRequest}]
    /\ status \in [Exec -> Status]
    /\ attempts \in [Exec -> [Step -> Nat]]
    /\ results \in [Exec -> SUBSET Step]
    /\ checkpoints \in [Exec -> SUBSET Step]
    /\ dlq \in [Exec -> SUBSET Letter]
    /\ deliveries \in [Exec -> Nat]
    /\ run \in [Worker -> Run]

Accepted(e) == request[e] # NoRequest
PlanOf(e) == Plan[request[e]]
Steps(e) == Range(PlanOf(e).order)
Remaining(e) == Steps(e) \ results[e]
(* Mutant: dependencies are ignored.                                       *)
ReadyAnyOrder(e) == Remaining(e)

Ready(e) == {s \in Remaining(e) : PlanOf(e).deps[s] \subseteq results[e]}
Locked(e) == \E w \in Worker : run[w].exec = e

Init ==
    /\ request = [e \in Exec |-> NoRequest]
    /\ status = [e \in Exec |-> "absent"]
    /\ attempts = [e \in Exec |-> [s \in Step |-> 0]]
    /\ results = [e \in Exec |-> {}]
    /\ checkpoints = [e \in Exec |-> {}]
    /\ dlq = [e \in Exec |-> {}]
    /\ deliveries = [e \in Exec |-> 0]
    /\ run = [w \in Worker |-> Idle]

(* A fresh id is created with its request in one insert.                   *)
Accept(e, r) ==
    /\ ~Accepted(e)
    /\ request' = [request EXCEPT ![e] = r]
    /\ status' = [status EXCEPT ![e] = "created"]
    /\ UNCHANGED <<attempts, results, checkpoints, dlq, deliveries, run>>

-----------------------------------------------------------------------------
(* One run of an execution by instance w.                                  *)

(* Mutant: the session lock is not taken.                                  *)
BeginUnlocked(w, e, mode) ==
    /\ run[w] = Idle
    /\ Accepted(e)
    /\ status[e] # "completed"
    /\ deliveries[e] < MaxDeliveries
    /\ deliveries' = [deliveries EXCEPT ![e] = @ + 1]
    /\ run' = [run EXCEPT ![w] = [exec |-> e, batch |-> {}, mode |-> mode]]
    /\ UNCHANGED durable

(* execute and recover take the lock, read the record and return at once   *)
(* when it is completed.  A failed or dead-lettered record is run again.   *)
Begin(w, e, mode) ==
    /\ run[w] = Idle
    /\ Accepted(e)
    /\ ~Locked(e)
    /\ status[e] # "completed"
    /\ deliveries[e] < MaxDeliveries
    /\ deliveries' = [deliveries EXCEPT ![e] = @ + 1]
    /\ run' = [run EXCEPT ![w] = [exec |-> e, batch |-> {}, mode |-> mode]]
    /\ UNCHANGED durable

Running(w, e) == run[w].exec = e

(* The ready steps are computed once per pass and then run in id order.    *)
Batch(w, e) == IF run[w].batch # {} THEN run[w].batch ELSE Ready(e)
IsNext(w, e, s) == s \in Batch(w, e) /\ \A t \in Batch(w, e) : s <= t

Fails(e, s) ==
    \/ attempts[e][s] < PlanOf(e).failures[s]
    \/ PlanOf(e).kind[s] = "fail"
Unsupported(e, s) == ~Fails(e, s) /\ PlanOf(e).kind[s] = "unsupported"

Attempted(e, s) == [attempts EXCEPT ![e][s] = @ + 1]
(* Mutant: the attempt being counted is forgotten.                         *)
ExhaustedLate(e, s) == attempts[e][s] >= PlanOf(e).max
Exhausted(e, s) == attempts[e][s] + 1 >= PlanOf(e).max
Release(w) == run' = [run EXCEPT ![w] = Idle]

(* Result, attempt and checkpoint are committed together.                  *)
StepSucceeds(w, e, s) ==
    /\ Running(w, e) /\ IsNext(w, e, s)
    /\ ~Fails(e, s) /\ ~Unsupported(e, s)
    /\ status' = [status EXCEPT ![e] = run[w].mode]
    /\ attempts' = Attempted(e, s)
    /\ results' = [results EXCEPT ![e] = @ \cup {s}]
    /\ checkpoints' = [checkpoints EXCEPT ![e] = @ \cup {s}]
    /\ run' = [run EXCEPT ![w].batch = Batch(w, e) \ {s}]
    /\ UNCHANGED <<request, dlq, deliveries>>

(* A failed attempt is durable before the run starts over.                 *)
StepRetries(w, e, s) ==
    /\ Running(w, e) /\ IsNext(w, e, s)
    /\ Fails(e, s) /\ ~Exhausted(e, s)
    /\ status' = [status EXCEPT ![e] = "retry_wait"]
    /\ attempts' = Attempted(e, s)
    /\ run' = [run EXCEPT ![w].batch = {}]
    /\ UNCHANGED <<request, results, checkpoints, dlq, deliveries>>

(* Mutant: the letter carries the counter from before the attempt.         *)
StepDeadLettersStale(w, e, s) ==
    /\ Running(w, e) /\ IsNext(w, e, s)
    /\ Fails(e, s) /\ Exhausted(e, s)
    /\ status' = [status EXCEPT ![e] = "dead_letter"]
    /\ attempts' = Attempted(e, s)
    /\ dlq' = [dlq EXCEPT ![e] = @ \cup {[step |-> s, attempts |-> attempts[e][s]]}]
    /\ Release(w)
    /\ UNCHANGED <<request, results, checkpoints, deliveries>>

StepDeadLetters(w, e, s) ==
    /\ Running(w, e) /\ IsNext(w, e, s)
    /\ Fails(e, s) /\ Exhausted(e, s)
    /\ status' = [status EXCEPT ![e] = "dead_letter"]
    /\ attempts' = Attempted(e, s)
    /\ dlq' = [dlq EXCEPT ![e] =
                 @ \cup {[step |-> s, attempts |-> attempts[e][s] + 1]}]
    /\ Release(w)
    /\ UNCHANGED <<request, results, checkpoints, deliveries>>

(* An unsupported action raises out of the run with nothing written.       *)
StepRaises(w, e, s) ==
    /\ Running(w, e) /\ IsNext(w, e, s)
    /\ Unsupported(e, s)
    /\ Release(w)
    /\ UNCHANGED <<durable, deliveries>>

RunCompletes(w, e) ==
    /\ Running(w, e)
    /\ Remaining(e) = {}
    /\ status' = [status EXCEPT ![e] = "completed"]
    /\ Release(w)
    /\ UNCHANGED <<request, attempts, results, checkpoints, dlq, deliveries>>

(* Steps remain and none is ready: a cycle.                                *)
RunStuck(w, e) ==
    /\ Running(w, e)
    /\ Remaining(e) # {} /\ Batch(w, e) = {}
    /\ status' = [status EXCEPT ![e] = "failed"]
    /\ Release(w)
    /\ UNCHANGED <<request, attempts, results, checkpoints, dlq, deliveries>>

(* The instance dies or the store refuses a write: the memory of the run is*)
(* gone, the last committed transaction stands.  A dead instance or a lost *)
(* connection drops the session lock.  After a statement error on a living *)
(* connection the code cannot: pg_advisory_unlock fails in the aborted     *)
(* transaction, and the lock stays with the pooled connection until that   *)
(* session ends.  The lock is released here in both cases, which only adds *)
(* runs that the code would keep waiting.                                  *)
Abort(w) ==
    /\ run[w] # Idle
    /\ Release(w)
    /\ UNCHANGED <<durable, deliveries>>

-----------------------------------------------------------------------------
(* Operator transitions, each one transaction under the execution's lock.  *)

(* Mutant: the first declared step, done or not.                           *)
FirstDeclared(e, s) == s = PlanOf(e).order[1]

(* The first step without a result, in declaration order.                  *)
FirstIncomplete(e, s) ==
    \E i \in DOMAIN PlanOf(e).order :
        /\ s = PlanOf(e).order[i]
        /\ s \notin results[e]
        /\ \A j \in DOMAIN PlanOf(e).order : j < i => PlanOf(e).order[j] \in results[e]

(* Mutant: an execution of any status is put back.                         *)
RetryAnyStatus(e) ==
    /\ Accepted(e)
    /\ ~Locked(e)
    /\ attempts' = [attempts EXCEPT ![e] =
                      [s \in Step |-> IF FirstIncomplete(e, s) THEN 0 ELSE @[s]]]
    /\ status' = [status EXCEPT ![e] = "created"]
    /\ dlq' = [dlq EXCEPT ![e] = {}]
    /\ UNCHANGED <<request, results, checkpoints, deliveries, run>>

Retry(e) ==
    /\ status[e] \in {"failed", "dead_letter"}
    /\ ~Locked(e)
    /\ attempts' = [attempts EXCEPT ![e] =
                      [s \in Step |-> IF FirstIncomplete(e, s) THEN 0 ELSE @[s]]]
    /\ status' = [status EXCEPT ![e] = "created"]
    /\ dlq' = [dlq EXCEPT ![e] = {}]
    /\ UNCHANGED <<request, results, checkpoints, deliveries, run>>

(* Allowed from every status, completed included.                          *)
Recover(e) ==
    /\ checkpoints[e] # {}
    /\ ~Locked(e)
    /\ status' = [status EXCEPT ![e] = "recovered"]
    /\ UNCHANGED <<request, attempts, results, checkpoints, dlq, deliveries, run>>

-----------------------------------------------------------------------------
RunStep(w, e) ==
    \/ \E s \in Step : StepSucceeds(w, e, s)
    \/ \E s \in Step : StepRetries(w, e, s)
    \/ \E s \in Step : StepDeadLetters(w, e, s)
    \/ \E s \in Step : StepRaises(w, e, s)
    \/ RunCompletes(w, e)
    \/ RunStuck(w, e)

Next ==
    \/ \E e \in Exec, r \in Request : Accept(e, r)
    \/ \E w \in Worker, e \in Exec, m \in {"running", "recovered"} : Begin(w, e, m)
    \/ \E w \in Worker, e \in Exec : RunStep(w, e)
    \/ \E w \in Worker : Abort(w)
    \/ \E e \in Exec : Retry(e)
    \/ \E e \in Exec : Recover(e)

Spec == Init /\ [][Next]_vars

-----------------------------------------------------------------------------
(* What must hold whatever is delivered, repeated or cut short.            *)

(* A result and its checkpoint row are never seen apart, so a record that  *)
(* was cut short resumes from exactly the checkpoints written.             *)
CheckpointsMatchResults == \A e \in Exec : checkpoints[e] = results[e]

(* No step has a result before everything it depends on has one, even when *)
(* the run that made the one was not the run that made the other.          *)
DependenciesFirst ==
    \A e \in Exec : Accepted(e) =>
        \A s \in results[e] : PlanOf(e).deps[s] \subseteq results[e]

(* "completed" is only ever reported with every step done.                 *)
CompletedHasAllSteps ==
    \A e \in Exec : status[e] = "completed" => Remaining(e) = {}

(* A dead-lettered execution has a letter for a step that is still missing *)
(* and that letter carries the step's exhausted counter.                   *)
DeadLetterExplained ==
    \A e \in Exec : status[e] = "dead_letter" =>
        \E l \in dlq[e] : /\ l.step \in Remaining(e)
                          /\ l.attempts = attempts[e][l.step]
                          /\ l.attempts >= PlanOf(e).max

(* An execution waiting to be run afresh has no dead letter left over.     *)
CreatedHasNoLetters == \A e \in Exec : status[e] = "created" => dlq[e] = {}

(* The attempt limit may be passed by redelivery, by one attempt for each  *)
(* extra hand-over and no more.                                            *)
AttemptsAccounted ==
    \A e \in Exec : Accepted(e) =>
        \A s \in Step :
            attempts[e][s] <=
                IF deliveries[e] = 0 THEN 0 ELSE PlanOf(e).max + deliveries[e] - 1

(* A checkpointed step is never run again: no crash, redelivery, retry or  *)
(* recovery takes its result away or counts another attempt for it.        *)
CheckpointedStepsFrozen ==
    [][\A e \in Exec : \A s \in results[e] :
          s \in results'[e] /\ attempts'[e][s] = attempts[e][s]]_vars

-----------------------------------------------------------------------------
(* The inductive strengthening the proofs use.                             *)

Untouched(e) ==
    /\ status[e] = "absent"
    /\ results[e] = {} /\ checkpoints[e] = {} /\ dlq[e] = {}
    /\ attempts[e] = [s \in Step |-> 0] /\ deliveries[e] = 0

OnlyAcceptedTouched ==
    \A e \in Exec : IF Accepted(e) THEN status[e] # "absent" ELSE Untouched(e)

RunsExclusive ==
    \A v, w \in Worker : run[v].exec = run[w].exec => v = w \/ run[v].exec = NoExec

(* What a running instance holds agrees with the store it read, and every  *)
(* step it may still try has an attempt to spare for this hand-over.       *)
RunSound(w, e) ==
    /\ Accepted(e)
    /\ status[e] # "completed"
    /\ run[w].batch \subseteq Ready(e)
    /\ deliveries[e] > 0
    /\ \A s \in Step \ results[e] :
          attempts[e][s] < PlanOf(e).max + deliveries[e] - 1

RunsSound == \A w \in Worker, e \in Exec : run[w].exec = e => RunSound(w, e)

EngineInv ==
    /\ TypeOK
    /\ OnlyAcceptedTouched
    /\ RunsExclusive
    /\ RunsSound
    /\ CheckpointsMatchResults
    /\ DependenciesFirst
    /\ CompletedHasAllSteps
    /\ DeadLetterExplained
    /\ CreatedHasNoLetters
    /\ AttemptsAccounted

-----------------------------------------------------------------------------
(* The engine implements the life cycle it promises: the store shows only  *)
(* the status changes of ExecutionLifecycle.                               *)
Lifecycle == INSTANCE ExecutionLifecycle WITH saved <- [e \in Exec |-> checkpoints[e] # {}]
ImplementsLifecycle == Lifecycle!LifeSpec

-----------------------------------------------------------------------------
(* What comments and documents of the program say and the code does not.   *)

(* README of the service: failures retry up to maxRetries and then create  *)
(* a dead letter, so no step is tried more than max times in a window.     *)
AttemptLimit ==
    \A e \in Exec : Accepted(e) => \A s \in Step : attempts[e][s] <= PlanOf(e).max
=============================================================================
