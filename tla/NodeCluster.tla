---------------------------- MODULE NodeCluster ----------------------------
(***************************************************************************)
(* NodeClusterManager: tasks of several tenants wait in one priority queue *)
(* and run as child processes on the tenant's nodes, at most MaxActive at  *)
(* a time over all tenants.  Every public method and every callback of a   *)
(* child runs to its end before the next, so each is one action; what      *)
(* interleaves are dispatches, the clock, time limits, the errors and      *)
(* exits of children (also of those killed before), and stopAll.           *)
(*                                                                         *)
(* A definition marked Mutant is a deliberately wrong variant of the one   *)
(* that follows it; no part of the specification uses it.                  *)
(***************************************************************************)
EXTENDS Integers, Sequences, FiniteSets, SequencesExt

CONSTANTS
    Tenant,
    Node,         \* node numbers of every tenant's cluster
    NoNode,
    Capability,
    Capabilities, \* Capabilities[n]
    Capacity,     \* Capacity[n]: tasks at a time
    Health,       \* Health[n]: ranks equally loaded nodes
    Task,         \* messages that clients may send
    Info,         \* Info[t]: tenant, required capabilities, priority weight
    MaxActive,    \* children at a time, over all tenants
    MaxHistory    \* messages remembered for each tenant

ASSUME ClusterAssumption ==
    /\ Node \subseteq Nat /\ IsFiniteSet(Node) /\ NoNode \notin Node
    /\ Capabilities \in [Node -> SUBSET Capability]
    /\ Capacity \in [Node -> Nat \ {0}]
    /\ Health \in [Node -> Nat]
    /\ Info \in [Task -> [tenant : Tenant, needs : SUBSET Capability, weight : 0..2]]
    /\ MaxActive \in Nat \ {0} /\ MaxHistory \in Nat

(* createNodes gives one node every capability.                            *)
ASSUME SomeNodeServesAll == \E n \in Node : Capabilities[n] = Capability

VARIABLES
    status,    \* the relay status of a message
    late,      \* its time to live is over
    queue,     \* pendingTasks
    history,   \* messages of each tenant
    place,     \* the node a message was sent to
    running,   \* messages of activeExecutions
    load,      \* activeTasks of each node
    child      \* the process of a message

clusterVars == <<status, late, queue, history, place, running, load, child>>

Terminal == {"EXECUTED", "FAILED", "EXPIRED"}
Status == {"CREATED", "QUEUED", "ACCEPTED"} \cup Terminal

ClusterTypeOK ==
    /\ status \in [Task -> Status]
    /\ late \in [Task -> BOOLEAN]
    /\ queue \in Seq(Task)
    /\ history \in [Tenant -> Seq(Task)]
    /\ place \in [Task -> Node \cup {NoNode}]
    /\ running \subseteq Task
    /\ load \in [Tenant -> [Node -> Nat]]
    /\ child \in [Task -> {"none", "live", "killed"}]

ClusterInit ==
    /\ status = [t \in Task |-> "CREATED"]
    /\ late = [t \in Task |-> FALSE]
    /\ queue = <<>>
    /\ history = [x \in Tenant |-> <<>>]
    /\ place = [t \in Task |-> NoNode]
    /\ running = {}
    /\ load = [x \in Tenant |-> [n \in Node |-> 0]]
    /\ child = [t \in Task |-> "none"]

TenantOf(t) == Info[t].tenant

-----------------------------------------------------------------------------
(* Scheduling, as a function of the part of the state it may change.       *)

(* selectNode: room and capabilities, then least loaded, healthiest, first.*)
Fits(m, t, n) ==
    /\ m.load[TenantOf(t)][n] < Capacity[n]
    /\ Info[t].needs \subseteq Capabilities[n]

Better(m, x, a, b) ==
    LET la == m.load[x][a] * Capacity[b]
        lb == m.load[x][b] * Capacity[a]
    IN  \/ la < lb
        \/ la = lb /\ Health[a] > Health[b]
        \/ la = lb /\ Health[a] = Health[b] /\ a <= b

Selected(m, t) ==
    CHOOSE n \in Node : Fits(m, t, n) /\ \A o \in Node : Fits(m, t, o) => Better(m, TenantOf(t), n, o)

(* execute.                                                                *)
Started(m, t) ==
    LET n == Selected(m, t)
    IN  [m EXCEPT !.status[t] = "ACCEPTED", !.place[t] = n, !.running = @ \cup {t},
                  !.load[TenantOf(t)][n] = @ + 1, !.child[t] = "live"]

(* Mutant: a task that finds no room is dropped from the queue.            *)
ExamineOnce(m, t) ==
    IF Cardinality(m.running) >= MaxActive THEN [m EXCEPT !.queue = Append(@, t)]
    ELSE IF late[t] THEN [m EXCEPT !.status[t] = "EXPIRED"]
    ELSE IF \E n \in Node : Fits(m, t, n) THEN Started(m, t)
    ELSE m

(* takeNextEligibleTask looks from the front each time; as nodes only fill *)
(* up meanwhile, one pass over the queue takes the same tasks.             *)
Examine(m, t) ==
    IF Cardinality(m.running) >= MaxActive THEN [m EXCEPT !.queue = Append(@, t)]
    ELSE IF late[t] THEN [m EXCEPT !.status[t] = "EXPIRED"]
    ELSE IF \E n \in Node : Fits(m, t, n) THEN Started(m, t)
    ELSE [m EXCEPT !.queue = Append(@, t)]

Schedule(m) ==
    LET after[k \in 0 .. Len(m.queue)] ==
            IF k = 0 THEN [m EXCEPT !.queue = <<>>] ELSE Examine(after[k - 1], m.queue[k])
    IN  after[Len(m.queue)]

Current == [status |-> status, queue |-> queue, place |-> place, running |-> running,
            load |-> load, child |-> child]

Become(m) ==
    /\ status' = m.status /\ queue' = m.queue /\ place' = m.place
    /\ running' = m.running /\ load' = m.load /\ child' = m.child

-----------------------------------------------------------------------------
(* Mutant: the queue is kept in order of arrival.                          *)
EnqueuedLast(t) == Append(queue, t)

(* sortPendingTasks: by priority, then by time of submission.  As the queue*)
(* is in this order already, the new task goes behind those it must follow.*)
Enqueued(t) ==
    LET ahead(i) == Info[queue[i]].weight <= Info[t].weight
        at == CHOOSE i \in 1 .. Len(queue) + 1 :
                 \A j \in 1 .. Len(queue) : ahead(j) <=> j < i
    IN  InsertAt(queue, at, t)

Unfinished(st, t) == st[t] \in {"QUEUED", "ACCEPTED"}

(* Array.filter.                                                           *)
Those(s, keep) ==
    LET kept[i \in 0 .. Len(s)] ==
            IF i = 0 THEN <<>> ELSE IF s[i] \in keep THEN Append(kept[i - 1], s[i]) ELSE kept[i - 1]
    IN  kept[Len(s)]

(* trimHistory with slice(-k): the last k finished messages for k > 0, all *)
(* of them for k = 0, all but the first -k for k < 0.                      *)
Trimmed(h, st) ==
    LET open == {t \in Task : Unfinished(st, t)}
        active == Those(h, open)
        done == Those(h, Task \ open)
        k == MaxHistory - Len(active)
        from == IF k > 0 THEN Len(done) - k + 1 ELSE 1 - k
    IN  IF Len(h) <= MaxHistory THEN h
        ELSE SubSeq(done, IF from < 1 THEN 1 ELSE from, Len(done)) \o active

Dispatch(t) ==
    /\ status[t] = "CREATED"
    /\ LET queued == [status EXCEPT ![t] = "QUEUED"]
       IN  /\ history' = [history EXCEPT ![TenantOf(t)] = Trimmed(Append(@, t), queued)]
           /\ Become(Schedule([Current EXCEPT !.status = queued, !.queue = Enqueued(t)]))
    /\ UNCHANGED late

(* Thirty seconds have passed; nothing looks at the queue because of it.   *)
TimeToLiveEnds(t) ==
    /\ status[t] = "QUEUED" /\ ~late[t]
    /\ late' = [late EXCEPT ![t] = TRUE]
    /\ UNCHANGED <<status, queue, history, place, running, load, child>>

-----------------------------------------------------------------------------
(* The end of a child.                                                     *)

Vacate(m, t) ==
    LET n == place[t]
    IN  [m EXCEPT !.running = @ \ {t}, !.load[TenantOf(t)][n] = IF @ = 0 THEN 0 ELSE @ - 1]

(* Mutant: the end of an execution is taken for news each time.            *)
FinishAgain(t, outcome, process) ==
    /\ Become(Schedule([Vacate(Current, t) EXCEPT !.status[t] = outcome, !.child[t] = process]))
    /\ UNCHANGED <<late, history>>

(* Mutant: a place that is free again is left to the next dispatch.        *)
FinishQuietly(t, outcome, process) ==
    /\ IF t \in running
       THEN Become([Vacate(Current, t) EXCEPT !.status[t] = outcome, !.child[t] = process])
       ELSE Become([Current EXCEPT !.child[t] = process])
    /\ UNCHANGED <<late, history>>

(* finishExecution: only the first of several calls has an effect.         *)
Finish(t, outcome, process) ==
    /\ IF t \in running
       THEN Become(Schedule([Vacate(Current, t) EXCEPT !.status[t] = outcome, !.child[t] = process]))
       ELSE Become([Current EXCEPT !.child[t] = process])
    /\ UNCHANGED <<late, history>>

(* The process is gone: with a receipt for this task, or in another way.   *)
(* A child that was killed may have written its receipt before.            *)
Close(t) ==
    /\ child[t] # "none"
    /\ \E outcome \in {"EXECUTED", "FAILED"} : Finish(t, outcome, "none")

(* The time limit, the output limit or a failed spawn end the execution;   *)
(* the process closes later.                                               *)
Kill(t) ==
    /\ t \in running /\ child[t] = "live"
    /\ Finish(t, "FAILED", "killed")

(* Mutant: executions are forgotten only when their process closes.        *)
StopAllKeepsExecutions ==
    /\ queue' = <<>>
    /\ child' = [t \in Task |-> IF t \in running THEN "killed" ELSE child[t]]
    /\ status' = [t \in Task |-> IF Unfinished(status, t) THEN "FAILED" ELSE status[t]]
    /\ load' = [x \in Tenant |-> [n \in Node |-> 0]]
    /\ UNCHANGED <<late, history, place, running>>

StopAll ==
    /\ queue' = <<>> /\ running' = {}
    /\ child' = [t \in Task |-> IF t \in running THEN "killed" ELSE child[t]]
    /\ status' = [t \in Task |->
                    IF t \in running \/ (status[t] = "QUEUED" /\ Contains(history[TenantOf(t)], t))
                    THEN "FAILED" ELSE status[t]]
    /\ load' = [x \in Tenant |-> [n \in Node |-> 0]]
    /\ UNCHANGED <<late, history, place>>

-----------------------------------------------------------------------------
ClusterNext ==
    \/ \E t \in Task : Dispatch(t) \/ TimeToLiveEnds(t) \/ Close(t) \/ Kill(t)
    \/ StopAll

ClusterSpec == ClusterInit /\ [][ClusterNext]_clusterVars

(* A child closes or runs into its time limit.                             *)
FairClusterSpec == ClusterSpec /\ \A t \in Task : WF_clusterVars(Close(t) \/ Kill(t))

-----------------------------------------------------------------------------
(* Properties.                                                             *)

On(x, n) == {t \in running : TenantOf(t) = x /\ place[t] = n}

(* The counter of a node is the number of its executions, within its       *)
(* capacity, whatever order limits, errors, exits and stops come in; and   *)
(* all tenants together stay within the limit.  What is counted is alive.  *)
SlotsMatch ==
    /\ Cardinality(running) <= MaxActive
    /\ \A t \in running : child[t] = "live"
    /\ \A x \in Tenant, n \in Node :
          load[x][n] = Cardinality(On(x, n)) /\ load[x][n] <= Capacity[n]

(* A message says QUEUED exactly while it is in the queue, once, and       *)
(* ACCEPTED exactly while it runs; neither is ever trimmed from history.   *)
QueueMatches ==
    /\ \A t \in Task :
         /\ status[t] = "QUEUED" <=> Contains(queue, t)
         /\ status[t] = "ACCEPTED" <=> t \in running
         /\ Unfinished(status, t) => Contains(history[TenantOf(t)], t)
    /\ \A i, j \in DOMAIN queue : queue[i] = queue[j] => i = j

(* Places and messages are told apart and counted right.                   *)
ClusterInv == ClusterTypeOK /\ SlotsMatch /\ QueueMatches

(* No wake-up is lost: a task waits only while all places are taken or no  *)
(* node it could use has room.                                             *)
NobodyWaitsInVain ==
    \A t \in Task : status[t] = "QUEUED" /\ Cardinality(running) < MaxActive =>
        \A n \in Node : ~Fits(Current, t, n)

(* A task that starts does not take a node that a waiting task of its      *)
(* tenant with a higher priority could have used.                          *)
NoOvertaking ==
    [][\A t, u \in Task :
          (/\ status'[t] = "ACCEPTED" /\ status[t] = "QUEUED" /\ u # t
           /\ status'[u] = "QUEUED" /\ TenantOf(u) = TenantOf(t)
           /\ Info[u].weight < Info[t].weight)
          => ~(Info[u].needs \subseteq Capabilities[place'[t]])]_clusterVars

(* A settled message stays as it is: neither the exit of a killed child    *)
(* nor a stop changes what was reported.                                   *)
SettledStays == [][\A t \in Task : status[t] \in Terminal => status'[t] = status[t]]_clusterVars

(* Every message that was taken in is settled.                             *)
MessagesSettle == \A t \in Task : Unfinished(status, t) ~> status[t] \in Terminal
=============================================================================
