--------------------------- MODULE MetaCubeWorker ---------------------------
(***************************************************************************)
(* How META-CUBE brings accepted executions to the engine: the lifespan    *)
(* worker of each service instance, its local queue, the Redis stream and  *)
(* consumer group the instances share, and the API handlers that accept,   *)
(* retry and recover executions.                                           *)
(*                                                                         *)
(* An instance is one asyncio loop.  engine.execute is synchronous, so an  *)
(* instance that is running one (run[i]) does nothing else; everything     *)
(* else interleaves at each await.  The engine is seen through its durable *)
(* status: the actions that change it are written after the life cycle that*)
(* the engine module shows its runs to implement.                          *)
(*                                                                         *)
(* A definition marked Mutant is a deliberately wrong variant of the one   *)
(* that follows it; no part of the specification uses it.                  *)
(***************************************************************************)
EXTENDS Integers, Sequences, FiniteSets

CONSTANTS
    Exec,         \* execution ids
    Inst,         \* service instances sharing one store
    NoExec, NoMsg,
    MaxCopies,    \* bound: stream entries of one execution at one time
    Configured,   \* the deployments: with REDIS_URL set (TRUE), without
    MaxCrashes,   \* bound: crashes of instances
    MaxOutages,   \* bound: outages of Redis
    MaxOps,       \* bound: operator retries and recoveries
    MaxRaises     \* bound: runs that end with an exception

(* A stream entry names an execution; the copies are its entry ids.        *)
Msg == Exec \X (1..MaxCopies)
Named(m) == m[1]

ASSUME WorkerAssumption ==
    /\ IsFiniteSet(Exec) /\ NoExec \notin Exec
    /\ NoMsg \notin Msg
    /\ Configured \subseteq BOOLEAN
    /\ MaxCopies \in Nat \ {0}
    /\ {MaxCrashes, MaxOutages, MaxOps, MaxRaises} \subseteq Nat

VARIABLES
    status, saved,   \* the durable records
    configured,      \* REDIS_URL is set in this deployment
    redisUp,         \* the Redis server answers
    group,           \* the consumer group exists
    fresh,           \* stream entries not yet read by the group
    pending,         \* entries read and not acknowledged
    loop,            \* the Redis loop of each instance
    available,       \* the instance holds a Redis client
    localAlive,      \* the local consumer task is alive
    queue,           \* the local queue of each instance
    handlers,        \* API handlers between the store and worker.submit
    run,             \* the execution an instance is running
    spent            \* how much of each bound is used

records == <<status, saved>>
server == <<configured, redisUp>>
stream == <<group, fresh, pending>>
memory == <<loop, available, localAlive, queue, handlers, run>>
vars == <<status, saved, configured, redisUp, group, fresh, pending, loop, available,
          localAlive, queue, handlers, run, spent>>

Stage == {"off", "none", "top", "scan", "read", "drain", "ack", "claim"}
Loop == [stage : Stage, todo : SUBSET Exec, inbox : SUBSET Msg,
         after : {"claim", "top"}, msg : Msg \cup {NoMsg}, boot : BOOLEAN]
Quiet == [stage |-> "off", todo |-> {}, inbox |-> {}, after |-> "top",
          msg |-> NoMsg, boot |-> FALSE]
NotRunning == [exec |-> NoExec, msg |-> NoMsg]
Resource == {"crash", "outage", "op", "raise"}

Open == {"created", "running", "retry_wait"}
(* Mutant: an execution between two tries is taken for finished.           *)
ResumableNotRetrying == {e \in Exec : status[e] \in {"created", "running"}}

Resumable == {e \in Exec : status[e] \in Open}
Settled == {"completed", "dead_letter", "failed"}

TypeOK ==
    /\ status \in [Exec -> {"absent", "created", "running", "retry_wait", "recovered"}
                             \cup Settled]
    /\ saved \in [Exec -> BOOLEAN]
    /\ configured \in BOOLEAN /\ redisUp \in BOOLEAN /\ group \in BOOLEAN
    /\ fresh \subseteq Msg /\ pending \subseteq Msg
    /\ loop \in [Inst -> Loop]
    /\ available \in [Inst -> BOOLEAN]
    /\ localAlive \in [Inst -> BOOLEAN]
    /\ queue \in [Inst -> Seq(Exec)]
    /\ handlers \in [Inst -> SUBSET Exec]
    /\ run \in [Inst -> [exec : Exec \cup {NoExec}, msg : Msg \cup {NoMsg}]]
    /\ spent \in [Resource -> Nat]

Init ==
    /\ status = [e \in Exec |-> "absent"]
    /\ saved = [e \in Exec |-> FALSE]
    /\ configured \in Configured
    /\ redisUp = configured /\ group = FALSE
    /\ fresh = {} /\ pending = {}
    /\ loop = [i \in Inst |-> Quiet]
    /\ available = [i \in Inst |-> FALSE]
    /\ localAlive = [i \in Inst |-> FALSE]
    /\ queue = [i \in Inst |-> <<>>]
    /\ handlers = [i \in Inst |-> {}]
    /\ run = [i \in Inst |-> NotRunning]
    /\ spent = [r \in Resource |-> 0]

Alive(i) == loop[i].stage # "off"
Free(i) == Alive(i) /\ run[i] = NotRunning
Serving(i) == Free(i) /\ ~loop[i].boot   \* requests wait for the lifespan
Unlocked(e) == \A i \in Inst : run[i].exec # e
Spend(r, max) == spent[r] < max /\ spent' = [spent EXCEPT ![r] = @ + 1]

(* The executions of a set in some order, as engine.list hands them out.   *)
Orders(S) == {q \in [1..Cardinality(S) -> S] : \A a, b \in DOMAIN q : q[a] = q[b] => a = b}

-----------------------------------------------------------------------------
(* The stream.  An entry id is reused only when nobody holds it any more.  *)
Held(m) == m \in fresh \cup pending
           \/ \E i \in Inst : m \in loop[i].inbox \cup {loop[i].msg, run[i].msg}
Unused(e) == {n \in 1..MaxCopies : ~Held(<<e, n>>)}

(* XADD.                                                                   *)
Xadd(e) ==
    \E n \in Unused(e) :
        /\ \A k \in Unused(e) : n <= k
        /\ fresh' = fresh \cup {<<e, n>>}
        /\ UNCHANGED <<group, pending>>

RedisFails ==
    /\ configured /\ redisUp
    /\ Spend("outage", MaxOutages)
    /\ redisUp' = FALSE
    /\ UNCHANGED <<records, configured, stream, memory>>

(* Redis is transport, not persistence: it may come back without its data. *)
RedisReturns ==
    /\ configured /\ ~redisUp
    /\ redisUp' = TRUE
    /\ \/ UNCHANGED stream
       \/ group' = FALSE /\ fresh' = {} /\ pending' = {}
    /\ UNCHANGED <<records, configured, memory, spent>>

-----------------------------------------------------------------------------
(* Life of an instance.                                                    *)

(* Mutant: a service without Redis relies on what it still has in memory.  *)
ResumeNothing(i) == UNCHANGED queue

(* _resume_persisted(redis_enqueue=False).                                 *)
ResumeLocally(i) ==
    \E q \in Orders(Resumable) : queue' = [queue EXCEPT ![i] = @ \o q]

(* Lifespan start: connect, then publish what the store holds, or queue it *)
(* locally when Redis is out of reach or not configured.                   *)
Start(i) ==
    /\ ~Alive(i)
    /\ available' = [available EXCEPT ![i] = redisUp]
    /\ localAlive' = [localAlive EXCEPT ![i] = TRUE]
    /\ IF redisUp
       THEN /\ loop' = [loop EXCEPT ![i] = [Quiet EXCEPT !.stage = "scan",
                                              !.todo = Resumable, !.boot = TRUE]]
            /\ group' = TRUE
            /\ UNCHANGED queue
       ELSE /\ ResumeLocally(i)
            /\ loop' = [loop EXCEPT ![i].stage = IF configured THEN "top" ELSE "none"]
            /\ UNCHANGED group
    /\ UNCHANGED <<records, server, fresh, pending, handlers, run, spent>>

(* Crash or stop: the memory of the instance goes, a run ends at its last  *)
(* commit and its lock is dropped.                                         *)
Crash(i) ==
    /\ Alive(i)
    /\ Spend("crash", MaxCrashes)
    /\ loop' = [loop EXCEPT ![i] = Quiet]
    /\ available' = [available EXCEPT ![i] = FALSE]
    /\ localAlive' = [localAlive EXCEPT ![i] = FALSE]
    /\ queue' = [queue EXCEPT ![i] = <<>>]
    /\ handlers' = [handlers EXCEPT ![i] = {}]
    /\ run' = [run EXCEPT ![i] = NotRunning]
    /\ UNCHANGED <<records, server, stream>>

-----------------------------------------------------------------------------
(* The Redis loop, one action per await.                                   *)

GoTo(i, stage) == loop' = [loop EXCEPT ![i].stage = stage]

(* The instance holds a client and the server answers it.                  *)
Reaches(i) == Free(i) /\ available[i] /\ redisUp

(* Any call that Redis does not answer, or refuses because the group is    *)
(* gone, ends the pass.  During start the records are queued locally and   *)
(* the client is kept, later the client is closed (which may fail as well) *)
(* and the loop begins again.                                              *)
TransportFails(i) ==
    /\ Free(i)
    /\ \/ loop[i].stage = "top" /\ ~redisUp
       \/ loop[i].stage = "scan" /\ loop[i].todo # {} /\ ~Reaches(i)
       \/ loop[i].stage = "ack" /\ ~Reaches(i)
       \/ loop[i].stage = "read" /\ ~(Reaches(i) /\ group)
       \/ loop[i].stage = "claim" /\ available[i] /\ ~(redisUp /\ group)
    /\ loop' = [loop EXCEPT ![i] = [Quiet EXCEPT !.stage = "top"]]
    /\ IF loop[i].boot
       THEN ResumeLocally(i) /\ UNCHANGED available
       ELSE /\ available' \in {available, [available EXCEPT ![i] = FALSE]}
            /\ UNCHANGED queue
    /\ UNCHANGED <<records, server, stream, localAlive, handlers, run, spent>>

(* Connect if needed, make sure of the group, read the durable records.    *)
Connect(i) ==
    /\ Free(i) /\ redisUp
    /\ loop[i].stage = "top"
    /\ available' = [available EXCEPT ![i] = TRUE]
    /\ group' = TRUE
    /\ loop' = [loop EXCEPT ![i].stage = "scan", ![i].todo = Resumable]
    /\ UNCHANGED <<records, server, fresh, pending, localAlive, queue, handlers,
                   run, spent>>

(* The outbox scan publishes from the list it read, stale by now or not.   *)
(* With MaxCopies in use an entry is skipped; a later scan makes up for it.*)
Publish(i, e) ==
    /\ Reaches(i)
    /\ loop[i].stage = "scan" /\ e \in loop[i].todo
    /\ Xadd(e) \/ (Unused(e) = {} /\ UNCHANGED stream)
    /\ loop' = [loop EXCEPT ![i].todo = @ \ {e}]
    /\ UNCHANGED <<records, server, available, localAlive, queue, handlers, run, spent>>

ScanDone(i) ==
    /\ Free(i)
    /\ loop[i].stage = "scan" /\ loop[i].todo = {}
    /\ GoTo(i, IF loop[i].boot THEN "claim" ELSE "read")
    /\ UNCHANGED <<records, server, stream, available, localAlive, queue, handlers, run, spent>>

(* Mutant: read without the pending list (NOACK).                          *)
ReadGroupNoAck(i) ==
    /\ Reaches(i) /\ group
    /\ loop[i].stage = "read"
    /\ fresh' = {}
    /\ loop' = [loop EXCEPT ![i].stage = "drain", ![i].inbox = fresh, ![i].after = "claim"]
    /\ UNCHANGED <<records, server, group, pending, available, localAlive, queue,
                   handlers, run, spent>>

ReadGroup(i) ==
    /\ Reaches(i) /\ group
    /\ loop[i].stage = "read"
    /\ fresh' = {} /\ pending' = pending \cup fresh
    /\ loop' = [loop EXCEPT ![i].stage = "drain", ![i].inbox = fresh, ![i].after = "claim"]
    /\ UNCHANGED <<records, server, group, available, localAlive, queue, handlers,
                   run, spent>>

(* reclaim: the entries go to the drain, and the next pass follows.  All   *)
(* instances are the same consumer, and an entry idle for a millisecond may*)
(* be claimed: also one another instance is working on.  Without a client  *)
(* nothing is claimed.                                                     *)
Reclaimed(i, entries) ==
    loop' = [loop EXCEPT ![i].stage = "drain", ![i].inbox = entries, ![i].after = "top"]

(* Mutant: the entries in the answer of XAUTOCLAIM are not found.          *)
ClaimNothing(i) ==
    /\ Free(i) /\ loop[i].stage = "claim"
    /\ available[i] => redisUp /\ group
    /\ Reclaimed(i, {})
    /\ UNCHANGED <<records, server, stream, available, localAlive, queue, handlers, run, spent>>

Claim(i) ==
    /\ Free(i) /\ loop[i].stage = "claim"
    /\ \/ available[i] /\ redisUp /\ group /\ Reclaimed(i, pending)
       \/ ~available[i] /\ Reclaimed(i, {})
    /\ UNCHANGED <<records, server, stream, available, localAlive, queue, handlers, run, spent>>

DrainDone(i) ==
    /\ Free(i)
    /\ loop[i].stage = "drain" /\ loop[i].inbox = {}
    /\ loop' = [loop EXCEPT ![i].stage = loop[i].after,
                            ![i].boot = loop[i].boot /\ loop[i].after = "claim"]
    /\ UNCHANGED <<records, server, stream, available, localAlive, queue, handlers, run, spent>>

Ack(i) ==
    /\ Reaches(i)
    /\ loop[i].stage = "ack"
    /\ pending' = pending \ {loop[i].msg}
    /\ loop' = [loop EXCEPT ![i].stage = "drain", ![i].msg = NoMsg]
    /\ UNCHANGED <<records, server, group, fresh, available, localAlive, queue, handlers,
                   run, spent>>

-----------------------------------------------------------------------------
(* _process: the engine runs one execution under its lock.                 *)

TakeMessage(i, m) ==
    /\ Free(i)
    /\ loop[i].stage = "drain" /\ m \in loop[i].inbox
    /\ Unlocked(Named(m))
    /\ run' = [run EXCEPT ![i] = [exec |-> Named(m), msg |-> m]]
    /\ loop' = [loop EXCEPT ![i].inbox = @ \ {m}]
    /\ UNCHANGED <<records, server, stream, available, localAlive, queue, handlers, spent>>

TakeLocal(i) ==
    /\ Free(i) /\ localAlive[i]
    /\ queue[i] # <<>>
    /\ Unlocked(Head(queue[i]))
    /\ run' = [run EXCEPT ![i] = [exec |-> Head(queue[i]), msg |-> NoMsg]]
    /\ queue' = [queue EXCEPT ![i] = Tail(@)]
    /\ UNCHANGED <<records, server, stream, loop, available, localAlive, handlers, spent>>

Working(i, e) == e # NoExec /\ run[i].exec = e
Workable(e) == status[e] # "completed"

(* Back from the engine: a message goes on to its acknowledgement.         *)
Return(i) ==
    /\ run' = [run EXCEPT ![i] = NotRunning]
    /\ IF run[i].msg = NoMsg
       THEN UNCHANGED loop
       ELSE loop' = [loop EXCEPT ![i].stage = "ack", ![i].msg = run[i].msg]

(* A commit inside the run: a step with its checkpoint, or a failed try.   *)
Persist(i, e) ==
    /\ Working(i, e) /\ Workable(e)
    /\ \/ /\ status' = [status EXCEPT ![e] = "running"]
          /\ saved' = [saved EXCEPT ![e] = TRUE]
       \/ /\ status' = [status EXCEPT ![e] = "retry_wait"]
          /\ UNCHANGED saved
    /\ UNCHANGED <<server, stream, memory, spent>>

Settle(i, e) ==
    /\ Working(i, e) /\ Workable(e)
    /\ \E to \in Settled : status' = [status EXCEPT ![e] = to]
    /\ Return(i)
    /\ UNCHANGED <<saved, server, stream, available, localAlive, queue, handlers, spent>>

(* Mutant: the entry of a completed execution is passed over.              *)
SkipUnacknowledged(i, e) ==
    /\ Working(i, e) /\ ~Workable(e)
    /\ run' = [run EXCEPT ![i] = NotRunning]
    /\ UNCHANGED <<records, server, stream, loop, available, localAlive, queue, handlers, spent>>

(* A completed execution is returned as it is.                             *)
Skip(i, e) ==
    /\ Working(i, e) /\ ~Workable(e)
    /\ Return(i)
    /\ UNCHANGED <<records, server, stream, available, localAlive, queue, handlers, spent>>

(* A store error or an unsupported action.  The Redis loop leaves the      *)
(* entry pending and goes on; the local loop has no handler and ends.  The *)
(* lock is taken to be free again.  In the code the unlock fails where a   *)
(* statement error has aborted the transaction of a living connection, and *)
(* the lock stays with that pooled session: who asks through any other     *)
(* session, of this instance or another, waits until that session ends.    *)
(* That wait is left out: liveness is claimed for exceptions that leave no *)
(* lock behind.                                                            *)
Raise(i, e) ==
    /\ Working(i, e)
    /\ Spend("raise", MaxRaises)
    /\ run' = [run EXCEPT ![i] = NotRunning]
    /\ localAlive' = [localAlive EXCEPT ![i] = @ /\ run[i].msg # NoMsg]
    /\ UNCHANGED <<records, server, stream, loop, available, queue, handlers>>

-----------------------------------------------------------------------------
(* The API: a committed transition, then worker.submit.                    *)

Handle(i, e) == handlers' = [handlers EXCEPT ![i] = @ \cup {e}]

AcceptEvent(i, e) ==
    /\ Serving(i)
    /\ status[e] = "absent"
    /\ status' = [status EXCEPT ![e] = "created"]
    /\ Handle(i, e)
    /\ UNCHANGED <<saved, server, stream, loop, available, localAlive, queue, run, spent>>

RetryCall(i, e) ==
    /\ Serving(i) /\ Unlocked(e)
    /\ status[e] \in {"failed", "dead_letter"}
    /\ Spend("op", MaxOps)
    /\ status' = [status EXCEPT ![e] = "created"]
    /\ Handle(i, e)
    /\ UNCHANGED <<saved, server, stream, loop, available, localAlive, queue, run>>

RecoverCall(i, e) ==
    /\ Serving(i) /\ Unlocked(e)
    /\ saved[e]
    /\ Spend("op", MaxOps)
    /\ status' = [status EXCEPT ![e] = "recovered"]
    /\ Handle(i, e)
    /\ UNCHANGED <<saved, server, stream, loop, available, localAlive, queue, run>>

(* A call with a known idempotency key changes nothing, but the execution  *)
(* it names is submitted again.  The replay of an event takes no lock of   *)
(* the execution.                                                          *)
ReplayCall(i, e) ==
    /\ Serving(i)
    /\ status[e] # "absent"
    /\ Spend("op", MaxOps)
    /\ Handle(i, e)
    /\ UNCHANGED <<records, server, stream, loop, available, localAlive, queue, run>>

(* XADD with the client at hand; a failed XADD closes the client and falls *)
(* back to the local queue, as does an instance without a client.          *)
Submit(i, e) ==
    /\ Free(i) /\ e \in handlers[i]
    /\ handlers' = [handlers EXCEPT ![i] = @ \ {e}]
    /\ IF available[i] /\ redisUp
       THEN /\ \/ Xadd(e)
               \/ /\ \E m \in fresh : Named(m) = e
                  /\ Unused(e) = {} /\ UNCHANGED stream
            /\ UNCHANGED <<available, queue>>
       ELSE /\ queue' = [queue EXCEPT ![i] = Append(@, e)]
            /\ available' \in {available, [available EXCEPT ![i] = FALSE]}
            /\ UNCHANGED stream
    /\ UNCHANGED <<records, server, loop, localAlive, run, spent>>

-----------------------------------------------------------------------------
RedisLoop(i) ==
    \/ TransportFails(i)
    \/ Connect(i)
    \/ \E e \in Exec : Publish(i, e)
    \/ ScanDone(i)
    \/ ReadGroup(i)
    \/ Claim(i)
    \/ DrainDone(i)
    \/ Ack(i)
    \/ \E m \in Msg : TakeMessage(i, m)

Finish(i) == \E e \in Exec : Settle(i, e) \/ Skip(i, e)

Next ==
    \/ RedisFails
    \/ RedisReturns
    \/ \E i \in Inst :
         \/ Start(i)
         \/ Crash(i)
         \/ RedisLoop(i)
         \/ TakeLocal(i)
         \/ Finish(i)
         \/ \E e \in Exec :
              \/ Persist(i, e)
              \/ Raise(i, e)
              \/ AcceptEvent(i, e)
              \/ RetryCall(i, e)
              \/ RecoverCall(i, e)
              \/ ReplayCall(i, e)
              \/ Submit(i, e)

Spec == Init /\ [][Next]_vars

(* The supervisor restarts instances; each asyncio task that can run gets  *)
(* its turn; a run of the engine ends; Redis comes back.  Nothing obliges  *)
(* clients to call or operators to act.                                    *)
Fairness ==
    \A i \in Inst :
        /\ WF_vars(Start(i))
        /\ SF_vars(RedisLoop(i))
        /\ SF_vars(TakeLocal(i))
        /\ WF_vars(Finish(i))
        /\ \A e \in Exec : SF_vars(Submit(i, e))

FairSpec == Spec /\ Fairness /\ WF_vars(RedisReturns)

-----------------------------------------------------------------------------
(* Properties.                                                             *)

(* Somebody will come to e: a handler, a queue with a living consumer, an  *)
(* entry of the stream, or an instance running it.                         *)
InHand(e) ==
    \/ \E m \in fresh \cup pending : Named(m) = e
    \/ \E i \in Inst :
          \/ e \in handlers[i]
          \/ localAlive[i] /\ \E k \in DOMAIN queue[i] : queue[i][k] = e
          \/ run[i].exec = e

(* While nothing crashes, no run raises and Redis keeps its data, an       *)
(* execution that is not at its end is in somebody's hands at every moment,*)
(* however deliveries, claims and operator calls interleave: no            *)
(* acknowledgement drops the last reference to it.                         *)
NeverDropped ==
    /\ TypeOK
    /\ spent["crash"] + spent["outage"] + spent["raise"] = 0 =>
          \A e \in Exec : status[e] \in {"absent"} \cup Settled \/ InHand(e)

(* The local consumer of an instance that is up has ended with an exception.*)
ConsumerDied(i) == Alive(i) /\ ~localAlive[i]

(* Without Redis nothing scans the store while the service is up, so even  *)
(* with crashes a resumable execution is in the memory of an instance that *)
(* is up, or an instance has yet to start and will read the store; unless  *)
(* a run raised, which ends the consumer.                                  *)
NothingForgotten ==
    ~configured /\ spent["raise"] = 0 =>
        \A e \in Exec : status[e] \in Open => InHand(e) \/ \E i \in Inst : ~Alive(i)

(* An accepted execution that is waiting or running comes to an outcome,   *)
(* or an operator marked it recovered meanwhile; where no Redis loop scans *)
(* the store this holds only as long as the local consumers live.          *)
ResumableSettles ==
    \A e \in Exec : status[e] \in Open ~>
        \/ status[e] \in Settled \cup {"recovered"}
        \/ ~configured /\ \E i \in Inst : ConsumerDied(i)

(* The same without the exception.                                         *)
AcceptedSettles ==
    \A e \in Exec : status[e] \in Open ~> status[e] \in Settled \cup {"recovered"}

(* The stream of an instance is drained again and again: outages, raising  *)
(* runs, redeliveries and duplicates do not keep its entries alive.        *)
StreamDrains == []<>(fresh \cup pending = {})

(* An execution that keeps its outcome is left alone in the end.  An       *)
(* instance may publish it from a list it read before the outcome, both may*)
(* claim the same entry, work on it and acknowledge it: these copies are   *)
(* used up, and no scan, claim or acknowledgement makes new ones for ever. *)
SettledIsLeftAlone ==
    \A e \in Exec : <>[](status[e] \in Settled) => <>[]~InHand(e)

(* A recovered execution is run to an outcome.                             *)
RecoveredSettles ==
    \A e \in Exec : (status[e] = "recovered") ~> (status[e] \in Settled)
=============================================================================
