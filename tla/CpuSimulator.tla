----------------------------- MODULE CpuSimulator -----------------------------
(***************************************************************************)
(* The CPU simulator of the API server: each instance boots, listens,      *)
(* seeds its defaults and starts a scheduler whose cycles make a forecast  *)
(* and record its outcome in two transactions, under one session-level     *)
(* advisory lock; a cycle begins with the outcomes that interrupted cycles *)
(* left open.  A cycle stays away while the ingest queue has work.         *)
(*                                                                         *)
(* Steps of a cycle are its statements or transactions.  What can go wrong *)
(* between any two: the statement fails, the connection is lost, the       *)
(* instance dies.  PostgreSQL may notice later that a session has ended:   *)
(* until then its lock is kept by no one (Orphan).                         *)
(*                                                                         *)
(* A definition marked Mutant is a deliberately wrong variant of the one   *)
(* that follows it; no part of the specification uses it.                  *)
(***************************************************************************)
EXTENDS Integers, Sequences, FiniteSets

CONSTANTS
    Instance,
    NoOne, Orphan,  \* values of lock besides the instances
    Limit,          \* open forecasts recovered in one cycle
    Production,     \* NODE_ENV = production
    MaxQueue,       \* MAX_QUEUE_SIZE
    MaxForecast,    \* bound: rows of dna_predictions
    MaxEvents,      \* bound: events that arrive
    MaxFaults       \* bound: faults, failed boots and signals

ASSUME SimulatorAssumption ==
    /\ NoOne \notin Instance /\ Orphan \notin Instance /\ NoOne # Orphan
    /\ Limit \in Nat \ {0} /\ Production \in BOOLEAN
    /\ MaxQueue \in Nat /\ MaxForecast \in Nat /\ MaxEvents \in Nat /\ MaxFaults \in Nat

Forecast == 1 .. MaxForecast

VARIABLES
    serving,   \* what an instance has reached: "off", "booting", "seeding" (it listens) or "up"
    closing,   \* it has got SIGTERM or SIGINT
    timer,     \* CpuSimulatorScheduler: its timer is set and it is not stopped
    queue,     \* events in the ingest queue of an instance
    busy,      \* one of them is being processed
    pc,        \* the next step of its cycle
    conn,      \* the connection of the cycle works
    todo,      \* open forecasts the cycle has read
    mine,      \* the forecast it has made
    lock,      \* holder of the advisory lock
    last,      \* the last id of dna_predictions
    outcomes,  \* sources of the rows of dna_outcomes of each forecast
    links,     \* rows of dna_attack_links
    events,    \* events that have arrived
    faults     \* faults, failed boots and signals so far

server == <<serving, closing, timer>>
ingest == <<queue, busy, events>>
cycle == <<pc, conn, todo, mine>>
memory == <<last, outcomes, links>>
vars == <<server, ingest, cycle, lock, memory, faults>>

CycleSteps == {"lock", "read", "recover", "predict", "layers", "outcome", "epilogue", "unlock"}
Locked == CycleSteps \ {"lock"}

TypeOK ==
    /\ serving \in [Instance -> {"off", "booting", "seeding", "up"}]
    /\ closing \in [Instance -> BOOLEAN]
    /\ timer \in [Instance -> BOOLEAN]
    /\ queue \in [Instance -> 0 .. MaxQueue]
    /\ busy \in [Instance -> BOOLEAN]
    /\ pc \in [Instance -> CycleSteps \cup {"idle"}]
    /\ conn \in [Instance -> BOOLEAN]
    /\ todo \in [Instance -> SUBSET Forecast]
    /\ mine \in [Instance -> 0 .. MaxForecast]
    /\ lock \in Instance \cup {NoOne, Orphan}
    /\ last \in 0 .. MaxForecast
    /\ outcomes \in [Forecast -> Seq({"simulation", "recovery"})]
    /\ links \subseteq Forecast \X Forecast
    /\ events \in Nat /\ faults \in Nat

Init ==
    /\ serving = [i \in Instance |-> "off"]
    /\ closing = [i \in Instance |-> FALSE]
    /\ timer = [i \in Instance |-> FALSE]
    /\ queue = [i \in Instance |-> 0]
    /\ busy = [i \in Instance |-> FALSE]
    /\ pc = [i \in Instance |-> "idle"]
    /\ conn = [i \in Instance |-> TRUE]
    /\ todo = [i \in Instance |-> {}]
    /\ mine = [i \in Instance |-> 0]
    /\ lock = NoOne
    /\ last = 0
    /\ outcomes = [p \in Forecast |-> <<>>]
    /\ links = {}
    /\ events = 0 /\ faults = 0

(* Forecasts without an outcome.                                           *)
Pending == {p \in 1 .. last : outcomes[p] = <<>>}

-----------------------------------------------------------------------------
(* Start and stop of an instance.                                          *)

Boot(i) ==
    /\ serving[i] = "off"
    /\ serving' = [serving EXCEPT ![i] = "booting"]
    /\ UNCHANGED <<closing, timer, ingest, cycle, lock, memory, faults>>

(* bootHckBios and bindAfterBios: a failed BIOS binds the port only        *)
(* outside production.                                                     *)
Bind(i) ==
    /\ serving[i] = "booting"
    /\ \E bios \in {"ready", "degraded", "failed"} :
          /\ serving' = [serving EXCEPT ![i] =
                            IF Production /\ bios = "failed" THEN "off" ELSE "seeding"]
          /\ closing' = [closing EXCEPT ![i] = @ /\ serving'[i] # "off"]
          /\ faults' = IF bios = "failed" THEN faults + 1 ELSE faults
          /\ faults' <= MaxFaults
    /\ UNCHANGED <<timer, ingest, cycle, lock, memory>>

(* seedDefaultData is over, onListening starts the scheduler - also if the *)
(* stop of the scheduler has come before.                                  *)
Seeded(i) ==
    /\ serving[i] = "seeding"
    /\ serving' = [serving EXCEPT ![i] = "up"]
    /\ timer' = [timer EXCEPT ![i] = TRUE]
    /\ UNCHANGED <<closing, ingest, cycle, lock, memory, faults>>

(* SIGTERM or SIGINT: the scheduler is stopped.                            *)
Signal(i) ==
    /\ serving[i] # "off" /\ ~closing[i] /\ faults < MaxFaults
    /\ closing' = [closing EXCEPT ![i] = TRUE]
    /\ timer' = [timer EXCEPT ![i] = FALSE]
    /\ faults' = faults + 1
    /\ UNCHANGED <<serving, ingest, cycle, lock, memory>>

Off(i) ==
    /\ serving' = [serving EXCEPT ![i] = "off"]
    /\ closing' = [closing EXCEPT ![i] = FALSE]
    /\ timer' = [timer EXCEPT ![i] = FALSE]
    /\ queue' = [queue EXCEPT ![i] = 0]
    /\ busy' = [busy EXCEPT ![i] = FALSE]

(* stop waits for the active cycle, and pool.end for its client.           *)
Exit(i) ==
    /\ closing[i] /\ pc[i] = "idle"
    /\ Off(i)
    /\ UNCHANGED <<events, cycle, lock, memory, faults>>

-----------------------------------------------------------------------------
(* The ingest queue.                                                       *)

Enqueue(i) ==
    /\ serving[i] \in {"seeding", "up"} /\ events < MaxEvents
    /\ events' = events + 1
    /\ queue' = [queue EXCEPT ![i] = IF @ >= MaxQueue THEN @ ELSE @ + 1]
    /\ UNCHANGED <<server, busy, cycle, lock, memory, faults>>

Process(i) ==
    /\ queue[i] > 0 /\ ~busy[i]
    /\ queue' = [queue EXCEPT ![i] = @ - 1]
    /\ busy' = [busy EXCEPT ![i] = TRUE]
    /\ UNCHANGED <<server, events, cycle, lock, memory, faults>>

Processed(i) ==
    /\ busy[i]
    /\ busy' = [busy EXCEPT ![i] = FALSE]
    /\ UNCHANGED <<server, queue, events, cycle, lock, memory, faults>>

-----------------------------------------------------------------------------
(* A cycle.                                                                *)

At(i, step) == pc[i] = step /\ conn[i]
Goto(i, step) == pc' = [pc EXCEPT ![i] = step]

(* The cycle is over, its variables are gone.                              *)
Over(i) ==
    /\ Goto(i, "idle")
    /\ conn' = [conn EXCEPT ![i] = TRUE]
    /\ todo' = [todo EXCEPT ![i] = {}]
    /\ mine' = [mine EXCEPT ![i] = 0]

(* The scheduler's tick: not while a cycle is active or events wait.       *)
Tick(i) ==
    /\ timer[i] /\ pc[i] = "idle" /\ queue[i] = 0 /\ ~busy[i]
    /\ Goto(i, "lock")
    /\ UNCHANGED <<server, ingest, conn, todo, mine, lock, memory, faults>>

(* Mutant: the cycle goes on without the lock.                             *)
TryLockAnyway(i) ==
    /\ At(i, "lock")
    /\ Goto(i, "read") /\ lock' = i
    /\ UNCHANGED <<server, ingest, conn, todo, mine, memory, faults>>

(* pg_try_advisory_lock.                                                   *)
TryLock(i) ==
    /\ At(i, "lock")
    /\ \/ lock = NoOne /\ lock' = i /\ Goto(i, "read")
       \/ lock # NoOne /\ UNCHANGED lock /\ Goto(i, "idle")
    /\ UNCHANGED <<server, ingest, conn, todo, mine, memory, faults>>

(* reconcilePendingOutcomes: the oldest open forecasts ...                 *)
ReadPending(i) ==
    /\ At(i, "read")
    /\ todo' = [todo EXCEPT ![i] = {p \in Pending : Cardinality({q \in Pending : q < p}) < Limit}]
    /\ Goto(i, "recover")
    /\ UNCHANGED <<server, ingest, conn, mine, lock, memory, faults>>

(* Mutant: the forecast is made before the open ones are looked for.       *)
RecoverNothing(i) ==
    /\ At(i, "recover")
    /\ Goto(i, "predict")
    /\ UNCHANGED <<server, ingest, conn, todo, mine, lock, memory, faults>>

(* ... get an outcome, one by one, unless they have got one.               *)
Recover(i) ==
    /\ At(i, "recover")
    /\ \/ /\ todo[i] = {}
          /\ Goto(i, "predict")
          /\ UNCHANGED <<todo, outcomes>>
       \/ \E p \in todo[i] :
             /\ outcomes' = [outcomes EXCEPT ![p] = IF @ = <<>> THEN <<"recovery">> ELSE @]
             /\ todo' = [todo EXCEPT ![i] = @ \ {p}]
             /\ UNCHANGED pc
    /\ UNCHANGED <<server, ingest, conn, mine, lock, last, links, faults>>

(* The first transaction: the forecast.                                    *)
Predict(i) ==
    /\ At(i, "predict") /\ last < MaxForecast
    /\ last' = last + 1
    /\ mine' = [mine EXCEPT ![i] = last + 1]
    /\ Goto(i, "layers")
    /\ UNCHANGED <<server, ingest, conn, todo, lock, outcomes, links, faults>>

(* Optional observations of the analysis layers, each in a transaction of  *)
(* its own: whatever becomes of them, the cycle goes on.                   *)
Observe(i) ==
    /\ At(i, "layers")
    /\ Goto(i, "outcome")
    /\ UNCHANGED <<server, ingest, conn, todo, mine, lock, memory, faults>>

(* The second transaction: the outcome of the simulation.                  *)
RecordOutcome(i) ==
    /\ At(i, "outcome")
    /\ outcomes' = [outcomes EXCEPT ![mine[i]] = Append(@, "simulation")]
    /\ Goto(i, "epilogue")
    /\ UNCHANGED <<server, ingest, conn, todo, mine, lock, last, links, faults>>

(* linkPrediction and the metrics: derived facts, in part or not at all.   *)
Epilogue(i) ==
    /\ At(i, "epilogue")
    /\ \E linked \in SUBSET (1 .. mine[i] - 1) : links' = links \cup (linked \X {mine[i]})
    /\ Goto(i, "unlock")
    /\ UNCHANGED <<server, ingest, conn, todo, mine, lock, last, outcomes, faults>>

(* Mutant: the lock is left to the session's end.                          *)
UnlockNever(i) ==
    /\ pc[i] = "unlock"
    /\ Over(i)
    /\ UNCHANGED <<server, ingest, lock, memory, faults>>

(* The finally clause.                                                     *)
Unlock(i) ==
    /\ pc[i] = "unlock"
    /\ lock' = IF conn[i] THEN NoOne ELSE lock
    /\ Over(i)
    /\ UNCHANGED <<server, ingest, memory, faults>>

(* A statement fails: the transaction is rolled back, the cycle is over.   *)
(* So it is with a lost connection, and when the bound of rows is reached. *)
Fail(i) ==
    /\ pc[i] \in Locked \ {"epilogue", "unlock"}
    /\ \/ conn[i] /\ faults < MaxFaults /\ faults' = faults + 1
       \/ conn[i] /\ pc[i] = "predict" /\ last = MaxForecast /\ UNCHANGED faults
       \/ ~conn[i] /\ UNCHANGED faults
    /\ Goto(i, "unlock")
    /\ UNCHANGED <<server, ingest, conn, todo, mine, lock, memory>>

(* Without a connection the lock is not asked for, and the epilogue's      *)
(* errors are only logged.                                                 *)
FailQuietly(i) ==
    /\ ~conn[i]
    /\ \/ pc[i] = "lock" /\ Over(i)
       \/ pc[i] = "epilogue" /\ Goto(i, "unlock") /\ UNCHANGED <<conn, todo, mine>>
    /\ UNCHANGED <<server, ingest, lock, memory, faults>>

Step(i) ==
    \/ TryLock(i) \/ ReadPending(i) \/ Recover(i) \/ Predict(i) \/ Observe(i)
    \/ RecordOutcome(i) \/ Epilogue(i) \/ Unlock(i) \/ FailQuietly(i)
    \/ Fail(i) /\ faults' = faults

-----------------------------------------------------------------------------
(* Faults.                                                                 *)

Released(i) == IF lock = i THEN Orphan ELSE lock

Disconnect(i) ==
    /\ pc[i] # "idle" /\ conn[i] /\ faults < MaxFaults
    /\ conn' = [conn EXCEPT ![i] = FALSE]
    /\ lock' = Released(i)
    /\ faults' = faults + 1
    /\ UNCHANGED <<server, ingest, pc, todo, mine, memory>>

Crash(i) ==
    /\ serving[i] # "off" /\ faults < MaxFaults
    /\ Off(i) /\ Over(i)
    /\ lock' = Released(i)
    /\ faults' = faults + 1
    /\ UNCHANGED <<events, memory>>

(* PostgreSQL ends a session that has lost its client.                     *)
SessionEnds ==
    /\ lock = Orphan
    /\ lock' = NoOne
    /\ UNCHANGED <<server, ingest, cycle, memory, faults>>

Life(i) ==
    \/ Boot(i) \/ Bind(i) \/ Seeded(i) \/ Signal(i) \/ Exit(i)
    \/ Enqueue(i) \/ Process(i) \/ Processed(i) \/ Tick(i)

Next ==
    \/ \E i \in Instance : Life(i) \/ Step(i) \/ Fail(i) \/ Disconnect(i) \/ Crash(i)
    \/ SessionEnds

Spec == Init /\ [][Next]_vars

(* A process manager starts instances again, boots come to an end, the     *)
(* scheduler's interval and the event loop go on, and PostgreSQL notices   *)
(* dead sessions.                                                          *)
FairSpec ==
    /\ Spec
    /\ \A i \in Instance :
          /\ WF_vars(Boot(i)) /\ WF_vars(Bind(i)) /\ WF_vars(Seeded(i)) /\ WF_vars(Exit(i))
          /\ WF_vars(Process(i)) /\ WF_vars(Processed(i))
          /\ WF_vars(Tick(i)) /\ WF_vars(Step(i))
    /\ WF_vars(SessionEnds)

-----------------------------------------------------------------------------
(* Properties.                                                             *)

(* Who works with a connection holds the lock, and nobody else: it is      *)
(* never kept by an instance that has finished, lost its connection or     *)
(* died (an unlock that fails while the connection lives is left out).     *)
(* Only its holder can touch the memory, and what it has read of it is     *)
(* still true: what is open is what it goes to recover, nothing when it    *)
(* makes a forecast, and then that forecast alone.                         *)
Exclusive == \A i \in Instance : lock = i <=> pc[i] \in Locked /\ conn[i]

OneOpen == \A p, q \in Pending : p = q

OutcomeOnce == \A p \in Forecast : Len(outcomes[p]) <= 1 /\ (p > last => outcomes[p] = <<>>)

ReadsAreFresh ==
    \A i \in Instance :
       /\ mine[i] <= last
       /\ conn[i] /\ pc[i] = "recover" => todo[i] = Pending
       /\ conn[i] /\ pc[i] \in {"predict", "epilogue"} => Pending = {}
       /\ conn[i] /\ pc[i] \in {"layers", "outcome"} => Pending = {mine[i]}

LinksAmongResolved ==
    \A l \in links : l[1] < l[2] /\ l[2] <= last /\ outcomes[l[1]] # <<>> /\ outcomes[l[2]] # <<>>

(* A forecast never gets two outcomes, and never is more than one open -   *)
(* so the limit of forecasts recovered in one cycle cuts nothing off -     *)
(* with cycles of any instances interrupted anywhere and recovered by      *)
(* others.  (dna_outcomes has no unique index that would see to that.)     *)
(* Links lead from earlier to later forecasts that have their outcomes.    *)
SimulatorInv ==
    TypeOK /\ Exclusive /\ OneOpen /\ OutcomeOnce /\ ReadsAreFresh /\ LinksAmongResolved

(* The memory is a ForecastLedger.                                         *)
Record ==
    [p \in Forecast |-> IF p > last THEN "none"
                        ELSE IF outcomes[p] = <<>> THEN "open"
                        ELSE IF Len(outcomes[p]) = 1 THEN outcomes[p][1] ELSE "twice"]
Ledger == INSTANCE ForecastLedger WITH record <- Record
ImplementsLedger == Ledger!Spec

(* Every forecast gets its outcome in the end: what an interrupted cycle   *)
(* left open is found by the next one, whichever instance runs it.         *)
ForecastsResolve == \A p \in Forecast : p \in Pending ~> p \notin Pending
=============================================================================
