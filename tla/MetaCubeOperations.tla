------------------------- MODULE MetaCubeOperations -------------------------
(***************************************************************************)
(* Operator calls of META-CUBE (POST .../retry and .../recover): each      *)
(* carries an idempotency key, may be repeated by its client at any time,  *)
(* and may race with other calls and with the engine.                      *)
(*                                                                         *)
(* Store = "postgres": one transaction under the advisory lock of the      *)
(* execution; the unique index on the key is all that calls for different  *)
(* executions share.  Store = "file": one process, one lock for everything,*)
(* and two separate writes of the state file.                              *)
(*                                                                         *)
(* Statuses that the operations treat alike are one here: "created" stands *)
(* also for running and retry_wait, "dead_letter" also for failed.         *)
(*                                                                         *)
(* A definition marked Mutant is a deliberately wrong variant of the one   *)
(* that follows it; no part of the specification uses it.                  *)
(***************************************************************************)
EXTENDS Integers

CONSTANTS
    Exec,      \* execution ids
    Key,       \* idempotency keys of one tenant
    Client,    \* concurrent requests
    NoClaim,   \* an unused key
    Store,     \* "postgres" or "file"
    Crashes    \* whether a service instance or its connection may die

Op == {"retry", "recover"}
Claim == [exec : Exec, op : Op, by : Client]

ASSUME OperationsAssumption ==
    /\ NoClaim \notin Claim
    /\ Store \in {"postgres", "file"}
    /\ Crashes \in BOOLEAN

VARIABLES
    status,    \* committed status of an execution
    saved,     \* it has a checkpoint
    claimed,   \* committed rows of the operation keys
    call,      \* the request each client has made, and how far it is
    answer,    \* the success a client was told of, or NoClaim
    applied    \* history: transitions that became durable, by key

vars == <<status, saved, claimed, call, answer, applied>>

Status == {"absent", "created", "completed", "dead_letter", "recovered"}
Stage == {"idle", "lock", "check", "write", "claim", "commit"}
Call == [stage : Stage, exec : Exec, op : Op, key : Key]

TypeOK ==
    /\ status \in [Exec -> Status]
    /\ saved \in [Exec -> BOOLEAN]
    /\ claimed \in [Key -> Claim \cup {NoClaim}]
    /\ call \in [Client -> Call]
    /\ answer \in [Client -> Claim \cup {NoClaim}]
    /\ applied \in [Key -> Nat]

Init ==
    /\ status = [e \in Exec |-> "absent"]
    /\ saved = [e \in Exec |-> FALSE]
    /\ claimed = [k \in Key |-> NoClaim]
    /\ call \in [Client -> {x \in Call : x.stage = "idle"}]
    /\ answer = [c \in Client |-> NoClaim]
    /\ applied = [k \in Key |-> 0]

-----------------------------------------------------------------------------
(* Locks.  A call holds its lock from the check of the key to the end.     *)
Holds(c) == call[c].stage \in {"check", "write", "claim", "commit"}
LockOf(e) == IF Store = "file" THEN Exec ELSE {e}
(* Mutant: calls for the same execution do not exclude each other.         *)
UnlockedAnyway(e) == TRUE
Unlocked(e) == \A c \in Client : Holds(c) => call[c].exec \notin LockOf(e)

At(c, stage) == call[c].stage = stage
GoTo(c, stage) == call' = [call EXCEPT ![c].stage = stage]
Tell(c, a) == GoTo(c, "idle") /\ answer' = [answer EXCEPT ![c] = a]

Mine(c, r) == r.exec = call[c].exec /\ r.op = call[c].op
Target(op) == IF op = "retry" THEN "created" ELSE "recovered"
Moved(c) == [status EXCEPT ![call[c].exec] = Target(call[c].op)]
Counted(c) == [applied EXCEPT ![call[c].key] = @ + 1]

(* A client sends a request, new or once more with a key it used before.   *)
Request(c, e, op, k) ==
    /\ At(c, "idle")
    /\ call' = [call EXCEPT ![c] = [stage |-> "lock", exec |-> e, op |-> op, key |-> k]]
    /\ answer' = [answer EXCEPT ![c] = NoClaim]
    /\ UNCHANGED <<status, saved, claimed, applied>>

Lock(c) ==
    /\ At(c, "lock")
    /\ Unlocked(call[c].exec)
    /\ GoTo(c, "check")
    /\ UNCHANGED <<status, saved, claimed, answer, applied>>

(* Mutant: the key is left to the unique index.                            *)
CheckKeyLater(c) ==
    /\ At(c, "check")
    /\ GoTo(c, "write")
    /\ UNCHANGED <<status, saved, claimed, answer, applied>>

(* Mutant: a known key is answered whatever it was used for.               *)
CheckKeyAnyCall(c) ==
    /\ At(c, "check")
    /\ IF claimed[call[c].key] = NoClaim
       THEN GoTo(c, "write") /\ UNCHANGED answer
       ELSE Tell(c, claimed[call[c].key])
    /\ UNCHANGED <<status, saved, claimed, applied>>

(* A known key is answered with what its winner was told, or refused when  *)
(* it was used for something else.                                         *)
CheckKey(c) ==
    /\ At(c, "check")
    /\ LET r == claimed[call[c].key]
       IN  IF r = NoClaim
           THEN GoTo(c, "write") /\ UNCHANGED answer
           ELSE Tell(c, IF Mine(c, r) THEN r ELSE NoClaim)
    /\ UNCHANGED <<status, saved, claimed, applied>>

Permitted(c) ==
    LET e == call[c].exec
    IN  IF call[c].op = "retry" THEN status[e] = "dead_letter"
        ELSE status[e] # "absent" /\ saved[e]

(* The transition: part of the transaction in PostgreSQL, a first write of *)
(* its own in the state file.                                              *)
Transition(c) ==
    /\ At(c, "write")
    /\ Permitted(c)
    /\ GoTo(c, "claim")
    /\ IF Store = "file"
       THEN status' = Moved(c) /\ applied' = Counted(c)
       ELSE UNCHANGED <<status, applied>>
    /\ UNCHANGED <<saved, claimed, answer>>

Refuse(c) ==
    /\ At(c, "write")
    /\ ~Permitted(c)
    /\ Tell(c, NoClaim)
    /\ UNCHANGED <<status, saved, claimed, applied>>

(* Mutant: a key is reserved from the moment its call has its lock.        *)
InsertKeyReserved(c) ==
    /\ At(c, "claim")
    /\ \A d \in Client \ {c} : Holds(d) => call[d].key # call[c].key
    /\ Store = "postgres" => claimed[call[c].key] = NoClaim
    /\ GoTo(c, "commit")
    /\ UNCHANGED <<status, saved, claimed, answer, applied>>

(* INSERT ... ON CONFLICT DO NOTHING waits for the transaction that holds  *)
(* an uncommitted row with the same key.                                   *)
InsertKey(c) ==
    /\ At(c, "claim")
    /\ \A d \in Client : At(d, "commit") => call[d].key # call[c].key
    /\ Store = "postgres" => claimed[call[c].key] = NoClaim
    /\ GoTo(c, "commit")
    /\ UNCHANGED <<status, saved, claimed, answer, applied>>

(* Mutant: the transition stays although the key went to another call.     *)
LoseKeyKeepsTransition(c) ==
    /\ At(c, "claim") /\ Store = "postgres"
    /\ claimed[call[c].key] # NoClaim
    /\ status' = Moved(c) /\ applied' = Counted(c)
    /\ Tell(c, IF Mine(c, claimed[call[c].key]) THEN claimed[call[c].key] ELSE NoClaim)
    /\ UNCHANGED <<saved, claimed>>

(* The key went to another transaction: for the same call the winner's     *)
(* answer is returned and the transaction commits, else it is rolled back. *)
LoseKey(c) ==
    /\ At(c, "claim") /\ Store = "postgres"
    /\ claimed[call[c].key] # NoClaim
    /\ IF Mine(c, claimed[call[c].key])
       THEN /\ status' = Moved(c) /\ applied' = Counted(c)
            /\ Tell(c, claimed[call[c].key])
       ELSE /\ UNCHANGED <<status, applied>>
            /\ Tell(c, NoClaim)
    /\ UNCHANGED <<saved, claimed>>

(* The commit of the transaction, or the second write of the state file.   *)
Commit(c) ==
    /\ At(c, "commit")
    /\ LET r == [exec |-> call[c].exec, op |-> call[c].op, by |-> c]
       IN  claimed' = [claimed EXCEPT ![call[c].key] = r] /\ Tell(c, r)
    /\ IF Store = "postgres"
       THEN status' = Moved(c) /\ applied' = Counted(c)
       ELSE UNCHANGED <<status, applied>>
    /\ UNCHANGED saved

(* The instance or the connection dies: what is not durable is undone, the *)
(* client has no answer and may try again.                                 *)
Crash(c) ==
    /\ Crashes
    /\ call[c].stage # "idle"
    /\ GoTo(c, "idle")
    /\ UNCHANGED <<status, saved, claimed, answer, applied>>

-----------------------------------------------------------------------------
(* The engine, one durable change at a time under the execution's lock.    *)

Accept(e) ==
    /\ status[e] = "absent"
    /\ status' = [status EXCEPT ![e] = "created"]
    /\ UNCHANGED <<saved, claimed, call, answer, applied>>

(* A completed execution is left alone, any other is run.  No call of an   *)
(* operator comes between the commits of a run, which MetaCubeEngine has   *)
(* one by one: here a run is one step from its start to the commit after   *)
(* which it ended or was cut off, "created" when more is left to do.       *)
Run(e) ==
    /\ status[e] \notin {"absent", "completed"}
    /\ Unlocked(e)
    /\ \E to \in {"created", "completed", "dead_letter"} : status' = [status EXCEPT ![e] = to]
    /\ saved' \in {saved, [saved EXCEPT ![e] = TRUE]}
    /\ UNCHANGED <<claimed, call, answer, applied>>

Proceed(c) ==
    \/ Lock(c) \/ CheckKey(c) \/ Transition(c) \/ Refuse(c)
    \/ InsertKey(c) \/ LoseKey(c) \/ Commit(c)

Next ==
    \/ \E c \in Client, e \in Exec, op \in Op, k \in Key : Request(c, e, op, k)
    \/ \E c \in Client : Proceed(c) \/ Crash(c)
    \/ \E e \in Exec : Accept(e) \/ Run(e)

Spec == Init /\ [][Next]_vars

-----------------------------------------------------------------------------
(* Properties.                                                             *)

(* However often a key is sent, by whom and across which failures, at most *)
(* one transition becomes durable for it.                                  *)
AppliedOnce == \A k \in Key : applied[k] <= 1

(* Everybody who is told that a key succeeded is told the same, and it is  *)
(* what the store holds for that key, for the execution and the operation  *)
(* that was asked for.                                                     *)
RepliesAgree ==
    \A c \in Client : answer[c] # NoClaim =>
        answer[c] = claimed[call[c].key] /\ Mine(c, answer[c])

(* Requests do not wait for each other in a circle: while some are under   *)
(* way, one of them can go on.  The locks of executions and the uncommitted*)
(* keys, which a call waits for while it holds its lock, are taken in this *)
(* order by every call.                                                    *)
SomebodyProceeds ==
    (\E c \in Client : ~At(c, "idle")) => \E c \in Client : ENABLED Proceed(c)

(* The inductive strengthening the proofs use, for the PostgreSQL store.   *)

CountedByKey == \A k \in Key : applied[k] = IF claimed[k] = NoClaim THEN 0 ELSE 1

LocksExclude ==
    \A c, d \in Client : Holds(c) /\ Holds(d) /\ call[c].exec = call[d].exec => c = d

(* Past the check, a key that has been claimed since was claimed by a call *)
(* for another execution: calls for the same one had to wait.              *)
KeysChecked ==
    \A c \in Client : call[c].stage \in {"write", "claim", "commit"} =>
        claimed[call[c].key] = NoClaim \/ ~Mine(c, claimed[call[c].key])

(* An uncommitted key is nobody else's.                                    *)
KeysReserved ==
    \A c \in Client : At(c, "commit") =>
        /\ claimed[call[c].key] = NoClaim
        /\ \A d \in Client : At(d, "commit") /\ call[d].key = call[c].key => c = d

(* The database holds the status an admitted transition was checked on.    *)
StillPermitted ==
    \A c \in Client : call[c].stage \in {"claim", "commit"} => Permitted(c)

OperationsInv ==
    /\ TypeOK /\ CountedByKey /\ LocksExclude /\ KeysChecked /\ KeysReserved
    /\ StillPermitted /\ RepliesAgree

(* The status changes and the keys behave as if each call were one step.   *)
Log == INSTANCE OperationLog
ImplementsOperationLog == Log!LogSpec
=============================================================================
