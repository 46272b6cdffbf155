-------------------------- MODULE SecurityTestQuota --------------------------
(***************************************************************************)
(* The free security tests of a user in a tenant: requests of any instance *)
(* reserve a test under a transaction-scoped advisory lock, run it, and    *)
(* complete or release the reservation with single statements that take no *)
(* advisory lock.  A reservation older than its time to live is given up   *)
(* by the next request of the same user and tenant.                        *)
(*                                                                         *)
(* Statements are steps (READ COMMITTED).  Rows a transaction has updated  *)
(* stay locked until it ends, and the statements that settle them wait.    *)
(* A row of security_test_usage is named by the request that inserts it.   *)
(*                                                                         *)
(* A definition marked Mutant is a deliberately wrong variant of the one   *)
(* that follows it; no part of the specification uses it.                  *)
(***************************************************************************)
EXTENDS Integers, FiniteSets

CONSTANTS
    Request,
    Key,     \* pairs of user and tenant
    Owner,   \* Owner[r]
    NoOne,
    Limit    \* freeLimit

ASSUME QuotaAssumption ==
    /\ IsFiniteSet(Request) /\ NoOne \notin Request
    /\ Owner \in [Request -> Key]
    /\ Limit \in Nat

VARIABLES
    pc,       \* the next step of a request
    paid,     \* the billing provider has confirmed a membership
    row,      \* status of its row
    aged,     \* RESERVATION_TTL_MS have passed since its insert
    expired,  \* rows the transaction of a request has released and not committed
    lock,     \* holder of the advisory lock
    worked,   \* history: its test was run, unpaid, and what it found is stored
    lapsed    \* history: rows given up though their test may have been run

vars == <<pc, paid, row, aged, expired, lock, worked, lapsed>>

Reserving == {"expire", "count", "insert"}
Active == {"new", "lock", "granted", "complete", "release"} \cup Reserving

TypeOK ==
    /\ pc \in [Request -> Active \cup {"done"}]
    /\ paid \in [Request -> BOOLEAN]
    /\ row \in [Request -> {"none", "RESERVED", "COMPLETED", "RELEASED"}]
    /\ aged \in [Request -> BOOLEAN]
    /\ expired \in [Request -> SUBSET Request]
    /\ lock \in [Key -> Request \cup {NoOne}]
    /\ worked \subseteq Request
    /\ lapsed \subseteq Request

Init ==
    /\ pc = [r \in Request |-> "new"]
    /\ paid = [r \in Request |-> FALSE]
    /\ row = [r \in Request |-> "none"]
    /\ aged = [r \in Request |-> FALSE]
    /\ expired = [r \in Request |-> {}]
    /\ lock = [k \in Key |-> NoOne]
    /\ worked = {} /\ lapsed = {}

Goto(r, step) == pc' = [pc EXCEPT ![r] = step]
RowsOf(k) == {q \in Request : Owner[q] = k}

-----------------------------------------------------------------------------
(* reserveSecurityTestQuota.                                               *)

(* getBillingStatus, or its failure (502).                                 *)
Billing(r) ==
    /\ pc[r] = "new"
    /\ \/ \E p \in BOOLEAN : paid' = [paid EXCEPT ![r] = p] /\ Goto(r, "lock")
       \/ Goto(r, "done") /\ UNCHANGED paid
    /\ UNCHANGED <<row, aged, expired, lock, worked, lapsed>>

(* Mutant: nobody is waited for.                                           *)
LockShared(r) ==
    /\ pc[r] = "lock"
    /\ lock' = [lock EXCEPT ![Owner[r]] = r]
    /\ Goto(r, "expire")
    /\ UNCHANGED <<paid, row, aged, expired, worked, lapsed>>

(* pg_advisory_xact_lock(user, tenant).                                    *)
Lock(r) ==
    /\ pc[r] = "lock" /\ lock[Owner[r]] = NoOne
    /\ lock' = [lock EXCEPT ![Owner[r]] = r]
    /\ Goto(r, "expire")
    /\ UNCHANGED <<paid, row, aged, expired, worked, lapsed>>

Expire(r) ==
    /\ pc[r] = "expire"
    /\ expired' = [expired EXCEPT ![r] = {q \in RowsOf(Owner[r]) : row[q] = "RESERVED" /\ aged[q]}]
    /\ Goto(r, "count")
    /\ UNCHANGED <<paid, row, aged, lock, worked, lapsed>>

Counted(r) == {q \in RowsOf(Owner[r]) \ expired[r] : row[q] \in {"RESERVED", "COMPLETED"}}

(* Mutant: the lock belongs to the session and stays.                      *)
CommitKeepingLock(r, rows) ==
    /\ row' = [q \in Request |-> IF q \in expired[r] THEN "RELEASED" ELSE rows[q]]
    /\ lapsed' = lapsed \cup expired[r]
    /\ expired' = [expired EXCEPT ![r] = {}]
    /\ UNCHANGED lock

(* The commit of r's transaction, which has changed the table to rows.     *)
Commit(r, rows) ==
    /\ row' = [q \in Request |-> IF q \in expired[r] THEN "RELEASED" ELSE rows[q]]
    /\ lapsed' = lapsed \cup expired[r]
    /\ expired' = [expired EXCEPT ![r] = {}]
    /\ lock' = [lock EXCEPT ![Owner[r]] = NoOne]

(* Paid access needs no row; otherwise there must be a free test left.     *)
Count(r) ==
    /\ pc[r] = "count"
    /\ \/ paid[r] /\ Commit(r, row) /\ Goto(r, "granted")
       \/ ~paid[r] /\ Cardinality(Counted(r)) < Limit /\ Goto(r, "insert")
          /\ UNCHANGED <<row, expired, lock, lapsed>>
       \/ ~paid[r] /\ Cardinality(Counted(r)) >= Limit /\ Commit(r, row) /\ Goto(r, "done")
    /\ UNCHANGED <<paid, aged, worked>>

Insert(r) ==
    /\ pc[r] = "insert"
    /\ Commit(r, [row EXCEPT ![r] = "RESERVED"])
    /\ Goto(r, "granted")
    /\ UNCHANGED <<paid, aged, worked>>

-----------------------------------------------------------------------------
(* The test and its settlement.                                            *)

(* The route runs its test and commits what it found, or fails.            *)
Test(r) ==
    /\ pc[r] = "granted"
    /\ \/ /\ worked' = IF paid[r] THEN worked ELSE worked \cup {r}
          /\ Goto(r, "complete")
       \/ Goto(r, "release") /\ UNCHANGED worked
    /\ UNCHANGED <<paid, row, aged, expired, lock, lapsed>>

RowLocked(r) == \E q \in Request : r \in expired[q]

Settled(r, s) == IF row[r] = "RESERVED" THEN [row EXCEPT ![r] = s] ELSE row

(* complete; its statement may fail, before or after it took effect, and   *)
(* then the answer is an error and the reservation is released.            *)
Complete(r) ==
    /\ pc[r] = "complete"
    /\ \/ ~RowLocked(r) /\ row' = Settled(r, "COMPLETED") /\ Goto(r, "done")
       \/ ~RowLocked(r) /\ row' = Settled(r, "COMPLETED") /\ Goto(r, "release")
       \/ UNCHANGED row /\ Goto(r, "release")
    /\ UNCHANGED <<paid, aged, expired, lock, worked, lapsed>>

(* release, called by the route or when an error answer is finished.       *)
Release(r) ==
    /\ pc[r] = "release" /\ ~RowLocked(r)
    /\ row' = Settled(r, "RELEASED")
    /\ lapsed' = IF r \in worked THEN lapsed \cup {r} ELSE lapsed
    /\ Goto(r, "done")
    /\ UNCHANGED <<paid, aged, expired, lock, worked>>

-----------------------------------------------------------------------------
(* Time and faults.                                                        *)

Age(r) ==
    /\ row[r] = "RESERVED" /\ ~aged[r]
    /\ aged' = [aged EXCEPT ![r] = TRUE]
    /\ UNCHANGED <<pc, paid, row, expired, lock, worked, lapsed>>

(* The request ends where it is: its instance dies, its transaction fails  *)
(* or, before a release, the client is gone and "finish" never comes.      *)
Die(r) ==
    /\ pc[r] \in Active
    /\ Goto(r, "done")
    /\ expired' = [expired EXCEPT ![r] = {}]
    /\ lock' = [lock EXCEPT ![Owner[r]] = IF @ = r THEN NoOne ELSE @]
    /\ UNCHANGED <<paid, row, aged, worked, lapsed>>

Go(r) ==
    \/ Billing(r) \/ Lock(r) \/ Expire(r) \/ Count(r) \/ Insert(r)
    \/ Test(r) \/ Complete(r) \/ Release(r)

Next == \E r \in Request : Go(r) \/ Age(r) \/ Die(r)

Spec == Init /\ [][Next]_vars

(* Requests are worked on; the lock queue of PostgreSQL is fair, and each  *)
(* request takes the lock once, so weak fairness is enough for it as well. *)
FairSpec == Spec /\ \A r \in Request : WF_vars(Go(r))

-----------------------------------------------------------------------------
(* Properties.                                                             *)

(* Who is reserving holds the lock of its key, and has only stale          *)
(* reservations of that key in its hands.                                  *)
LocksHeld ==
    \A r \in Request :
       /\ pc[r] \in Reserving => lock[Owner[r]] = r
       /\ expired[r] # {} => pc[r] \in {"count", "insert"}
       /\ \A q \in expired[r] : Owner[q] = Owner[r] /\ row[q] = "RESERVED"

(* A place is still free when it is taken.                                 *)
PlaceLeft == \A r \in Request : pc[r] = "insert" => Cardinality(Counted(r)) < Limit

Taken(k) == {q \in RowsOf(k) : row[q] \in {"RESERVED", "COMPLETED"}}

WithinLimit == \A k \in Key : Cardinality(Taken(k)) <= Limit

(* A row is there for the request that inserted it, and stays taken from   *)
(* then on unless it was given up or the test failed.                      *)
RowsExplained ==
    \A r \in Request :
       /\ pc[r] \in {"new", "lock"} \cup Reserving => row[r] = "none" /\ r \notin worked
       /\ pc[r] = "insert" => ~paid[r]
       /\ pc[r] = "complete" => paid[r] \/ r \in worked
       /\ row[r] = "COMPLETED" => r \in worked
       /\ row[r] = "RELEASED" => r \in lapsed \/ pc[r] = "done"
       /\ r \in worked => ~paid[r] /\ (row[r] \in {"RESERVED", "COMPLETED"} \/ r \in lapsed)
       /\ pc[r] \in {"granted", "complete", "release"} => (row[r] = "none" <=> paid[r])

(* Nobody gets more free tests than the limit, however many requests of    *)
(* any instances run at the same time, and whichever of them fail, die or  *)
(* give up the reservations of others: at most Limit tests have been run   *)
(* whose rows were not given up.                                           *)
FreeTests == \A k \in Key : Cardinality({r \in RowsOf(k) : r \in worked \ lapsed}) <= Limit

QuotaInv == TypeOK /\ LocksHeld /\ PlaceLeft /\ WithinLimit /\ RowsExplained /\ FreeTests

(* Every request comes to its end: those that wait for the advisory lock   *)
(* and those that wait for a row never wait for each other.                *)
RequestsEnd == \A r \in Request : pc[r] \in Active ~> pc[r] = "done"
=============================================================================
