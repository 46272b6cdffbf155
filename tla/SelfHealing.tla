------------------------------ MODULE SelfHealing ------------------------------
(***************************************************************************)
(* The self-healing registry for one managed resource of a tenant, with    *)
(* the event route that uses it: requests of any instances register        *)
(* verified states, preview and apply restore points, and isolate events   *)
(* whose resource is then restored automatically.                          *)
(*                                                                         *)
(* Every request is one transaction (an event: two), read committed.  A    *)
(* transaction reads without locks, then writes the resource and keeps the *)
(* lock of its row until its end, and last takes the lock of the audit     *)
(* chain's head; as nothing comes after that, the audit record and the     *)
(* commit are one step.  The log has the records about the resource only.  *)
(* A state is named by the request that registered it, and so is the       *)
(* restore point it makes.                                                 *)
(*                                                                         *)
(* A definition marked Mutant is a deliberately wrong variant of the one   *)
(* that follows it; no part of the specification uses it.                  *)
(***************************************************************************)
EXTENDS Integers, Sequences, FiniteSets

CONSTANTS
    Request,
    Kind,       \* Kind[r]: what a request does
    Location,   \* the managed:// locations
    NoOne,
    MaxDamaged  \* bound: restore points damaged in the store

ASSUME HealingAssumption ==
    /\ Kind \in [Request -> {"register", "preview", "apply", "event"}]
    /\ NoOne \notin Request
    /\ MaxDamaged \in Nat

Registration == {r \in Request : Kind[r] = "register"}

VARIABLES
    pc,        \* the next step of a request
    place,     \* the location a registration names; that of its restore point
    point,     \* the restore point a request works with
    found,     \* it has seen the resource
    verified,  \* it has verified the point's hash and location
    draft,     \* the resource as the holder of the lock will leave it
    lock,      \* holder of the lock of the resource's row
    born,      \* registrations by the start of their transactions (createdAt)
    damaged,   \* restore points whose state does not match their hash any more
    evidence,  \* events stored with their quarantine capture
    resource, stored, log  \* as in RestoreRegistry

request == <<pc, place, point, found, verified>>
row == <<draft, lock>>
vars == <<request, row, born, damaged, evidence, resource, stored, log>>

Steps == {"new", "write", "commit", "select", "lookup", "read"}
Row == [location : Location, state : Registration,
        status : {"VERIFIED", "DEGRADED", "QUARANTINED"}]
NoRow == [status |-> "NONE"]
Operations == {"register", "restore", "reject", "quarantine", "preview", "unresolved"}

TypeOK ==
    /\ pc \in [Request -> Steps \cup {"done"}]
    /\ place \in [Registration -> Location]
    /\ point \in [Request -> Registration \cup {NoOne}]
    /\ found \in [Request -> BOOLEAN]
    /\ verified \in [Request -> BOOLEAN]
    /\ draft \in Row \cup {NoRow} /\ resource \in Row \cup {NoRow}
    /\ lock \in Request \cup {NoOne}
    /\ born \in Seq(Registration)
    /\ stored \subseteq Registration /\ damaged \subseteq stored /\ evidence \subseteq Request
    /\ log \in Seq([op : Operations, point : Registration \cup {NoOne}])

Init ==
    /\ pc = [r \in Request |-> "new"]
    /\ place \in [Registration -> Location]
    /\ point = [r \in Request |-> NoOne]
    /\ found = [r \in Request |-> FALSE]
    /\ verified = [r \in Request |-> FALSE]
    /\ resource = NoRow /\ draft = NoRow
    /\ lock = NoOne
    /\ born = <<>>
    /\ stored = {} /\ damaged = {} /\ evidence = {}
    /\ log = <<>>

Absent == resource = NoRow
Goto(r, step) == pc' = [pc EXCEPT ![r] = step]

-----------------------------------------------------------------------------
(* What a transaction reads.                                               *)

(* registerVerifiedManagedResource: is there such a resource?              *)
RegisterRead(r) ==
    /\ pc[r] = "new" /\ r \in Registration
    /\ born' = Append(born, r)
    /\ found' = [found EXCEPT ![r] = ~Absent]
    /\ Goto(r, "write")
    /\ UNCHANGED <<place, point, verified, row, damaged, evidence, resource, stored, log>>

(* applyVerifiedRestorePoint: the point and the resource (a point and the  *)
(* existence of its resource do not change, so the two reads are one).     *)
Verify(r, p) ==
    /\ point' = [point EXCEPT ![r] = p]
    /\ verified' = [verified EXCEPT ![r] = p \notin damaged /\ place[p] = resource.location]
    /\ Goto(r, "write")

ApplyRead(r) ==
    /\ pc[r] = "new" /\ Kind[r] = "apply"
    /\ \E p \in stored : Verify(r, p)
    /\ UNCHANGED <<place, found, row, born, damaged, evidence, resource, stored, log>>

AutoRead(r) ==
    /\ pc[r] = "read"
    /\ Verify(r, point[r])
    /\ UNCHANGED <<place, found, row, born, damaged, evidence, resource, stored, log>>

-----------------------------------------------------------------------------
(* An event to be isolated.                                                *)

(* Mutant: the restore is begun before the evidence is stored.             *)
PersistNothing(r) ==
    /\ pc[r] = "new" /\ Kind[r] = "event"
    /\ Goto(r, "select")
    /\ UNCHANGED <<place, point, found, verified, row, born, damaged, evidence, resource, stored, log>>

(* The first transaction: the event and its quarantine capture.            *)
Persist(r) ==
    /\ pc[r] = "new" /\ Kind[r] = "event"
    /\ evidence' = evidence \cup {r}
    /\ Goto(r, "select")
    /\ UNCHANGED <<place, point, found, verified, row, born, damaged, resource, stored, log>>

(* The point made last, by the time its transaction began.                 *)
Latest(p) ==
    \E i \in 1 .. Len(born) : born[i] = p /\ \A j \in i + 1 .. Len(born) : born[j] \notin stored

(* automaticallyRestoreManagedResource.                                    *)
Select(r) ==
    /\ pc[r] = "select"
    /\ \/ stored = {} /\ Goto(r, "lookup") /\ UNCHANGED point
       \/ \E p \in stored : Latest(p) /\ point' = [point EXCEPT ![r] = p] /\ Goto(r, "read")
    /\ UNCHANGED <<place, found, verified, row, born, damaged, evidence, resource, stored, log>>

(* Without a point, the resource is looked for all the same.               *)
Lookup(r) ==
    /\ pc[r] = "lookup"
    /\ found' = [found EXCEPT ![r] = ~Absent]
    /\ Goto(r, "write")
    /\ UNCHANGED <<place, point, verified, row, born, damaged, evidence, resource, stored, log>>

-----------------------------------------------------------------------------
(* What a transaction writes.                                              *)

Registered(r) == [location |-> place[r], state |-> r, status |-> "VERIFIED"]

(* Mutant: of a rejected point, too, the state is written.                 *)
AppliedUnverified(r) ==
    IF verified[r] THEN [resource EXCEPT !.state = point[r], !.status = "VERIFIED"]
                   ELSE [resource EXCEPT !.state = point[r], !.status = "DEGRADED"]

Applied(r) ==
    IF verified[r] THEN [resource EXCEPT !.state = point[r], !.status = "VERIFIED"]
                   ELSE [resource EXCEPT !.status = "DEGRADED"]

(* What r makes of the resource.                                           *)
Written(r) ==
    IF r \in Registration THEN Registered(r)
    ELSE IF point[r] # NoOne THEN Applied(r)
    ELSE [resource EXCEPT !.status = "QUARANTINED"]

(* An UPDATE names the resource by its id.                                 *)
Writes(r) ==
    /\ pc[r] = "write"
    /\ found[r] \/ point[r] # NoOne \/ (r \in Registration /\ Absent)

(* Mutant: nobody is waited for.                                           *)
WriteShared(r) ==
    /\ Writes(r)
    /\ lock' = r /\ draft' = Written(r)
    /\ Goto(r, "commit")
    /\ UNCHANGED <<place, point, found, verified, born, damaged, evidence, resource, stored, log>>

(* UPDATE or, of a resource not seen, INSERT: both wait for the holder.    *)
Write(r) ==
    /\ Writes(r) /\ lock = NoOne
    /\ lock' = r /\ draft' = Written(r)
    /\ Goto(r, "commit")
    /\ UNCHANGED <<place, point, found, verified, born, damaged, evidence, resource, stored, log>>

(* The resource was registered in between: managed_resources_tenant_key_   *)
(* uidx refuses the second row.                                            *)
Refused(r) ==
    /\ pc[r] = "write" /\ r \in Registration /\ ~found[r] /\ ~Absent
    /\ Goto(r, "done")
    /\ UNCHANGED <<place, point, found, verified, row, born, damaged, evidence, resource, stored, log>>

Operation(r) ==
    IF r \in Registration THEN "register"
    ELSE IF point[r] = NoOne THEN "quarantine"
    ELSE IF verified[r] THEN "restore" ELSE "reject"

Audit(op, p) == log' = Append(log, [op |-> op, point |-> p])

(* The restore point or the action, the audit record and the commit.       *)
Commit(r) ==
    /\ pc[r] = "commit"
    /\ resource' = draft /\ draft' = NoRow /\ lock' = NoOne
    /\ stored' = IF r \in Registration THEN stored \cup {r} ELSE stored
    /\ Audit(Operation(r), IF r \in Registration THEN r ELSE point[r])
    /\ Goto(r, "done")
    /\ UNCHANGED <<place, point, found, verified, born, damaged, evidence>>

(* An action about a resource nobody has registered.                       *)
Unresolved(r) ==
    /\ pc[r] = "write" /\ Kind[r] = "event" /\ point[r] = NoOne /\ ~found[r]
    /\ Audit("unresolved", NoOne)
    /\ Goto(r, "done")
    /\ UNCHANGED <<place, point, found, verified, row, born, damaged, evidence, resource, stored>>

(* previewVerifiedRestorePoint: an action and an audit record, whose       *)
(* answer nothing in the registry reads.                                   *)
Preview(r) ==
    /\ pc[r] = "new" /\ Kind[r] = "preview"
    /\ \E p \in stored : Audit("preview", p)
    /\ Goto(r, "done")
    /\ UNCHANGED <<place, point, found, verified, row, born, damaged, evidence, resource, stored>>

-----------------------------------------------------------------------------
(* Faults.                                                                 *)

(* The request ends where it is: not found, a statement fails, the         *)
(* connection or the instance is lost.                                     *)
Fail(r) ==
    /\ pc[r] # "done"
    /\ Goto(r, "done")
    /\ lock' = IF lock = r THEN NoOne ELSE lock
    /\ draft' = IF lock = r THEN NoRow ELSE draft
    /\ UNCHANGED <<place, point, found, verified, born, damaged, evidence, resource, stored, log>>

Damage(p) ==
    /\ p \in stored \ damaged /\ Cardinality(damaged) < MaxDamaged
    /\ damaged' = damaged \cup {p}
    /\ UNCHANGED <<request, row, born, evidence, resource, stored, log>>

Go(r) ==
    \/ RegisterRead(r) \/ ApplyRead(r) \/ AutoRead(r) \/ Persist(r) \/ Select(r) \/ Lookup(r)
    \/ Write(r) \/ Refused(r) \/ Commit(r) \/ Unresolved(r) \/ Preview(r)

Next == \E r \in Request : Go(r) \/ Fail(r) \/ Damage(r)

Spec == Init /\ [][Next]_vars

-----------------------------------------------------------------------------
(* Properties.                                                             *)

(* Who is about to commit holds the lock, and its draft differs from the   *)
(* resource by its own operation alone: nothing was changed meanwhile.     *)
DraftsCurrent ==
    \A r \in Request :
       /\ pc[r] = "commit" => lock = r /\ draft = Written(r)
       /\ lock = r => pc[r] = "commit"

(* What a request holds of the registry, it holds rightly.                 *)
RequestsSound ==
    \A r \in Request :
       /\ point[r] # NoOne => point[r] \in stored /\ r \notin Registration
       /\ pc[r] = "read" => point[r] # NoOne
       /\ pc[r] \in {"write", "commit"} /\ Kind[r] = "apply" => point[r] # NoOne
       /\ pc[r] \in {"write", "commit"} => Kind[r] # "preview"
       /\ pc[r] \in {"select", "lookup", "read"} => Kind[r] = "event"
       /\ found[r] => ~Absent
       /\ pc[r] = "commit" => ~Absent \/ r \in Registration
       /\ r \in stored => r \in Registration /\ pc[r] = "done"

(* A resource is there as soon as it can be restored, and it is always in  *)
(* a state that somebody has registered.                                   *)
StateRegistered ==
    /\ Absent <=> stored = {}
    /\ ~Absent => resource.state \in stored

(* "Preserve quarantine evidence first": no event touches the resource, or *)
(* is on the way to, before it is stored with its capture.                 *)
EvidenceFirst ==
    \A r \in Request :
       Kind[r] = "event" /\ (pc[r] \in Steps \ {"new"} \/ point[r] # NoOne) => r \in evidence

(* The audit records tell how the resource came to be as it is: where the  *)
(* last registration put it, in the state last registered or restored, in  *)
(* the status the last operation on it gave it; and which points there are.*)
LastOf(ops, k) == log[k].op \in ops /\ \A j \in DOMAIN log : j > k => log[j].op \notin ops
StatusAfter == [register |-> "VERIFIED", restore |-> "VERIFIED",
                reject |-> "DEGRADED", quarantine |-> "QUARANTINED"]

AuditExplains ==
    /\ stored = {log[k].point : k \in {j \in DOMAIN log : log[j].op = "register"}}
    /\ ~Absent =>
          /\ \E k \in DOMAIN log :
                LastOf({"register"}, k) /\ resource.location = place[log[k].point]
          /\ \E k \in DOMAIN log :
                LastOf({"register", "restore"}, k) /\ resource.state = log[k].point
          /\ \E k \in DOMAIN log :
                LastOf(DOMAIN StatusAfter, k) /\ resource.status = StatusAfter[log[k].op]

RequestsIsolated == TypeOK /\ DraftsCurrent /\ RequestsSound /\ StateRegistered /\ EvidenceFirst
HealingInv == RequestsIsolated /\ AuditExplains

(* Registrations, restores, rejections and quarantines of one resource,    *)
(* all of which read it without a lock, take effect one after another and  *)
(* in the order of the audit chain; none writes back what it has read.     *)
Registry == INSTANCE RestoreRegistry WITH Point <- Registration
ImplementsRegistry == Registry!Spec

(* "restores state only to the resource's recorded logical location".      *)
RestoredInPlace ==
    [][log' # log /\ log'[Len(log')].op = "restore" =>
          place[log'[Len(log')].point] = resource'.location]_vars
=============================================================================
