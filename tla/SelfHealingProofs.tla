-------------------------- MODULE SelfHealingProofs --------------------------
(* Theorems about SelfHealing, for any requests and locations.  RequestsIsolated *)
(* is inductive: the row's lock keeps the draft of its holder up to date,  *)
(* so every commit is an operation on the resource as it is.               *)
EXTENDS SelfHealing, TLAPS

(* The row of a resource never looks like no row at all.                   *)
LEMMA RowIsThere == NoRow \notin Row
BY DEF NoRow, Row

(* Nothing has been registered yet.                                        *)
LEMMA HealingInitially == Init => RequestsIsolated
BY HealingAssumption, RowIsThere
DEF Init, RequestsIsolated, TypeOK, DraftsCurrent, RequestsSound, StateRegistered,
    EvidenceFirst, Steps, Absent, Registration

(* What a request makes of the resource is a row.                          *)
LEMMA WrittenIsRow ==
    ASSUME RequestsIsolated, NEW r \in Request, ~Absent \/ r \in Registration
    PROVE  Written(r) \in Row
BY HealingAssumption, RowIsThere
DEF RequestsIsolated, TypeOK, RequestsSound, Written, Registered, Applied, Absent, Row

(* Each action keeps RequestsIsolated.                                           *)
LEMMA HealingKept == ASSUME RequestsIsolated, [Next]_vars PROVE RequestsIsolated'
<1> USE HealingAssumption, RowIsThere
<1> USE DEF RequestsIsolated, TypeOK, DraftsCurrent, RequestsSound, StateRegistered,
            EvidenceFirst, Steps, Absent, Registration, Goto, row, request
<1>1. ASSUME NEW r \in Request, RegisterRead(r) PROVE RequestsIsolated'
  <2>1. TypeOK'
    BY <1>1 DEF RegisterRead
  <2>2. \A q \in Request : q # r => Written(q)' = Written(q)
    BY <1>1 DEF RegisterRead, Written, Registered, Applied
  <2> QED
    BY <1>1, <2>1, <2>2 DEF RegisterRead
<1>2. ASSUME NEW r \in Request, ApplyRead(r) PROVE RequestsIsolated'
  <2>1. TypeOK'
    BY <1>2 DEF ApplyRead, Verify
  <2>2. \A q \in Request : q # r => Written(q)' = Written(q)
    <3>1. /\ \A q \in Request : q # r => point'[q] = point[q] /\ verified'[q] = verified[q]
          /\ place' = place /\ resource' = resource
      BY <1>2 DEF ApplyRead, Verify
    <3> QED
      BY <3>1 DEF Written, Registered, Applied
  <2> QED
    BY <1>2, <2>1, <2>2 DEF ApplyRead, Verify
<1>3. ASSUME NEW r \in Request, AutoRead(r) PROVE RequestsIsolated'
  <2>1. TypeOK'
    BY <1>3 DEF AutoRead, Verify
  <2>2. \A q \in Request : q # r => Written(q)' = Written(q)
    <3>1. /\ \A q \in Request : q # r => point'[q] = point[q] /\ verified'[q] = verified[q]
          /\ place' = place /\ resource' = resource
      BY <1>3 DEF AutoRead, Verify
    <3> QED
      BY <3>1 DEF Written, Registered, Applied
  <2> QED
    BY <1>3, <2>1, <2>2 DEF AutoRead, Verify
<1>4. ASSUME NEW r \in Request, Persist(r) PROVE RequestsIsolated'
  BY <1>4 DEF Persist, Written, Registered, Applied
<1>5. ASSUME NEW r \in Request, Select(r) PROVE RequestsIsolated'
  <2>1. TypeOK'
    <3>1. \/ point' = point /\ pc' = [pc EXCEPT ![r] = "lookup"]
          \/ \E p \in stored : /\ point' = [point EXCEPT ![r] = p]
                               /\ pc' = [pc EXCEPT ![r] = "read"]
      BY <1>5 DEF Select
    <3>2. pc' \in [Request -> Steps \cup {"done"}]
      BY <3>1
    <3>3. point' \in [Request -> Registration \cup {NoOne}]
      BY <3>1
    <3>4. UNCHANGED <<place, found, verified, row, born, damaged, evidence, resource, stored, log>>
      BY <1>5 DEF Select
    <3> QED
      BY <3>2, <3>3, <3>4
  <2>2. \A q \in Request : q # r => Written(q)' = Written(q)
    <3>1. /\ \A q \in Request : q # r => point'[q] = point[q]
          /\ place' = place /\ resource' = resource /\ verified' = verified
      BY <1>5 DEF Select
    <3> QED
      BY <3>1 DEF Written, Registered, Applied
  <2>3. DraftsCurrent' /\ StateRegistered' /\ EvidenceFirst'
    BY <1>5, <2>1, <2>2 DEF Select
  <2>4. RequestsSound'
    <3>1. CASE stored = {} /\ pc' = [pc EXCEPT ![r] = "lookup"] /\ point' = point
      BY <1>5, <3>1 DEF Select
    <3>2. ASSUME NEW p \in stored, point' = [point EXCEPT ![r] = p], pc' = [pc EXCEPT ![r] = "read"]
          PROVE  RequestsSound'
      BY <1>5, <3>2 DEF Select
    <3> QED
      BY <1>5, <3>1, <3>2 DEF Select
  <2> HIDE DEF TypeOK, DraftsCurrent, RequestsSound, StateRegistered, EvidenceFirst
  <2> QED
    BY <2>1, <2>3, <2>4
<1>6. ASSUME NEW r \in Request, Lookup(r) PROVE RequestsIsolated'
  <2>1. \A q \in Request : Written(q)' = Written(q)
    BY <1>6 DEF Lookup, Written, Registered, Applied
  <2>2. TypeOK' /\ DraftsCurrent'
    BY <1>6, <2>1 DEF Lookup
  <2>3. RequestsSound' /\ StateRegistered' /\ EvidenceFirst'
    BY <1>6 DEF Lookup
  <2> HIDE DEF TypeOK, DraftsCurrent, RequestsSound, StateRegistered, EvidenceFirst
  <2> QED
    BY <2>2, <2>3
<1>7. ASSUME NEW r \in Request, Write(r) PROVE RequestsIsolated'
  <2>1. Written(r) \in Row
    BY <1>7, WrittenIsRow DEF Write, Writes
  <2>2. \A q \in Request : Written(q)' = Written(q)
    BY <1>7 DEF Write, Written, Registered, Applied
  <2>3. TypeOK' /\ DraftsCurrent'
    BY <1>7, <2>1, <2>2 DEF Write, Writes
  <2>4. RequestsSound' /\ StateRegistered' /\ EvidenceFirst'
    BY <1>7, <2>1 DEF Write, Writes
  <2> HIDE DEF TypeOK, DraftsCurrent, RequestsSound, StateRegistered, EvidenceFirst
  <2> QED
    BY <2>3, <2>4
<1>8. ASSUME NEW r \in Request, Refused(r) PROVE RequestsIsolated'
  <2>1. \A q \in Request : Written(q)' = Written(q)
    BY <1>8 DEF Refused, Written, Registered, Applied
  <2>2. TypeOK' /\ DraftsCurrent'
    BY <1>8, <2>1 DEF Refused
  <2>3. RequestsSound' /\ StateRegistered' /\ EvidenceFirst'
    BY <1>8 DEF Refused
  <2> HIDE DEF TypeOK, DraftsCurrent, RequestsSound, StateRegistered, EvidenceFirst
  <2> QED
    BY <2>2, <2>3
<1>9. ASSUME NEW r \in Request, Commit(r) PROVE RequestsIsolated'
  <2>1. draft = Written(r) /\ Written(r) \in Row
    BY <1>9, WrittenIsRow DEF Commit
  <2>2. [op |-> Operation(r), point |-> IF r \in Registration THEN r ELSE point[r]]
           \in [op : Operations, point : Registration \cup {NoOne}]
    BY DEF Operation, Operations
  <2>3. TypeOK'
    BY <1>9, <2>1, <2>2 DEF Commit, Audit
  <2>4. resource' # NoRow /\ resource'.state \in stored'
    BY <1>9, <2>1 DEF Commit, Written, Registered, Applied, Row
  <2>5. \A q \in Request : pc'[q] # "commit"
    BY <1>9 DEF Commit
  <2> QED
    BY <1>9, <2>3, <2>4, <2>5 DEF Commit
<1>10. ASSUME NEW r \in Request, Unresolved(r) PROVE RequestsIsolated'
  <2>1. TypeOK'
    BY <1>10 DEF Unresolved, Audit, Operations
  <2>2. \A q \in Request : q # r => Written(q)' = Written(q)
    BY <1>10 DEF Unresolved, Audit, Operations, Written, Registered, Applied
  <2> QED
    BY <1>10, <2>1, <2>2 DEF Unresolved, Audit, Operations
<1>11. ASSUME NEW r \in Request, Preview(r) PROVE RequestsIsolated'
  <2>1. TypeOK'
    BY <1>11 DEF Preview, Audit, Operations
  <2>2. \A q \in Request : q # r => Written(q)' = Written(q)
    BY <1>11 DEF Preview, Audit, Operations, Written, Registered, Applied
  <2>3. DraftsCurrent'
    BY <1>11, <2>2 DEF Preview, Audit
  <2>4. RequestsSound' /\ StateRegistered' /\ EvidenceFirst'
    BY <1>11 DEF Preview, Audit
  <2> HIDE DEF TypeOK, DraftsCurrent, RequestsSound, StateRegistered, EvidenceFirst
  <2> QED
    BY <2>1, <2>3, <2>4
<1>12. ASSUME NEW r \in Request, Fail(r) PROVE RequestsIsolated'
  BY <1>12 DEF Fail, Written, Registered, Applied
<1>13. ASSUME NEW p \in Request, Damage(p) PROVE RequestsIsolated'
  <2>1. \A q \in Request : Written(q)' = Written(q)
    BY <1>13 DEF Damage, Written, Registered, Applied
  <2>2. TypeOK' /\ DraftsCurrent'
    BY <1>13, <2>1 DEF Damage
  <2>3. RequestsSound' /\ StateRegistered' /\ EvidenceFirst'
    BY <1>13 DEF Damage
  <2> HIDE DEF TypeOK, DraftsCurrent, RequestsSound, StateRegistered, EvidenceFirst
  <2> QED
    BY <2>2, <2>3
<1>14. CASE UNCHANGED vars
  BY <1>14 DEF vars, Written, Registered, Applied
<1> QED
  BY <1>1, <1>2, <1>3, <1>4, <1>5, <1>6, <1>7, <1>8, <1>9, <1>10, <1>11, <1>12, <1>13, <1>14
  DEF Next, Go

(* Every commit is an operation of the registry on the resource as it is.  *)
LEMMA CommitsImplement ==
    ASSUME RequestsIsolated, NEW r \in Request, Commit(r)
    PROVE  Registry!Next
<1> USE HealingAssumption, RowIsThere
<1> USE DEF RequestsIsolated, TypeOK, DraftsCurrent, RequestsSound, StateRegistered, Commit, Audit,
            Operation, Absent, Registry!Absent, Registry!Recorded, NoRow
<1>1. draft = Written(r)
  OBVIOUS
<1>2. CASE r \in Registration
  <2>1. Registry!Register(r, place[r])
    BY <1>1, <1>2 DEF Registry!Register, Written, Registered
  <2> QED
    BY <2>1, <1>2 DEF Registry!Next
<1>3. CASE r \notin Registration /\ point[r] = NoOne
  <2>1. Registry!Quarantine
    BY <1>1, <1>3 DEF Registry!Quarantine, Written
  <2> QED
    BY <2>1 DEF Registry!Next
<1>4. CASE r \notin Registration /\ point[r] # NoOne
  <2>1. point[r] \in Registration /\ point[r] \in stored
    BY <1>4
  <2>2. CASE verified[r]
    <3>1. Registry!Restore(point[r])
      BY <1>1, <1>4, <2>1, <2>2 DEF Registry!Restore, Written, Applied
    <3> QED
      BY <3>1, <2>1 DEF Registry!Next
  <2>3. CASE ~verified[r]
    <3>1. Registry!Reject(point[r])
      BY <1>1, <1>4, <2>1, <2>3 DEF Registry!Reject, Written, Applied
    <3> QED
      BY <3>1, <2>1 DEF Registry!Next
  <2> QED
    BY <2>2, <2>3
<1> QED
  BY <1>2, <1>3, <1>4

(* Every step is one of the registry, or leaves it alone.                  *)
LEMMA StepsOfRegistry ==
    ASSUME RequestsIsolated, [Next]_vars
    PROVE  Registry!Next \/ UNCHANGED <<resource, stored, log>>
<1>1. ASSUME NEW r \in Request, Commit(r) PROVE Registry!Next
  BY <1>1, CommitsImplement
<1>2. ASSUME NEW r \in Request, Unresolved(r) \/ Preview(r) PROVE Registry!Next
  BY <1>2 DEF Unresolved, Preview, Audit, Registry!Next, Registry!Note, Registry!Recorded
<1>3. ASSUME NEW r \in Request,
             \/ RegisterRead(r) \/ ApplyRead(r) \/ AutoRead(r) \/ Persist(r) \/ Select(r) \/ Lookup(r)
             \/ Write(r) \/ Refused(r) \/ Fail(r) \/ Damage(r)
      PROVE  UNCHANGED <<resource, stored, log>>
  BY <1>3 DEF RegisterRead, ApplyRead, AutoRead, Persist, Select, Lookup, Write, Refused, Fail, Damage
<1>4. CASE UNCHANGED vars
  BY <1>4 DEF vars
<1> QED
  BY <1>1, <1>2, <1>3, <1>4 DEF Next, Go

(* Where the last operation of a kind is after a record is appended.       *)
LEMMA LastAfterAppend ==
    ASSUME NEW e, log' = Append(log, e), TypeOK, NEW ops,
           NEW n \in Nat, n = Len(log) + 1
    PROVE  /\ e.op \in ops => LastOf(ops, n)'
           /\ e.op \notin ops => \A k \in DOMAIN log : LastOf(ops, k) => LastOf(ops, k)'
           /\ \A k \in DOMAIN log : k \in DOMAIN log' /\ log'[k] = log[k]
           /\ n \in DOMAIN log' /\ log'[n] = e
           /\ \A k \in DOMAIN log' : k \in DOMAIN log \/ k = n
<1>1. Len(log) \in Nat /\ DOMAIN log = 1 .. Len(log) /\ DOMAIN log' = 1 .. Len(log) + 1
  BY DEF TypeOK
<1>2. \A k \in 1 .. Len(log) : log'[k] = log[k]
  BY <1>1 DEF TypeOK
<1>3. log'[Len(log) + 1] = e
  BY <1>1 DEF TypeOK
<1>4. ASSUME e.op \in ops PROVE LastOf(ops, n)'
  BY <1>1, <1>3, <1>4 DEF LastOf
<1>5. ASSUME e.op \notin ops, NEW k \in DOMAIN log, LastOf(ops, k) PROVE LastOf(ops, k)'
  BY <1>1, <1>2, <1>3, <1>5 DEF LastOf
<1> QED
  BY <1>1, <1>2, <1>3, <1>4, <1>5

(* The points registered so far, after a record is appended.               *)
LEMMA PointsAfterAppend ==
    ASSUME NEW o, NEW p, log' = Append(log, [op |-> o, point |-> p]), TypeOK
    PROVE  {log[k].point : k \in {j \in DOMAIN log : log[j].op = "register"}}' =
           {log[k].point : k \in {j \in DOMAIN log : log[j].op = "register"}}
              \cup (IF o = "register" THEN {p} ELSE {})
<1> DEFINE e == [op |-> o, point |-> p]
<1>0. PICK n \in Nat : n = Len(log) + 1
  BY DEF TypeOK
<1>1. /\ \A k \in DOMAIN log : k \in DOMAIN log' /\ log'[k] = log[k]
      /\ n \in DOMAIN log' /\ log'[n] = e
      /\ \A k \in DOMAIN log' : k \in DOMAIN log \/ k = n
  BY <1>0, LastAfterAppend
<1> QED
  BY <1>1

(* A record of a preview, or about no resource, explains nothing new.      *)
LEMMA NotedKept ==
    ASSUME TypeOK, AuditExplains, UNCHANGED <<resource, stored, place>>,
           NEW o \in {"preview", "unresolved"}, NEW p, log' = Append(log, [op |-> o, point |-> p])
    PROVE  AuditExplains'
<1> DEFINE e == [op |-> o, point |-> p]
<1>0. PICK n \in Nat : n = Len(log) + 1
  BY DEF TypeOK
<1>1. \A k \in DOMAIN log : k \in DOMAIN log' /\ log'[k] = log[k]
  BY <1>0, LastAfterAppend
<1>2. \A ops : e.op \notin ops => \A k \in DOMAIN log : LastOf(ops, k) => LastOf(ops, k)'
  BY <1>0, LastAfterAppend
<1>3. e.op \notin {"register"} /\ e.op \notin {"register", "restore"} /\ e.op \notin DOMAIN StatusAfter
  BY DEF StatusAfter
<1>4. AuditExplains!1'
  BY PointsAfterAppend DEF AuditExplains
<1> HIDE DEF e
<1> QED
  BY <1>1, <1>2, <1>3, <1>4 DEF AuditExplains, Absent

(* A commit is explained by its own record.                                *)
LEMMA CommitExplained ==
    ASSUME RequestsIsolated, AuditExplains, NEW r \in Request, Commit(r)
    PROVE  AuditExplains'
<1> DEFINE p == IF r \in Registration THEN r ELSE point[r]
           e == [op |-> Operation(r), point |-> p]
<1>0. PICK n \in Nat : n = Len(log) + 1 /\ TypeOK
  BY DEF RequestsIsolated, TypeOK
<1>1. log' = Append(log, e) /\ place' = place
  BY DEF Commit, Audit
<1>2. /\ \A k \in DOMAIN log : k \in DOMAIN log' /\ log'[k] = log[k]
      /\ n \in DOMAIN log' /\ log'[n] = e
  BY <1>0, <1>1, LastAfterAppend
<1>3. \A ops : /\ e.op \in ops => LastOf(ops, n)'
               /\ e.op \notin ops => \A k \in DOMAIN log : LastOf(ops, k) => LastOf(ops, k)'
  <2> HIDE DEF e
  <2> QED
    BY <1>0, <1>1, LastAfterAppend
<1>4. resource' = Written(r)
  BY DEF RequestsIsolated, DraftsCurrent, Commit
<1>5. AuditExplains!1'
  BY <1>0, <1>1, PointsAfterAppend DEF AuditExplains, Commit, Operation
<1>6. DOMAIN StatusAfter = {"register", "restore", "reject", "quarantine"}
  BY DEF StatusAfter
<1>7. CASE r \in Registration
  <2>1. e = [op |-> "register", point |-> r]
    BY <1>7 DEF Operation
  <2>2. resource' = [location |-> place[r], state |-> r, status |-> "VERIFIED"]
    BY <1>4, <1>7 DEF Written, Registered
  <2>3. LastOf({"register"}, n)' /\ LastOf({"register", "restore"}, n)' /\ LastOf(DOMAIN StatusAfter, n)'
    BY <1>3, <1>6, <2>1
  <2>4. log'[n].point = r /\ log'[n].op = "register" /\ StatusAfter["register"] = "VERIFIED"
    BY <1>2, <2>1 DEF StatusAfter
  <2>5. /\ resource'.location = place'[log'[n].point] /\ resource'.state = log'[n].point
        /\ resource'.status = StatusAfter[log'[n].op]
    BY <1>1, <2>2, <2>4
  <2> HIDE DEF e
  <2> QED
    BY <1>2, <1>5, <2>3, <2>5 DEF AuditExplains
<1>8. CASE r \notin Registration
  <2>1. ~Absent /\ resource \in Row
    BY <1>8, RowIsThere DEF RequestsIsolated, TypeOK, RequestsSound, Commit, Absent
  <2>2. \E k \in DOMAIN log : LastOf({"register"}, k) /\ resource.location = place[log[k].point]
    BY <2>1 DEF AuditExplains
  <2>3. \E k \in DOMAIN log : LastOf({"register", "restore"}, k) /\ resource.state = log[k].point
    BY <2>1 DEF AuditExplains
  <2>4. /\ resource'.location = resource.location
        /\ e.op = "restore" => resource'.state = e.point
        /\ e.op # "restore" => resource'.state = resource.state
        /\ e.op \in {"restore", "reject", "quarantine"} /\ resource'.status = StatusAfter[e.op]
    BY <1>4, <1>8, <2>1 DEF Written, Applied, Operation, Row, StatusAfter
  <2> HIDE DEF e
  <2>5. \E k \in DOMAIN log' : LastOf({"register"}, k)' /\ resource'.location = place[log'[k].point]
    BY <1>2, <1>3, <2>2, <2>4
  <2>6. \E k \in DOMAIN log' : LastOf({"register", "restore"}, k)' /\ resource'.state = log'[k].point
    <3>1. CASE e.op = "restore"
      <4>1. LastOf({"register", "restore"}, n)' /\ resource'.state = log'[n].point
        BY <1>2, <1>3, <2>4, <3>1
      <4> QED
        BY <1>2, <4>1
    <3>2. CASE e.op # "restore"
      BY <1>2, <1>3, <2>3, <2>4, <3>2
    <3> QED
      BY <3>1, <3>2
  <2>7. \E k \in DOMAIN log' : LastOf(DOMAIN StatusAfter, k)' /\ resource'.status = StatusAfter[log'[k].op]
    <3>1. LastOf(DOMAIN StatusAfter, n)' /\ resource'.status = StatusAfter[log'[n].op]
      BY <1>2, <1>3, <1>6, <2>4
    <3> QED
      BY <1>2, <3>1
  <2> QED
    BY <1>1, <1>5, <2>5, <2>6, <2>7 DEF AuditExplains, StatusAfter
<1> QED
  BY <1>7, <1>8

(* The audit records go on explaining the resource.                        *)
LEMMA ExplanationKept ==
    ASSUME RequestsIsolated, AuditExplains, [Next]_vars
    PROVE  AuditExplains'
<1>1. ASSUME NEW r \in Request, Commit(r) PROVE AuditExplains'
  BY <1>1, CommitExplained
<1>2. ASSUME NEW r \in Request, Unresolved(r) PROVE AuditExplains'
  BY <1>2, NotedKept DEF Unresolved, Audit, RequestsIsolated
<1>3. ASSUME NEW r \in Request, Preview(r) PROVE AuditExplains'
  BY <1>3, NotedKept DEF Preview, Audit, RequestsIsolated
<1>4. CASE UNCHANGED <<place, resource, stored, log>>
  BY <1>4 DEF AuditExplains, LastOf, Absent
<1>5. ASSUME NEW r \in Request,
             \/ RegisterRead(r) \/ ApplyRead(r) \/ AutoRead(r) \/ Persist(r) \/ Select(r) \/ Lookup(r)
             \/ Write(r) \/ Refused(r) \/ Fail(r) \/ Damage(r)
      PROVE  UNCHANGED <<place, resource, stored, log>>
  BY <1>5 DEF RegisterRead, ApplyRead, AutoRead, Verify, Persist, Select, Lookup, Write, Refused,
              Fail, Damage, request
<1>6. CASE UNCHANGED vars
  BY <1>4, <1>6 DEF vars, request
<1> QED
  BY <1>1, <1>2, <1>3, <1>4, <1>5, <1>6 DEF Next, Go

(* The registry is sound at any time, and its audit records tell why the   *)
(* resource is as it is.                                                   *)
THEOREM HealingInvariant == Spec => []HealingInv
<1>1. Init => HealingInv
  BY HealingInitially DEF HealingInv, AuditExplains, Init, Absent
<1>2. HealingInv /\ [Next]_vars => HealingInv'
  BY HealingKept, ExplanationKept DEF HealingInv
<1> QED
  BY <1>1, <1>2, PTL DEF Spec

(* The self-healing registry implements RestoreRegistry.                   *)
THEOREM HealingImplementsRegistry == Spec => ImplementsRegistry
<1>1. Init => Registry!Init
  BY DEF Init, Registry!Init, Registry!Absent, NoRow
<1>2. HealingInv /\ [Next]_vars => [Registry!Next]_<<resource, stored, log>>
  BY StepsOfRegistry DEF HealingInv
<1> QED
  BY <1>1, <1>2, HealingInvariant, PTL DEF Spec, ImplementsRegistry, Registry!Spec

(* Nothing is taken out of the registry: restore points stay, and the      *)
(* audit records are only added to.                                        *)
RegistryStays ==
    [][stored \subseteq stored' /\ (log' = log \/ \E e : log' = Append(log, e))]_vars

(* No failure, damage or race loses a restore point or rewrites a record.  *)
THEOREM RegistryOnlyGrows == Spec => RegistryStays
<1>1. ASSUME HealingInv, [Next]_vars
      PROVE  stored \subseteq stored' /\ (log' = log \/ \E e : log' = Append(log, e))
  <2>1. CASE Registry!Next
    BY <2>1 DEF Registry!Next, Registry!Register, Registry!Restore, Registry!Reject,
                Registry!Quarantine, Registry!Note, Registry!Recorded
  <2> QED
    BY <1>1, <2>1, StepsOfRegistry DEF HealingInv
<1> QED
  BY <1>1, HealingInvariant, PTL DEF Spec, RegistryStays
=============================================================================
