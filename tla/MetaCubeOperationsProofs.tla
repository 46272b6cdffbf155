---------------------- MODULE MetaCubeOperationsProofs ----------------------
(* Theorems about MetaCubeOperations, for any executions, keys and         *)
(* clients.  OperationsInv is inductive with the PostgreSQL store: the lock*)
(* of the execution keeps calls for it apart, so whoever finds its key     *)
(* taken at the insert finds it taken by a call for another execution and  *)
(* rolls its transition back; hence one durable transition for each claimed*)
(* key.  FileInv is what the one lock of the state file keeps instead.     *)
EXTENDS MetaCubeOperations, TLAPS

(* Nothing has happened yet.                                               *)
LEMMA OperationsInitially == Init => OperationsInv
BY OperationsAssumption
DEF Init, OperationsInv, TypeOK, Status, Call, Stage, Claim, Op, CountedByKey,
    LocksExclude, Holds, KeysChecked, KeysReserved, StillPermitted, At, RepliesAgree

(* Each action keeps OperationsInv, in the PostgreSQL store.               *)
LEMMA OperationsKept ==
    ASSUME Store = "postgres", OperationsInv, [Next]_vars
    PROVE  OperationsInv'
<1> USE OperationsAssumption
<1> USE DEF OperationsInv, TypeOK, CountedByKey, LocksExclude, KeysChecked,
            KeysReserved, StillPermitted, RepliesAgree, Holds, At, Permitted, Mine,
            Status, Call, Claim, Op, Stage
<1>1. ASSUME NEW c \in Client, NEW e \in Exec, NEW op \in Op, NEW k \in Key,
             Request(c, e, op, k)
      PROVE  OperationsInv'
  BY <1>1 DEF Request
<1>2. ASSUME NEW c \in Client, Lock(c) PROVE OperationsInv'
  BY <1>2 DEF Lock, GoTo, Unlocked, LockOf
<1>3. ASSUME NEW c \in Client, CheckKey(c) PROVE OperationsInv'
  <2>1. CASE claimed[call[c].key] = NoClaim
    <3>1. /\ At(c, "check") /\ claimed[call[c].key] = NoClaim
          /\ call' = [call EXCEPT ![c].stage = "write"]
          /\ UNCHANGED <<status, saved, claimed, answer, applied>>
      BY <1>3, <2>1 DEF CheckKey, GoTo
    <3> QED
      BY <3>1
  <2>2. CASE claimed[call[c].key] # NoClaim
    <3> DEFINE r == claimed[call[c].key]
    <3>1. PICK a \in {r, NoClaim} :
             /\ a = IF Mine(c, r) THEN r ELSE NoClaim
             /\ call' = [call EXCEPT ![c].stage = "idle"]
             /\ answer' = [answer EXCEPT ![c] = a]
             /\ UNCHANGED <<status, saved, claimed, applied>>
      BY <1>3, <2>2 DEF CheckKey, Tell, GoTo
    <3>2. r \in Claim
      BY <2>2
    <3> QED
      BY <2>2, <3>1, <3>2
  <2> QED BY <2>1, <2>2
<1>4. ASSUME NEW c \in Client, Transition(c) PROVE OperationsInv'
  BY <1>4 DEF Transition, GoTo
<1>5. ASSUME NEW c \in Client, Refuse(c) PROVE OperationsInv'
  BY <1>5 DEF Refuse, GoTo, Tell
<1>6. ASSUME NEW c \in Client, InsertKey(c) PROVE OperationsInv'
  BY <1>6 DEF InsertKey, GoTo
<1>7. ASSUME NEW c \in Client, LoseKey(c) PROVE OperationsInv'
  <2>1. /\ call' = [call EXCEPT ![c].stage = "idle"]
        /\ answer' = [answer EXCEPT ![c] = NoClaim]
        /\ UNCHANGED <<status, saved, claimed, applied>>
    BY <1>7 DEF LoseKey, GoTo, Tell
  <2> QED
    BY <2>1
<1>8. ASSUME NEW c \in Client, Commit(c) PROVE OperationsInv'
  <2> DEFINE k == call[c].key
             r == [exec |-> call[c].exec, op |-> call[c].op, by |-> c]
  <2>1. /\ At(c, "commit") /\ c \in Client
        /\ call' = [call EXCEPT ![c].stage = "idle"]
        /\ answer' = [answer EXCEPT ![c] = r]
        /\ claimed' = [claimed EXCEPT ![k] = r]
        /\ status' = [status EXCEPT ![call[c].exec] = Target(call[c].op)]
        /\ applied' = [applied EXCEPT ![k] = @ + 1]
        /\ UNCHANGED saved
    BY <1>8 DEF Commit, GoTo, Tell, Moved, Counted
  <2>2. r \in Claim /\ k \in Key /\ call[c].exec \in Exec /\ r # NoClaim
    BY <2>1
  <2>3. Target(call[c].op) \in Status
    BY DEF Target
  <2>4. TypeOK'
    BY <2>1, <2>2, <2>3
  <2>5. CountedByKey'
    BY <2>1, <2>2
  <2>6. LocksExclude'
    BY <2>1
  <2>7. KeysChecked'
    BY <2>1, <2>2
  <2>8. KeysReserved'
    BY <2>1, <2>2
  <2>9. StillPermitted'
    <3> SUFFICES ASSUME NEW d \in Client, call'[d].stage \in {"claim", "commit"}
                 PROVE  Permitted(d)'
      OBVIOUS
    <3>1. d # c /\ call'[d] = call[d]
      BY <2>1
    <3>2. call[d].exec # call[c].exec
      BY <2>1, <3>1
    <3>3. status'[call[d].exec] = status[call[d].exec]
      BY <2>1, <3>2
    <3> QED BY <2>1, <3>1, <3>3
  <2>10. RepliesAgree'
    BY <2>1, <2>2
  <2> QED BY <2>4, <2>5, <2>6, <2>7, <2>8, <2>9, <2>10
<1>9. ASSUME NEW c \in Client, Crash(c) PROVE OperationsInv'
  BY <1>9 DEF Crash, GoTo
<1>10. ASSUME NEW e \in Exec, Accept(e) PROVE OperationsInv'
  BY <1>10 DEF Accept
<1>11. ASSUME NEW e \in Exec, Run(e) PROVE OperationsInv'
  <2>1. PICK to \in {"created", "completed", "dead_letter"} :
           status' = [status EXCEPT ![e] = to]
    BY <1>11 DEF Run
  <2>2. /\ saved' \in {saved, [saved EXCEPT ![e] = TRUE]}
        /\ UNCHANGED <<claimed, call, answer, applied>>
        /\ \A c \in Client : Holds(c) => call[c].exec # e
    BY <1>11 DEF Run, Unlocked, LockOf
  <2>3. StillPermitted'
    BY <2>1, <2>2
  <2>4. status' \in [Exec -> Status]
    <3>1. status \in [Exec -> Status] /\ to \in Status
      OBVIOUS
    <3> QED
      BY <2>1, <3>1
  <2>5. TypeOK'
    <3>1. CASE saved' = saved
      BY <2>2, <2>4, <3>1
    <3>2. CASE saved' = [saved EXCEPT ![e] = TRUE]
      BY <2>2, <2>4, <3>2
    <3> QED
      BY <2>2, <3>1, <3>2
  <2> QED BY <2>2, <2>3, <2>5
<1>12. CASE UNCHANGED vars
  BY <1>12 DEF vars
<1> HIDE DEF OperationsInv
<1> QED
  BY <1>1, <1>2, <1>3, <1>4, <1>5, <1>6, <1>7, <1>8, <1>9, <1>10, <1>11, <1>12
  DEF Next, Proceed

-----------------------------------------------------------------------------
(* Types, and the invariant the other theorems rest on: locks exclude, a   *)
(* key that is taken at the insert was taken by a call for another         *)
(* execution, and transitions are counted by the rows of the key table.    *)
THEOREM OperationsInvariant ==
    ASSUME Store = "postgres"
    PROVE  Spec => []OperationsInv
<1>1. OperationsInv /\ [Next]_vars => OperationsInv'
  BY OperationsKept
<1> QED
  BY <1>1, OperationsInitially, PTL DEF Spec

-----------------------------------------------------------------------------
(* The state file.  A call has everything to itself from the check of its  *)
(* key on, so the key is still free when it writes; and unless somebody    *)
(* crashes, what is counted has claimed its key or is about to.            *)
Working(c) == call[c].stage \in {"write", "claim", "commit"}

OneAtATime == \A c, d \in Client : Holds(c) /\ Holds(d) => c = d
KeysFree == \A c \in Client : Working(c) => claimed[call[c].key] = NoClaim

CountedByCall ==
    \A k \in Key : \/ applied[k] = 0
                   \/ /\ applied[k] = 1
                      /\ \/ claimed[k] # NoClaim
                         \/ \E c \in Client : call[c].stage \in {"claim", "commit"} /\ call[c].key = k

FileInv ==
    /\ TypeOK /\ OneAtATime /\ KeysFree /\ RepliesAgree
    /\ Crashes \/ CountedByCall

LEMMA FileInitially == Init => FileInv
BY OperationsAssumption
DEF Init, FileInv, TypeOK, Status, Call, Stage, Claim, Op, OneAtATime, Holds, KeysFree, Working,
    CountedByCall, RepliesAgree

(* Each action keeps FileInv, in the state file.                           *)
LEMMA FileKept ==
    ASSUME Store = "file", FileInv, [Next]_vars
    PROVE  FileInv'
<1> USE OperationsAssumption
<1> USE DEF FileInv, TypeOK, OneAtATime, KeysFree, Working, CountedByCall, RepliesAgree, Holds, At,
            Mine, Status, Call, Claim, Op, Stage
<1>1. ASSUME NEW c \in Client, NEW e \in Exec, NEW op \in Op, NEW k \in Key,
             Request(c, e, op, k)
      PROVE  FileInv'
  BY <1>1 DEF Request
<1>2. ASSUME NEW c \in Client, Lock(c) PROVE FileInv'
  BY <1>2 DEF Lock, GoTo, Unlocked, LockOf
<1>3. ASSUME NEW c \in Client, CheckKey(c) PROVE FileInv'
  <2>1. CASE claimed[call[c].key] = NoClaim
    <3>1. /\ At(c, "check") /\ claimed[call[c].key] = NoClaim
          /\ call' = [call EXCEPT ![c].stage = "write"]
          /\ UNCHANGED <<status, saved, claimed, answer, applied>>
      BY <1>3, <2>1 DEF CheckKey, GoTo
    <3> QED
      BY <3>1
  <2>2. CASE claimed[call[c].key] # NoClaim
    <3> DEFINE r == claimed[call[c].key]
    <3>1. PICK a \in {r, NoClaim} :
             /\ a = IF Mine(c, r) THEN r ELSE NoClaim
             /\ call' = [call EXCEPT ![c].stage = "idle"]
             /\ answer' = [answer EXCEPT ![c] = a]
             /\ UNCHANGED <<status, saved, claimed, applied>>
             /\ At(c, "check")
      BY <1>3, <2>2 DEF CheckKey, Tell, GoTo
    <3>2. r \in Claim
      BY <2>2
    <3> QED
      BY <2>2, <3>1, <3>2
  <2> QED BY <2>1, <2>2
<1>4. ASSUME NEW c \in Client, Transition(c) PROVE FileInv'
  <2>1. /\ call[c].stage = "write" /\ call' = [call EXCEPT ![c].stage = "claim"]
        /\ status' = [status EXCEPT ![call[c].exec] = Target(call[c].op)]
        /\ applied' = [applied EXCEPT ![call[c].key] = @ + 1]
        /\ UNCHANGED <<saved, claimed, answer>>
    BY <1>4 DEF Transition, GoTo, Moved, Counted
  <2>2. Target(call[c].op) \in Status
    BY DEF Target
  <2>3. TypeOK' /\ OneAtATime' /\ KeysFree' /\ RepliesAgree'
    BY <2>1, <2>2
  <2>4. Crashes \/ CountedByCall'
    <3> SUFFICES ASSUME ~Crashes PROVE CountedByCall'
      OBVIOUS
    <3>1. \A d \in Client : call[d].stage \in {"claim", "commit"} => d = c
      BY <2>1
    <3>2. applied[call[c].key] = 0
      BY <2>1, <3>1
    <3> QED
      BY <2>1, <3>2
  <2> QED
    BY <2>3, <2>4
<1>5. ASSUME NEW c \in Client, Refuse(c) PROVE FileInv'
  BY <1>5 DEF Refuse, GoTo, Tell
<1>6. ASSUME NEW c \in Client, InsertKey(c) PROVE FileInv'
  BY <1>6 DEF InsertKey, GoTo
<1>7. ASSUME NEW c \in Client, LoseKey(c) PROVE FALSE
  BY <1>7 DEF LoseKey
<1>8. ASSUME NEW c \in Client, Commit(c) PROVE FileInv'
  <2> DEFINE k == call[c].key
             r == [exec |-> call[c].exec, op |-> call[c].op, by |-> c]
  <2>1. /\ call[c].stage = "commit" /\ call' = [call EXCEPT ![c].stage = "idle"]
        /\ answer' = [answer EXCEPT ![c] = r] /\ claimed' = [claimed EXCEPT ![k] = r]
        /\ UNCHANGED <<status, saved, applied>>
    BY <1>8 DEF Commit, GoTo, Tell
  <2>2. r \in Claim /\ k \in Key /\ r # NoClaim /\ claimed[k] = NoClaim
    BY <2>1
  <2>3. \A d \in Client : Holds(d) => d = c
    BY <2>1
  <2>4. TypeOK' /\ OneAtATime' /\ KeysFree'
    BY <2>1, <2>2, <2>3
  <2>5. RepliesAgree'
    BY <2>1, <2>2
  <2>6. Crashes \/ CountedByCall'
    BY <2>1, <2>2, <2>3
  <2> QED
    BY <2>4, <2>5, <2>6
<1>9. ASSUME NEW c \in Client, Crash(c) PROVE FileInv'
  BY <1>9 DEF Crash, GoTo
<1>10. ASSUME NEW e \in Exec, Accept(e) PROVE FileInv'
  BY <1>10 DEF Accept
<1>11. ASSUME NEW e \in Exec, Run(e) PROVE FileInv'
  <2>1. PICK to \in {"created", "completed", "dead_letter"} : status' = [status EXCEPT ![e] = to]
    BY <1>11 DEF Run
  <2>2. /\ saved' \in {saved, [saved EXCEPT ![e] = TRUE]}
        /\ UNCHANGED <<claimed, call, answer, applied>>
    BY <1>11 DEF Run
  <2>3. status' \in [Exec -> Status]
    BY <2>1
  <2>4. saved' \in [Exec -> BOOLEAN]
    <3>1. CASE saved' = saved
      BY <3>1
    <3>2. CASE saved' = [saved EXCEPT ![e] = TRUE]
      BY <3>2
    <3> QED
      BY <2>2, <3>1, <3>2
  <2> QED
    BY <2>2, <2>3, <2>4
<1>12. CASE UNCHANGED vars
  BY <1>12 DEF vars
<1> HIDE DEF FileInv
<1> QED
  BY <1>1, <1>2, <1>3, <1>4, <1>5, <1>6, <1>7, <1>8, <1>9, <1>10, <1>11, <1>12
  DEF Next, Proceed

LEMMA FileAlways ==
    ASSUME Store = "file"
    PROVE  Spec => []FileInv
<1>1. FileInv /\ [Next]_vars => FileInv'
  BY FileKept
<1> QED
  BY <1>1, FileInitially, PTL DEF Spec

-----------------------------------------------------------------------------
(* At most one durable transition for each key, whatever is repeated and   *)
(* races: in PostgreSQL also whatever dies (transition_operation), in the  *)
(* state file only while its one process lives.                            *)
THEOREM OperationsApplyOnce ==
    ASSUME Store = "postgres" \/ ~Crashes
    PROVE  Spec => []AppliedOnce
<1>1. CASE Store = "postgres"
  <2>1. OperationsInv => AppliedOnce
    BY DEF OperationsInv, CountedByKey, AppliedOnce
  <2>2. Spec => []OperationsInv
    BY <1>1, OperationsInvariant
  <2> QED
    BY <2>1, <2>2, PTL
<1>2. CASE Store = "file" /\ ~Crashes
  <2>1. FileInv => AppliedOnce
    BY <1>2 DEF FileInv, CountedByCall, AppliedOnce
  <2>2. Spec => []FileInv
    BY <1>2, FileAlways
  <2> QED
    BY <2>1, <2>2, PTL
<1> QED
  BY <1>1, <1>2, OperationsAssumption

(* Whoever is told of a success is told what the store holds for the key,  *)
(* in either store and whatever dies.                                      *)
THEOREM RepliesAreTheWinners == Spec => []RepliesAgree
<1>1. CASE Store = "postgres"
  <2>1. OperationsInv => RepliesAgree
    BY DEF OperationsInv
  <2>2. Spec => []OperationsInv
    BY <1>1, OperationsInvariant
  <2> QED
    BY <2>1, <2>2, PTL
<1>2. CASE Store = "file"
  <2>1. FileInv => RepliesAgree
    BY DEF FileInv
  <2>2. Spec => []FileInv
    BY <1>2, FileAlways
  <2> QED
    BY <2>1, <2>2, PTL
<1> QED
  BY <1>1, <1>2, OperationsAssumption

(* A key is claimed once and for all: what a client was told of it stays   *)
(* true, in either store.                                                  *)
ClaimsStay == [][\A k \in Key : claimed[k] # NoClaim => claimed'[k] = claimed[k]]_vars

THEOREM ClaimsAreFinal == Spec => ClaimsStay
<1> DEFINE Free == \A c \in Client : At(c, "commit") => claimed[call[c].key] = NoClaim
           Stay == \A k \in Key : claimed[k] # NoClaim => claimed'[k] = claimed[k]
<1>1. ASSUME TypeOK, Free, [Next]_vars PROVE Stay
  <2>1. CASE \E c \in Client : Commit(c)
    BY <1>1, <2>1 DEF Commit, TypeOK
  <2>2. CASE UNCHANGED claimed
    BY <2>2
  <2> QED
    BY <1>1, <2>1, <2>2 DEF Next, Proceed, vars, Request, Lock, CheckKey, Transition, Refuse,
                            InsertKey, LoseKey, Crash, Accept, Run
<1>2. TypeOK /\ Free /\ [Next]_vars => [Stay]_vars
  BY <1>1
<1>3. CASE Store = "postgres"
  <2>1. OperationsInv => TypeOK /\ Free
    BY DEF OperationsInv, KeysReserved
  <2>2. Spec => []OperationsInv
    BY <1>3, OperationsInvariant
  <2> QED
    BY <1>2, <2>1, <2>2, PTL DEF Spec, ClaimsStay
<1>4. CASE Store = "file"
  <2>1. FileInv => TypeOK /\ Free
    BY DEF FileInv, KeysFree, Working, At
  <2>2. Spec => []FileInv
    BY <1>4, FileAlways
  <2> QED
    BY <1>2, <2>1, <2>2, PTL DEF Spec, ClaimsStay
<1> QED
  BY <1>3, <1>4, OperationsAssumption

-----------------------------------------------------------------------------
(* The initial state of the calls is that of the log.                      *)
LEMMA LogStarts == Init => Log!LogInit
BY DEF Init, Log!LogInit

(* Only the commit changes a status on behalf of a client, and it records  *)
(* the key in the same step.                                               *)
LEMMA CommitIsApply ==
    ASSUME Store = "postgres", OperationsInv, NEW c \in Client, Commit(c)
    PROVE  Log!LogNext
<1> USE DEF OperationsInv, TypeOK, Call, At
<1> DEFINE k == call[c].key
           r == [exec |-> call[c].exec, op |-> call[c].op, by |-> c]
<1>1. /\ claimed' = [claimed EXCEPT ![k] = r]
      /\ status' = [status EXCEPT ![call[c].exec] = Target(call[c].op)]
      /\ call[c].stage = "commit"
  BY DEF Commit, Tell, Moved
<1>2. k \in Key /\ r \in Log!Claim
  BY DEF Log!Claim, Op
<1>3. claimed[k] = NoClaim
  BY <1>1 DEF KeysReserved
<1>4. r.op = "retry" => status[r.exec] = "dead_letter"
  BY <1>1 DEF StillPermitted, Permitted
<1>5. Log!Apply(k, r)
  BY <1>1, <1>3, <1>4 DEF Log!Apply, Log!Target, Target
<1> QED
  BY <1>2, <1>5 DEF Log!LogNext

(* Every other step is a step of the engine or changes neither statuses    *)
(* nor keys.                                                               *)
LEMMA StepsOfTheLog ==
    ASSUME Store = "postgres", OperationsInv, [Next]_vars
    PROVE  [Log!LogNext]_<<status, claimed>>
<1>1. ASSUME NEW c \in Client, Commit(c) PROVE Log!LogNext
  BY <1>1, CommitIsApply
<1>2. ASSUME NEW c \in Client, LoseKey(c) PROVE UNCHANGED <<status, claimed>>
  BY <1>2 DEF LoseKey, OperationsInv, KeysChecked, At
<1>3. ASSUME NEW e \in Exec, Accept(e) PROVE Log!LogNext
  BY <1>3 DEF Accept, Log!LogNext, Log!Engine
<1>4. ASSUME NEW e \in Exec, Run(e) PROVE Log!LogNext
  <2>1. status[e] \in {"created", "recovered", "dead_letter"}
    BY <1>4 DEF Run, OperationsInv, TypeOK, Status
  <2> QED
    BY <1>4, <2>1 DEF Run, Log!LogNext, Log!Engine
<1>5. ASSUME NEW c \in Client, NEW e \in Exec, NEW op \in Op, NEW k \in Key,
             Request(c, e, op, k)
      PROVE  UNCHANGED <<status, claimed>>
  BY <1>5 DEF Request
<1>6. ASSUME NEW c \in Client,
             \/ Lock(c) \/ CheckKey(c) \/ Transition(c) \/ Refuse(c)
             \/ InsertKey(c) \/ Crash(c)
      PROVE  UNCHANGED <<status, claimed>>
  BY <1>6 DEF Lock, CheckKey, Transition, Refuse, InsertKey, Crash
<1>7. CASE UNCHANGED vars
  BY <1>7 DEF vars
<1> QED
  BY <1>1, <1>2, <1>3, <1>4, <1>5, <1>6, <1>7 DEF Next, Proceed

(* The detailed calls implement the log: each looks like one atomic step   *)
(* that changes the status and claims the key.                             *)
THEOREM CallsImplementLog ==
    ASSUME Store = "postgres"
    PROVE  Spec => ImplementsOperationLog
<1>1. OperationsInv /\ [Next]_vars => [Log!LogNext]_<<status, claimed>>
  BY StepsOfTheLog
<1>2. Spec => []OperationsInv
  BY OperationsInvariant
<1> QED
  BY <1>1, <1>2, LogStarts, PTL
  DEF Spec, ImplementsOperationLog, Log!LogSpec
=============================================================================
