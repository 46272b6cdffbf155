------------------------ MODULE MetaCubeWorkerProofs ------------------------
(* Theorems about MetaCubeWorker, for any executions, instances, numbers   *)
(* of copies and bounds: no delivery, claim, acknowledgement, crash or     *)
(* operator call makes an execution fall out of everybody's hands.         *)
EXTENDS MetaCubeWorker, FiniteSetTheorems, SequenceTheorems, TLAPS

-----------------------------------------------------------------------------
(* The invariant.                                                          *)

Queued(i, e) == \E k \in 1 .. Len(queue[i]) : queue[i][k] = e

(* An entry that waits to be read is in nobody's hands.                    *)
FreshApart ==
    \A m \in fresh :
       /\ m \notin pending
       /\ \A i \in Inst : m \notin loop[i].inbox \cup {loop[i].msg, run[i].msg}

(* Instances that are up run; a run that a message began is one of the     *)
(* execution it names.                                                     *)
RunsNamed ==
    \A i \in Inst :
       /\ run[i].exec # NoExec => Alive(i)
       /\ run[i].msg # NoMsg => run[i].exec = Named(run[i].msg)

(* Whatever is on its way has been accepted before.                        *)
Accepted ==
    \A e \in Exec : status[e] = "absent" =>
       /\ \A m \in fresh \cup pending : Named(m) # e
       /\ \A i \in Inst :
            /\ e \notin handlers[i] /\ e \notin loop[i].todo /\ run[i].exec # e
            /\ \A m \in loop[i].inbox : Named(m) # e
            /\ ~Queued(i, e)

ServerKnown ==
    /\ redisUp => configured
    /\ spent["outage"] = 0 => redisUp = configured

ConsumersLive == spent["raise"] = 0 => \A i \in Inst : Alive(i) => localAlive[i]

(* Somebody will come to e: as InHand, but an entry counts only while      *)
(* nobody is about to acknowledge it.                                      *)
Kept(e) ==
    \/ \E m \in fresh \cup pending : Named(m) = e /\ \A i \in Inst : loop[i].msg # m
    \/ \E i \in Inst : e \in handlers[i] \/ (localAlive[i] /\ Queued(i, e)) \/ run[i].exec = e

Calm == spent["crash"] = 0 /\ spent["outage"] = 0 /\ spent["raise"] = 0
Ended(e) == status[e] \in {"absent"} \cup Settled

OpenKept == Calm => \A e \in Exec : Ended(e) \/ Kept(e)
OpenRemembered ==
    ~configured /\ spent["raise"] = 0 =>
        \A e \in Exec : status[e] \in Open => Kept(e) \/ \E i \in Inst : ~Alive(i)

StreamInv == FreshApart /\ RunsNamed /\ Accepted /\ ServerKnown /\ ConsumersLive
WorkerInv == TypeOK /\ StreamInv /\ OpenKept /\ OpenRemembered

-----------------------------------------------------------------------------
(* Messages, records and orders.                                           *)

LEMMA Messages ==
    /\ NoMsg \notin Msg /\ NoExec \notin Exec
    /\ \A m \in Msg : Named(m) \in Exec
    /\ \A e \in Exec, n \in 1 .. MaxCopies : <<e, n>> \in Msg /\ Named(<<e, n>>) = e
BY WorkerAssumption DEF Msg, Named

(* What the records of a state are.                                        *)
LEMMA Parts ==
    ASSUME TypeOK, NEW i \in Inst
    PROVE  /\ loop[i] \in Loop /\ loop[i].stage \in Stage /\ loop[i].todo \subseteq Exec
           /\ loop[i].inbox \subseteq Msg /\ loop[i].after \in {"claim", "top"}
           /\ loop[i].msg \in Msg \cup {NoMsg} /\ loop[i].boot \in BOOLEAN
           /\ run[i].exec \in Exec \cup {NoExec} /\ run[i].msg \in Msg \cup {NoMsg}
           /\ queue[i] \in Seq(Exec) /\ Len(queue[i]) \in Nat /\ handlers[i] \subseteq Exec
BY LenProperties DEF TypeOK, Loop

LEMMA QuietIsLoop ==
    /\ Quiet \in Loop /\ NotRunning \in [exec : Exec \cup {NoExec}, msg : Msg \cup {NoMsg}]
    /\ Quiet.stage = "off" /\ Quiet.todo = {} /\ Quiet.inbox = {} /\ Quiet.msg = NoMsg
    /\ NotRunning.exec = NoExec /\ NotRunning.msg = NoMsg
BY DEF Quiet, Loop, Stage, NotRunning

(* What engine.list hands out names every execution of the set.            *)
LEMMA OrdersNameAll ==
    ASSUME NEW S \in SUBSET Exec, NEW q \in Orders(S)
    PROVE  q \in Seq(Exec) /\ \A e \in S : \E k \in 1 .. Len(q) : q[k] = e
<1>1. IsFiniteSet(S) /\ Cardinality(S) \in Nat
  BY WorkerAssumption, FS_Subset, FS_CardinalityType
<1> DEFINE n == Cardinality(S)
<1>2. q \in Injection(1 .. n, S)
  BY DEF Orders, Injection, IsInjective
<1>3. Cardinality(1 .. n) = n
  BY <1>1, FS_Interval
<1>4. q \in Surjection(1 .. n, S)
  BY <1>1, <1>2, <1>3, FS_Injection
<1>5. q \in Seq(Exec) /\ Len(q) = n
  <2>1. q \in [1 .. n -> Exec]
    BY <1>2 DEF Injection
  <2>2. q \in Seq(Exec)
    BY <1>1, <2>1, SeqDef
  <2>3. Len(q) \in Nat /\ 1 .. n = 1 .. Len(q)
    BY <2>1, <2>2, LenProperties
  <2>4. Len(q) = n
    <3>1. CASE Len(q) > n
      <4>1. Len(q) \in 1 .. Len(q) /\ Len(q) \notin 1 .. n
        BY <1>1, <2>3, <3>1
      <4> QED
        BY <2>3, <4>1
    <3>2. CASE Len(q) < n
      <4>1. n \in 1 .. n /\ n \notin 1 .. Len(q)
        BY <1>1, <2>3, <3>2
      <4> QED
        BY <2>3, <4>1
    <3> QED
      BY <1>1, <2>3, <3>1, <3>2
  <2> QED
    BY <2>2, <2>4
<1> QED
  BY <1>4, <1>5 DEF Surjection

(* A queue to which such an order is appended.                             *)
LEMMA QueueJoined ==
    ASSUME NEW s \in Seq(Exec), NEW q \in Seq(Exec)
    PROVE  /\ s \o q \in Seq(Exec)
           /\ \A k \in 1 .. Len(s) : k \in 1 .. Len(s \o q) /\ (s \o q)[k] = s[k]
           /\ \A k \in 1 .. Len(q) : \E j \in 1 .. Len(s \o q) : (s \o q)[j] = q[k]
           /\ \A j \in 1 .. Len(s \o q) : \/ \E k \in 1 .. Len(s) : s[k] = (s \o q)[j]
                                          \/ \E k \in 1 .. Len(q) : q[k] = (s \o q)[j]
<1>1. /\ s \o q \in Seq(Exec) /\ Len(s \o q) = Len(s) + Len(q)
      /\ \A j \in 1 .. Len(s) + Len(q) :
            (s \o q)[j] = IF j <= Len(s) THEN s[j] ELSE q[j - Len(s)]
      /\ Len(s) \in Nat /\ Len(q) \in Nat
  BY ConcatProperties, LenProperties
<1>2. ASSUME NEW k \in 1 .. Len(q) PROVE \E j \in 1 .. Len(s \o q) : (s \o q)[j] = q[k]
  <2>1. k + Len(s) \in 1 .. Len(s) + Len(q) /\ ~(k + Len(s) <= Len(s)) /\ k + Len(s) - Len(s) = k
    BY <1>1
  <2> QED
    BY <1>1, <2>1
<1>3. ASSUME NEW j \in 1 .. Len(s \o q)
      PROVE  \/ \E k \in 1 .. Len(s) : s[k] = (s \o q)[j]
             \/ \E k \in 1 .. Len(q) : q[k] = (s \o q)[j]
  <2>1. CASE j <= Len(s)
    BY <1>1, <2>1
  <2>2. CASE ~(j <= Len(s))
    <3>1. j - Len(s) \in 1 .. Len(q) /\ (s \o q)[j] = q[j - Len(s)]
      BY <1>1, <2>2
    <3> QED
      BY <3>1
  <2> QED
    BY <2>1, <2>2
<1> QED
  BY <1>1, <1>2, <1>3

LEMMA QueueAppended ==
    ASSUME NEW s \in Seq(Exec), NEW x \in Exec
    PROVE  /\ Append(s, x) \in Seq(Exec)
           /\ \A e : (\E k \in 1 .. Len(Append(s, x)) : Append(s, x)[k] = e) <=>
                        e = x \/ \E k \in 1 .. Len(s) : s[k] = e
<1>1. /\ Append(s, x) \in Seq(Exec) /\ Len(Append(s, x)) = Len(s) + 1 /\ Len(s) \in Nat
      /\ \A k \in 1 .. Len(s) : Append(s, x)[k] = s[k]
      /\ Append(s, x)[Len(s) + 1] = x
  BY AppendProperties, LenProperties
<1>2. /\ \A k \in 1 .. Len(s) + 1 : k \in 1 .. Len(s) \/ k = Len(s) + 1
      /\ \A k \in 1 .. Len(s) : k \in 1 .. Len(s) + 1
      /\ Len(s) + 1 \in 1 .. Len(s) + 1
  BY <1>1
<1> QED
  BY <1>1, <1>2

LEMMA QueueTaken ==
    ASSUME NEW s \in Seq(Exec), s # <<>>
    PROVE  /\ Head(s) \in Exec /\ Tail(s) \in Seq(Exec)
           /\ \A e : (\E k \in 1 .. Len(s) : s[k] = e) <=>
                        e = Head(s) \/ \E k \in 1 .. Len(Tail(s)) : Tail(s)[k] = e
<1>1. /\ Head(s) \in Exec /\ Tail(s) \in Seq(Exec) /\ Len(Tail(s)) = Len(s) - 1
      /\ \A k \in 1 .. Len(Tail(s)) : Tail(s)[k] = s[k + 1]
      /\ Len(s) \in Nat /\ Len(s) >= 1 /\ Head(s) = s[1]
  BY HeadTailProperties, LenProperties, EmptySeq
<1>2. \A k \in 1 .. Len(s) : k = 1 \/ (k - 1 \in 1 .. Len(Tail(s)) /\ Tail(s)[k - 1] = s[k])
  BY <1>1
<1>3. \A k \in 1 .. Len(Tail(s)) : k + 1 \in 1 .. Len(s)
  BY <1>1
<1>4. 1 \in 1 .. Len(s)
  BY <1>1
<1> QED
  BY <1>1, <1>2, <1>3, <1>4

-----------------------------------------------------------------------------
(* What keeps the invariant, whatever the action.                          *)

LEMMA KeptStays ==
    ASSUME TypeOK, NEW e \in Exec, Kept(e),
           fresh \cup pending \subseteq fresh' \cup pending',
           \A i \in Inst :
              /\ loop'[i].msg \in {loop[i].msg, NoMsg}
              /\ handlers[i] \subseteq handlers'[i]
              /\ localAlive[i] => localAlive'[i]
              /\ Queued(i, e) => Queued(i, e)'
              /\ run[i].exec = e => run'[i].exec = e
    PROVE  Kept(e)'
<1>1. CASE \E m \in fresh \cup pending : Named(m) = e /\ \A i \in Inst : loop[i].msg # m
  <2>1. PICK m \in fresh \cup pending : Named(m) = e /\ \A i \in Inst : loop[i].msg # m
    BY <1>1
  <2>2. m # NoMsg /\ m \in fresh' \cup pending'
    BY <2>1, Messages DEF TypeOK
  <2>3. \A i \in Inst : loop'[i].msg # m
    BY <2>1, <2>2
  <2> QED
    BY <2>1, <2>2, <2>3 DEF Kept
<1>2. CASE \E i \in Inst : e \in handlers[i] \/ (localAlive[i] /\ Queued(i, e)) \/ run[i].exec = e
  BY <1>2 DEF Kept
<1> QED
  BY <1>1, <1>2 DEF Kept

LEMMA OpenStays ==
    ASSUME WorkerInv, configured' = configured,
           Calm' => Calm, spent'["raise"] = 0 => spent["raise"] = 0,
           \A i \in Inst : ~Alive(i) => ~Alive(i)',
           \A e \in Exec : Kept(e) => Kept(e)' \/ Ended(e)',
           \A e \in Exec : Ended(e)' \/ Kept(e)' \/ status'[e] = status[e]
    PROVE  OpenKept' /\ OpenRemembered'
<1>1. OpenKept'
  BY DEF WorkerInv, OpenKept, Ended, Settled
<1>2. OpenRemembered'
  <2> SUFFICES ASSUME ~configured, spent["raise"] = 0, NEW e \in Exec, status'[e] \in Open,
                      \A i \in Inst : Alive(i)'
               PROVE  Kept(e)'
    BY DEF OpenRemembered, Open
  <2>1. ~Ended(e)'
    BY DEF Ended, Open, Settled
  <2>2. CASE status'[e] = status[e]
    <3>1. Kept(e)
      BY <2>2 DEF WorkerInv, OpenRemembered
    <3> QED
      BY <2>1, <3>1
  <2> QED
    BY <2>1, <2>2
<1> QED
  BY <1>1, <1>2

(* A step that settles nothing and takes nothing out of the hands it is in.*)
LEMMA HandsStay ==
    ASSUME WorkerInv, configured' = configured,
           Calm' => Calm, spent'["raise"] = 0 => spent["raise"] = 0,
           fresh \cup pending \subseteq fresh' \cup pending',
           \A i \in Inst :
              /\ loop'[i].msg \in {loop[i].msg, NoMsg}
              /\ handlers[i] \subseteq handlers'[i]
              /\ localAlive[i] => localAlive'[i]
              /\ \A e \in Exec : Queued(i, e) => Queued(i, e)'
              /\ \A e \in Exec : run[i].exec = e => run'[i].exec = e
              /\ ~Alive(i) => ~Alive(i)',
           \A e \in Exec : Kept(e)' \/ status'[e] = status[e]
    PROVE  OpenKept' /\ OpenRemembered'
<1>1. \A e \in Exec : Kept(e) => Kept(e)'
  BY KeptStays DEF WorkerInv
<1> QED
  BY <1>1, OpenStays

(* A new entry is one nobody holds.                                        *)
LEMMA EntryAdded ==
    ASSUME TypeOK, NEW e \in Exec, Xadd(e)
    PROVE  \E m \in Msg :
              /\ Named(m) = e /\ m \notin fresh \cup pending
              /\ \A i \in Inst : m \notin loop[i].inbox \cup {loop[i].msg, run[i].msg}
              /\ fresh' = fresh \cup {m} /\ UNCHANGED <<group, pending>>
<1>1. PICK n \in Unused(e) : fresh' = fresh \cup {<<e, n>>} /\ UNCHANGED <<group, pending>>
  BY DEF Xadd
<1>2. <<e, n>> \in Msg /\ Named(<<e, n>>) = e /\ ~Held(<<e, n>>)
  BY Messages DEF Unused
<1> QED
  BY <1>1, <1>2 DEF Held

(* The bounds.                                                             *)
LEMMA SpendTypes ==
    ASSUME TypeOK, NEW r \in Resource, NEW max, Spend(r, max)
    PROVE  /\ spent' \in [Resource -> Nat] /\ spent'[r] # 0
           /\ \A q \in Resource : spent'[q] = 0 => spent[q] = 0
           /\ Calm' => Calm
           /\ \A q \in Resource \ {r} : spent'[q] = spent[q]
<1>1. spent \in [Resource -> Nat] /\ spent' = [spent EXCEPT ![r] = @ + 1]
  BY DEF TypeOK, Spend
<1>2. /\ spent' \in [Resource -> Nat] /\ spent'[r] # 0
      /\ \A q \in Resource \ {r} : spent'[q] = spent[q]
  BY <1>1
<1>3. \A q \in Resource : spent'[q] = 0 => spent[q] = 0
  BY <1>2
<1> QED
  BY <1>2, <1>3 DEF Calm, Resource

LEMMA WorkerInitially == Init => WorkerInv
<1> SUFFICES ASSUME Init PROVE WorkerInv
  OBVIOUS
<1>1. TypeOK
  <2>1. configured \in BOOLEAN
    BY WorkerAssumption DEF Init
  <2> QED
    <3>1. <<>> \in Seq(Exec)
      BY EmptySeq
    <3>2. queue \in [Inst -> Seq(Exec)] /\ spent \in [Resource -> Nat]
      BY <3>1 DEF Init
    <3>3. loop \in [Inst -> Loop] /\ run \in [Inst -> [exec : Exec \cup {NoExec}, msg : Msg \cup {NoMsg}]]
      BY QuietIsLoop DEF Init
    <3> QED
      BY <2>1, <3>2, <3>3 DEF Init, TypeOK
<1>2. StreamInv
  BY QuietIsLoop, Messages DEF Init, StreamInv, FreshApart, RunsNamed, Accepted, ServerKnown,
     ConsumersLive, Alive, Queued
<1>3. OpenKept /\ OpenRemembered
  BY DEF Init, OpenKept, OpenRemembered, Ended, Open
<1> QED
  BY <1>1, <1>2, <1>3 DEF WorkerInv

-----------------------------------------------------------------------------
(* Redis and the life of an instance.                                      *)

LEMMA RedisFailsKeeps == ASSUME WorkerInv, RedisFails PROVE WorkerInv'
<1>1. /\ TypeOK /\ StreamInv
      /\ configured /\ redisUp' = FALSE
      /\ spent' \in [Resource -> Nat] /\ spent'["outage"] # 0
      /\ spent'["raise"] = spent["raise"] /\ (Calm' => Calm)
      /\ UNCHANGED <<records, configured, stream, memory>>
  BY SpendTypes DEF WorkerInv, RedisFails, Resource
<1> USE DEF records, stream, memory
<1>2. TypeOK'
  BY <1>1 DEF TypeOK
<1>3. StreamInv'
  <2>1. FreshApart'
    BY <1>1 DEF StreamInv, FreshApart
  <2>2. Accepted'
    BY <1>1 DEF StreamInv, Accepted, Queued
  <2>3. RunsNamed' /\ ServerKnown' /\ ConsumersLive'
    BY <1>1 DEF StreamInv, RunsNamed, ServerKnown, ConsumersLive, Alive
  <2> QED
    BY <2>1, <2>2, <2>3 DEF StreamInv
<1>4. OpenKept' /\ OpenRemembered'
  BY <1>1, HandsStay DEF Alive, Queued
<1> QED
  BY <1>2, <1>3, <1>4 DEF WorkerInv

LEMMA RedisReturnsKeeps == ASSUME WorkerInv, RedisReturns PROVE WorkerInv'
<1>1. /\ TypeOK /\ StreamInv /\ OpenKept /\ OpenRemembered
      /\ configured /\ ~redisUp /\ redisUp' = TRUE
      /\ UNCHANGED <<records, configured, memory, spent>>
      /\ fresh' \subseteq fresh /\ pending' \subseteq pending /\ group' \in BOOLEAN
  BY DEF WorkerInv, RedisReturns, stream, TypeOK
<1> USE DEF records, memory
<1>2. TypeOK'
  BY <1>1 DEF TypeOK
<1>3. StreamInv'
  <2>1. FreshApart'
    BY <1>1 DEF StreamInv, FreshApart
  <2>2. Accepted'
    BY <1>1 DEF StreamInv, Accepted, Queued
  <2>3. RunsNamed' /\ ServerKnown' /\ ConsumersLive'
    BY <1>1 DEF StreamInv, RunsNamed, ServerKnown, ConsumersLive, Alive
  <2> QED
    BY <2>1, <2>2, <2>3 DEF StreamInv
<1>4. OpenKept' /\ OpenRemembered'
  BY <1>1 DEF StreamInv, ServerKnown, OpenKept, OpenRemembered, Calm
<1> QED
  BY <1>2, <1>3, <1>4 DEF WorkerInv

(* What the store holds is queued.                                         *)
LEMMA ResumedLocally ==
    ASSUME TypeOK, NEW i \in Inst, ResumeLocally(i)
    PROVE  /\ queue' \in [Inst -> Seq(Exec)]
           /\ \A j \in Inst, e \in Exec : Queued(j, e) => Queued(j, e)'
           /\ \A e \in Resumable : Queued(i, e)'
           /\ \A j \in Inst, e \in Exec : Queued(j, e)' => Queued(j, e) \/ e \in Resumable
<1>1. PICK q \in Orders(Resumable) : queue' = [queue EXCEPT ![i] = @ \o q]
  BY DEF ResumeLocally
<1>2. Resumable \in SUBSET Exec
  BY DEF Resumable
<1>3. q \in Seq(Exec) /\ (\A e \in Resumable : \E k \in 1 .. Len(q) : q[k] = e)
      /\ \A k \in 1 .. Len(q) : q[k] \in Resumable
  <2>1. q \in [1 .. Cardinality(Resumable) -> Resumable]
    BY DEF Orders
  <2>2. q \in Seq(Exec) /\ \A e \in Resumable : \E k \in 1 .. Len(q) : q[k] = e
    BY <1>2, OrdersNameAll
  <2>3. 1 .. Len(q) = DOMAIN q
    BY <2>2, LenProperties
  <2> QED
    BY <2>1, <2>2, <2>3
<1>4. queue \in [Inst -> Seq(Exec)]
  BY DEF TypeOK
<1>5. \A j \in Inst : queue'[j] = IF j = i THEN queue[i] \o q ELSE queue[j]
  BY <1>1, <1>4
<1>6. /\ queue[i] \o q \in Seq(Exec)
      /\ \A k \in 1 .. Len(queue[i]) : k \in 1 .. Len(queue'[i]) /\ queue'[i][k] = queue[i][k]
      /\ \A k \in 1 .. Len(q) : \E j \in 1 .. Len(queue'[i]) : queue'[i][j] = q[k]
      /\ \A j \in 1 .. Len(queue'[i]) : \/ \E k \in 1 .. Len(queue[i]) : queue[i][k] = queue'[i][j]
                                        \/ \E k \in 1 .. Len(q) : q[k] = queue'[i][j]
  <2>1. queue[i] \in Seq(Exec) /\ queue'[i] = queue[i] \o q
    BY <1>4, <1>5
  <2> DEFINE s == queue[i]
             t == s \o q
  <2>2. s \in Seq(Exec)
    BY <1>4
  <2>3. /\ t \in Seq(Exec)
        /\ \A k \in 1 .. Len(s) : k \in 1 .. Len(t) /\ t[k] = s[k]
        /\ \A k \in 1 .. Len(q) : \E j \in 1 .. Len(t) : t[j] = q[k]
        /\ \A j \in 1 .. Len(t) : \/ \E k \in 1 .. Len(s) : s[k] = t[j]
                                  \/ \E k \in 1 .. Len(q) : q[k] = t[j]
    BY <1>3, <2>2, QueueJoined
  <2>4. queue'[i] = t
    BY <2>1
  <2>5. queue[i] \o q \in Seq(Exec)
    BY <2>3
  <2> HIDE DEF t
  <2> QED
    BY <2>3, <2>4, <2>5
<1>7. queue' \in [Inst -> Seq(Exec)]
  BY <1>1, <1>4, <1>6
<1>8. \A j \in Inst, e \in Exec : Queued(j, e) => Queued(j, e)'
  BY <1>5, <1>6 DEF Queued
<1>9. \A e \in Resumable : Queued(i, e)'
  <2> TAKE e \in Resumable
  <2>1. PICK k \in 1 .. Len(q) : q[k] = e
    BY <1>3
  <2>2. \E j \in 1 .. Len(queue'[i]) : queue'[i][j] = e
    BY <1>6, <2>1
  <2> QED
    BY <2>2 DEF Queued
<1>10. \A j \in Inst, e \in Exec : Queued(j, e)' => Queued(j, e) \/ e \in Resumable
  <2> SUFFICES ASSUME NEW j \in Inst, NEW e \in Exec, Queued(j, e)'
               PROVE  Queued(j, e) \/ e \in Resumable
    OBVIOUS
  <2>1. CASE j = i
    <3>1. PICK k \in 1 .. Len(queue'[i]) : queue'[i][k] = e
      BY <2>1 DEF Queued
    <3> QED
      BY <1>3, <1>6, <2>1, <3>1 DEF Queued
  <2>2. CASE j # i
    BY <1>5, <2>2 DEF Queued
  <2> QED
    BY <2>1, <2>2
<1> QED
  BY <1>7, <1>8, <1>9, <1>10

LEMMA StartKeeps == ASSUME WorkerInv, NEW i \in Inst, Start(i) PROVE WorkerInv'
<1>1. /\ TypeOK /\ StreamInv /\ ~Alive(i)
      /\ available' = [available EXCEPT ![i] = redisUp]
      /\ localAlive' = [localAlive EXCEPT ![i] = TRUE]
      /\ UNCHANGED <<status, saved, configured, redisUp, fresh, pending, handlers, run, spent>>
  BY DEF WorkerInv, Start, records, server
<1>2. /\ group' \in BOOLEAN /\ loop' \in [Inst -> Loop]
      /\ \A j \in Inst \ {i} : loop'[j] = loop[j]
      /\ loop'[i].msg \in {loop[i].msg, NoMsg} /\ loop'[i].inbox \subseteq loop[i].inbox
      /\ loop'[i].todo \subseteq loop[i].todo \cup Resumable
      /\ loop'[i].stage # "off"
  <2>1. CASE redisUp
    <3>1. [Quiet EXCEPT !.stage = "scan", !.todo = Resumable, !.boot = TRUE] \in Loop
      BY DEF Quiet, Loop, Stage, Resumable
    <3>2. loop' = [loop EXCEPT ![i] = [Quiet EXCEPT !.stage = "scan", !.todo = Resumable, !.boot = TRUE]]
          /\ group' = TRUE
      BY <2>1 DEF Start
    <3> QED
      BY <1>1, <3>1, <3>2 DEF TypeOK, Quiet
  <2>2. CASE ~redisUp
    <3>1. loop' = [loop EXCEPT ![i].stage = IF configured THEN "top" ELSE "none"] /\ group' = group
      BY <2>2 DEF Start
    <3>2. loop[i] \in Loop
      BY <1>1, Parts
    <3>3. [loop[i] EXCEPT !.stage = IF configured THEN "top" ELSE "none"] \in Loop
      BY <3>2 DEF Loop, Stage
    <3>4. loop' = [loop EXCEPT ![i] = [loop[i] EXCEPT !.stage = IF configured THEN "top" ELSE "none"]]
      BY <3>1
    <3>5. loop'[i] = [loop[i] EXCEPT !.stage = IF configured THEN "top" ELSE "none"]
      BY <1>1, <3>4 DEF TypeOK
    <3>6. loop' \in [Inst -> Loop] /\ \A j \in Inst \ {i} : loop'[j] = loop[j]
      BY <1>1, <3>3, <3>4 DEF TypeOK
    <3>7. /\ loop'[i].msg = loop[i].msg /\ loop'[i].inbox = loop[i].inbox
          /\ loop'[i].todo = loop[i].todo /\ loop'[i].stage # "off"
      BY <3>2, <3>5 DEF Loop
    <3>8. group' \in BOOLEAN
      BY <1>1, <3>1 DEF TypeOK
    <3> QED
      BY <3>6, <3>7, <3>8
  <2> QED
    BY <2>1, <2>2
<1>3. /\ queue' \in [Inst -> Seq(Exec)]
      /\ \A j \in Inst, e \in Exec : Queued(j, e) => Queued(j, e)'
      /\ ~redisUp => \A e \in Resumable : Queued(i, e)'
      /\ \A j \in Inst, e \in Exec : Queued(j, e)' => Queued(j, e) \/ e \in Resumable
  <2>1. CASE redisUp
    BY <1>1, <2>1 DEF Start, TypeOK, Queued
  <2>2. CASE ~redisUp
    BY <1>1, <2>2, ResumedLocally DEF Start
  <2> QED
    BY <2>1, <2>2
<1>4. \A e \in Resumable : status[e] # "absent"
  BY DEF Resumable, Open
<1>5. TypeOK'
  BY <1>1, <1>2, <1>3 DEF TypeOK
<1>6. StreamInv'
  <2>1. FreshApart'
    <3> SUFFICES ASSUME NEW m \in fresh, NEW j \in Inst
                 PROVE  m \notin loop'[j].inbox \cup {loop'[j].msg, run[j].msg}
      BY <1>1 DEF StreamInv, FreshApart
    <3>1. m \notin loop[j].inbox \cup {loop[j].msg, run[j].msg} /\ m # NoMsg
      BY <1>1, Messages DEF StreamInv, FreshApart, TypeOK
    <3> QED
      BY <1>2, <3>1
  <2>2. Accepted'
    BY <1>1, <1>2, <1>3, <1>4 DEF StreamInv, Accepted
  <2>3. RunsNamed' /\ ServerKnown' /\ ConsumersLive'
    BY <1>1, <1>2 DEF StreamInv, RunsNamed, ServerKnown, ConsumersLive, Alive, TypeOK
  <2> QED
    BY <2>1, <2>2, <2>3 DEF StreamInv
<1>7. \A e \in Exec : Kept(e) => Kept(e)'
  <2>1. \A j \in Inst : loop'[j].msg \in {loop[j].msg, NoMsg} /\ (localAlive[j] => localAlive'[j])
    BY <1>1, <1>2 DEF TypeOK
  <2> QED
    BY <1>1, <1>3, <2>1, KeptStays
<1>8. OpenKept'
  BY <1>1, <1>7 DEF WorkerInv, OpenKept, Calm, Ended
<1>9. OpenRemembered'
  <2> SUFFICES ASSUME ~configured, NEW e \in Exec, status[e] \in Open PROVE Kept(e)'
    BY <1>1 DEF OpenRemembered
  <2>1. ~redisUp /\ e \in Resumable
    BY <1>1 DEF StreamInv, ServerKnown, Resumable
  <2>2. localAlive'[i] /\ Queued(i, e)'
    BY <1>1, <1>3, <2>1 DEF TypeOK
  <2> QED
    BY <2>2 DEF Kept
<1> QED
  BY <1>5, <1>6, <1>8, <1>9 DEF WorkerInv

LEMMA CrashKeeps == ASSUME WorkerInv, NEW i \in Inst, Crash(i) PROVE WorkerInv'
<1>1. /\ TypeOK /\ StreamInv
      /\ loop' = [loop EXCEPT ![i] = Quiet] /\ available' = [available EXCEPT ![i] = FALSE]
      /\ localAlive' = [localAlive EXCEPT ![i] = FALSE] /\ queue' = [queue EXCEPT ![i] = <<>>]
      /\ handlers' = [handlers EXCEPT ![i] = {}] /\ run' = [run EXCEPT ![i] = NotRunning]
      /\ UNCHANGED <<status, saved, configured, redisUp, group, fresh, pending>>
      /\ spent' \in [Resource -> Nat] /\ spent'["crash"] # 0
      /\ spent'["raise"] = spent["raise"] /\ spent'["outage"] = spent["outage"]
  BY SpendTypes DEF WorkerInv, Crash, Resource, records, server, stream
<1>2. TypeOK'
  <2>1. <<>> \in Seq(Exec)
    BY EmptySeq
  <2> QED
    BY <1>1, <2>1, QuietIsLoop DEF TypeOK
<1>3. /\ \A j \in Inst \ {i} : /\ loop'[j] = loop[j] /\ queue'[j] = queue[j] /\ run'[j] = run[j]
                               /\ handlers'[j] = handlers[j] /\ localAlive'[j] = localAlive[j]
      /\ loop'[i] = Quiet /\ queue'[i] = <<>> /\ run'[i] = NotRunning /\ handlers'[i] = {}
  BY <1>1 DEF TypeOK
<1>4. StreamInv'
  <2>1. FreshApart'
    BY <1>1, <1>3, QuietIsLoop, Messages DEF StreamInv, FreshApart, TypeOK
  <2>2. \A j \in Inst, e \in Exec : Queued(j, e)' => Queued(j, e)
    BY <1>3 DEF Queued
  <2>3. Accepted'
    BY <1>1, <1>3, <2>2, QuietIsLoop, Messages DEF StreamInv, Accepted
  <2>4. RunsNamed' /\ ServerKnown' /\ ConsumersLive'
    BY <1>1, <1>3, QuietIsLoop DEF StreamInv, RunsNamed, ServerKnown, ConsumersLive, Alive
  <2> QED
    BY <2>1, <2>3, <2>4 DEF StreamInv
<1>5. OpenKept' /\ OpenRemembered'
  BY <1>1, <1>3, QuietIsLoop DEF OpenKept, Calm, OpenRemembered, Alive
<1> QED
  BY <1>2, <1>4, <1>5 DEF WorkerInv

-----------------------------------------------------------------------------
(* The Redis loop.                                                         *)

(* A step of the loop of i that drops no entry from the stream.            *)
LEMMA PassKeeps ==
    ASSUME WorkerInv, NEW i \in Inst, Alive(i),
           loop'[i] \in Loop, loop' = [loop EXCEPT ![i] = loop'[i]],
           loop'[i].stage # "off", loop'[i].msg \in {loop[i].msg, NoMsg},
           loop'[i].todo \subseteq loop[i].todo \cup Resumable,
           fresh' \subseteq Msg, pending' \subseteq Msg, fresh \cup pending \subseteq fresh' \cup pending',
           \A m \in fresh' \cup pending' \cup loop'[i].inbox : status[Named(m)] # "absent",
           FreshApart', group' \in BOOLEAN, available' \in [Inst -> BOOLEAN],
           queue' \in [Inst -> Seq(Exec)],
           \A j \in Inst, e \in Exec : Queued(j, e) => Queued(j, e)',
           \A j \in Inst, e \in Exec : Queued(j, e)' => Queued(j, e) \/ e \in Resumable,
           UNCHANGED <<status, saved, configured, redisUp, localAlive, handlers, run, spent>>
    PROVE  WorkerInv'
<1>1. TypeOK /\ StreamInv
  BY DEF WorkerInv
<1>2. /\ loop' \in [Inst -> Loop]
      /\ \A j \in Inst \ {i} : loop'[j] = loop[j]
  BY <1>1 DEF TypeOK
<1>3. TypeOK'
  BY <1>1, <1>2 DEF TypeOK
<1>4. \A e \in Resumable : status[e] # "absent"
  BY DEF Resumable, Open
<1>5. Accepted'
  <2> SUFFICES ASSUME NEW e \in Exec, status[e] = "absent"
               PROVE  /\ \A m \in fresh' \cup pending' : Named(m) # e
                      /\ \A j \in Inst :
                           /\ e \notin handlers[j] /\ e \notin loop'[j].todo /\ run[j].exec # e
                           /\ \A m \in loop'[j].inbox : Named(m) # e
                           /\ ~Queued(j, e)'
    BY DEF Accepted
  <2>1. \A j \in Inst : /\ e \notin handlers[j] /\ e \notin loop[j].todo /\ run[j].exec # e
                        /\ \A m \in loop[j].inbox : Named(m) # e
                        /\ ~Queued(j, e)
    BY <1>1 DEF StreamInv, Accepted
  <2>2. e \notin Resumable
    BY <1>4
  <2>3. e \notin loop'[i].todo
    BY <2>1, <2>2
  <2> QED
    BY <1>2, <2>1, <2>2, <2>3
<1>6. RunsNamed' /\ ServerKnown' /\ ConsumersLive'
  BY <1>1, <1>2 DEF StreamInv, RunsNamed, ServerKnown, ConsumersLive, Alive
<1>7. OpenKept' /\ OpenRemembered'
  <2>1. \A j \in Inst : loop'[j].msg \in {loop[j].msg, NoMsg} /\ (~Alive(j) => ~Alive(j)')
    BY <1>2 DEF Alive
  <2>2. Calm' => Calm
    BY DEF Calm
  <2> QED
    BY <2>1, <2>2, HandsStay
<1> QED
  BY <1>3, <1>5, <1>6, <1>7 DEF WorkerInv, StreamInv

(* Entries and messages of a state name executions that were accepted.     *)
LEMMA EntriesAccepted ==
    ASSUME WorkerInv
    PROVE  /\ \A m \in fresh \cup pending : m \in Msg /\ status[Named(m)] # "absent"
           /\ \A i \in Inst : \A m \in loop[i].inbox : m \in Msg /\ status[Named(m)] # "absent"
           /\ \A i \in Inst : \A e \in loop[i].todo \cup handlers[i] : e \in Exec /\ status[e] # "absent"
<1>1. ASSUME NEW m \in fresh \cup pending PROVE m \in Msg /\ status[Named(m)] # "absent"
  BY Messages DEF WorkerInv, TypeOK, StreamInv, Accepted
<1>2. ASSUME NEW i \in Inst, NEW m \in loop[i].inbox PROVE m \in Msg /\ status[Named(m)] # "absent"
  BY Parts, Messages DEF WorkerInv, StreamInv, Accepted
<1>3. ASSUME NEW i \in Inst, NEW e \in loop[i].todo \cup handlers[i] PROVE e \in Exec /\ status[e] # "absent"
  BY Parts DEF WorkerInv, StreamInv, Accepted
<1> QED
  BY <1>1, <1>2, <1>3

LEMMA TransportFailsKeeps == ASSUME WorkerInv, NEW i \in Inst, TransportFails(i) PROVE WorkerInv'
<1>1. /\ TypeOK /\ StreamInv /\ Alive(i)
      /\ loop' = [loop EXCEPT ![i] = [Quiet EXCEPT !.stage = "top"]]
      /\ UNCHANGED <<status, saved, configured, redisUp, group, fresh, pending, localAlive, handlers, run, spent>>
  BY DEF WorkerInv, TransportFails, Free, records, server, stream
<1>2. /\ [Quiet EXCEPT !.stage = "top"] \in Loop
      /\ loop'[i] = [Quiet EXCEPT !.stage = "top"]
      /\ \A j \in Inst \ {i} : loop'[j] = loop[j]
  BY <1>1 DEF TypeOK, Quiet, Loop, Stage
<1>3. loop'[i].stage = "top" /\ loop'[i].todo = {} /\ loop'[i].inbox = {} /\ loop'[i].msg = NoMsg
  BY <1>2 DEF Quiet
<1>4. available' \in [Inst -> BOOLEAN]
  <2>1. available' = available \/ available' = [available EXCEPT ![i] = FALSE]
    BY DEF TransportFails
  <2> QED
    BY <1>1, <2>1 DEF TypeOK
<1>5. /\ queue' \in [Inst -> Seq(Exec)]
      /\ \A j \in Inst, e \in Exec : Queued(j, e) => Queued(j, e)'
      /\ \A j \in Inst, e \in Exec : Queued(j, e)' => Queued(j, e) \/ e \in Resumable
  <2>1. CASE ResumeLocally(i)
    BY <1>1, <2>1, ResumedLocally
  <2>2. CASE queue' = queue
    BY <1>1, <2>2 DEF TypeOK, Queued
  <2> QED
    BY <2>1, <2>2 DEF TransportFails
<1>6. FreshApart'
  <2> SUFFICES ASSUME NEW m \in fresh, NEW j \in Inst
               PROVE  m \notin loop'[j].inbox \cup {loop'[j].msg, run[j].msg}
    BY <1>1 DEF StreamInv, FreshApart
  <2>1. m \notin loop[j].inbox \cup {loop[j].msg, run[j].msg} /\ m # NoMsg
    BY <1>1, Messages DEF StreamInv, FreshApart, TypeOK
  <2> QED
    BY <1>2, <1>3, <2>1
<1>7. \A m \in fresh' \cup pending' \cup loop'[i].inbox : status[Named(m)] # "absent"
  BY <1>1, <1>3, EntriesAccepted
<1>8. group' \in BOOLEAN /\ fresh' \subseteq Msg /\ pending' \subseteq Msg
  BY <1>1 DEF TypeOK
<1> QED
  BY <1>1, <1>2, <1>3, <1>4, <1>5, <1>6, <1>7, <1>8, PassKeeps

(* Steps that leave the local queues alone as well.                        *)
LEMMA LoopKeeps ==
    ASSUME WorkerInv, NEW i \in Inst, Alive(i), NEW r \in Loop, loop' = [loop EXCEPT ![i] = r],
           r.stage # "off", r.msg \in {loop[i].msg, NoMsg}, r.todo \subseteq loop[i].todo \cup Resumable,
           fresh' \subseteq Msg, pending' \subseteq Msg, fresh \cup pending \subseteq fresh' \cup pending',
           \A m \in fresh' \cup pending' \cup r.inbox : status[Named(m)] # "absent",
           \A m \in fresh' :
              /\ m \notin pending' /\ m \notin r.inbox
              /\ \A j \in Inst : m \notin loop[j].inbox \cup {loop[j].msg, run[j].msg} \/
                                 (j = i /\ m \notin {loop[j].msg, run[j].msg}),
           group' \in BOOLEAN, available' \in [Inst -> BOOLEAN],
           UNCHANGED <<status, saved, configured, redisUp, localAlive, queue, handlers, run, spent>>
    PROVE  WorkerInv'
<1>1. TypeOK /\ loop'[i] = r /\ \A j \in Inst \ {i} : loop'[j] = loop[j]
  BY DEF WorkerInv, TypeOK
<1>2. /\ queue' \in [Inst -> Seq(Exec)]
      /\ \A j \in Inst, e \in Exec : Queued(j, e)' = Queued(j, e)
  BY <1>1 DEF TypeOK, Queued
<1>3. \A m \in fresh' : m # NoMsg
  BY Messages
<1>4. FreshApart'
  <2> SUFFICES ASSUME NEW m \in fresh', NEW j \in Inst
               PROVE  m \notin loop'[j].inbox \cup {loop'[j].msg, run[j].msg}
    BY DEF FreshApart
  <2>1. CASE j = i
    BY <1>1, <1>3, <2>1
  <2>2. CASE j # i
    BY <1>1, <2>2
  <2> QED
    BY <2>1, <2>2
<1>5. /\ loop'[i] \in Loop /\ loop' = [loop EXCEPT ![i] = loop'[i]]
      /\ loop'[i].stage # "off" /\ loop'[i].msg \in {loop[i].msg, NoMsg}
      /\ loop'[i].todo \subseteq loop[i].todo \cup Resumable
      /\ \A m \in fresh' \cup pending' \cup loop'[i].inbox : status[Named(m)] # "absent"
  BY <1>1
<1>6. \A j \in Inst, e \in Exec : /\ Queued(j, e) => Queued(j, e)'
                                  /\ Queued(j, e)' => Queued(j, e) \/ e \in Resumable
  BY <1>2
<1> QED
  BY <1>2, <1>4, <1>5, <1>6, PassKeeps

(* What is the same in all of these steps.                                 *)
LEMMA StreamFacts ==
    ASSUME WorkerInv
    PROVE  /\ TypeOK /\ fresh \subseteq Msg /\ pending \subseteq Msg /\ group \in BOOLEAN
           /\ available \in [Inst -> BOOLEAN] /\ loop \in [Inst -> Loop]
           /\ \A m \in fresh : /\ m \notin pending
                               /\ \A j \in Inst : m \notin loop[j].inbox \cup {loop[j].msg, run[j].msg}
           /\ \A m \in fresh \cup pending : status[Named(m)] # "absent"
BY EntriesAccepted DEF WorkerInv, TypeOK, StreamInv, FreshApart

(* A step that moves no entry.                                             *)
LEMMA StageKeeps ==
    ASSUME WorkerInv, NEW i \in Inst, Alive(i), NEW r \in Loop, loop' = [loop EXCEPT ![i] = r],
           r.stage # "off", r.msg = loop[i].msg, r.inbox = loop[i].inbox,
           r.todo \subseteq loop[i].todo \cup Resumable,
           group' \in BOOLEAN, available' \in [Inst -> BOOLEAN],
           UNCHANGED <<status, saved, configured, redisUp, fresh, pending, localAlive, queue, handlers, run, spent>>
    PROVE  WorkerInv'
<1>1. \A m \in r.inbox : status[Named(m)] # "absent"
  BY EntriesAccepted
<1>2. /\ fresh' \subseteq Msg /\ pending' \subseteq Msg /\ fresh \cup pending \subseteq fresh' \cup pending'
      /\ \A m \in fresh' \cup pending' \cup r.inbox : status[Named(m)] # "absent"
  BY <1>1, StreamFacts
<1>3. \A m \in fresh' :
         /\ m \notin pending' /\ m \notin r.inbox
         /\ \A j \in Inst : m \notin loop[j].inbox \cup {loop[j].msg, run[j].msg}
  BY StreamFacts
<1>4. r.msg \in {loop[i].msg, NoMsg}
  OBVIOUS
<1> QED
  BY <1>2, <1>3, <1>4, LoopKeeps

LEMMA ConnectKeeps == ASSUME WorkerInv, NEW i \in Inst, Connect(i) PROVE WorkerInv'
<1> DEFINE r == [loop[i] EXCEPT !.stage = "scan", !.todo = Resumable]
<1>1. /\ Alive(i) /\ loop' = [loop EXCEPT ![i] = r] /\ group' = TRUE
      /\ available' = [available EXCEPT ![i] = TRUE]
      /\ UNCHANGED <<status, saved, configured, redisUp, fresh, pending, localAlive, queue, handlers, run, spent>>
  BY DEF Connect, Free, records, server
<1>2. /\ r \in Loop /\ r.stage = "scan" /\ r.todo = Resumable
      /\ r.msg = loop[i].msg /\ r.inbox = loop[i].inbox
  BY StreamFacts, Parts DEF Loop, Stage, Resumable
<1>3. group' \in BOOLEAN /\ available' \in [Inst -> BOOLEAN]
  BY <1>1, StreamFacts
<1> HIDE DEF r
<1> QED
  BY <1>1, <1>2, <1>3, StageKeeps

LEMMA ScanDoneKeeps == ASSUME WorkerInv, NEW i \in Inst, ScanDone(i) PROVE WorkerInv'
<1> DEFINE r == [loop[i] EXCEPT !.stage = IF loop[i].boot THEN "claim" ELSE "read"]
<1>1. /\ Alive(i) /\ loop' = [loop EXCEPT ![i] = r]
      /\ UNCHANGED <<status, saved, configured, redisUp, group, fresh, pending, available, localAlive, queue, handlers, run, spent>>
  BY DEF ScanDone, GoTo, Free, records, server, stream
<1>2. /\ r \in Loop /\ r.stage # "off" /\ r.todo = loop[i].todo
      /\ r.msg = loop[i].msg /\ r.inbox = loop[i].inbox
  BY StreamFacts, Parts DEF Loop, Stage
<1> HIDE DEF r
<1> QED
  BY <1>1, <1>2, StreamFacts, StageKeeps

LEMMA DrainDoneKeeps == ASSUME WorkerInv, NEW i \in Inst, DrainDone(i) PROVE WorkerInv'
<1> DEFINE r == [loop[i] EXCEPT !.stage = loop[i].after, !.boot = loop[i].boot /\ loop[i].after = "claim"]
<1>1. /\ Alive(i) /\ loop' = [loop EXCEPT ![i] = r]
      /\ UNCHANGED <<status, saved, configured, redisUp, group, fresh, pending, available, localAlive, queue, handlers, run, spent>>
  BY DEF DrainDone, Free, records, server, stream
<1>2. /\ r \in Loop /\ r.stage # "off" /\ r.todo = loop[i].todo
      /\ r.msg = loop[i].msg /\ r.inbox = loop[i].inbox
  <2>1. loop[i] \in Loop /\ loop[i].after \in Stage \ {"off"}
    BY StreamFacts, Parts DEF Stage
  <2>2. (loop[i].boot /\ loop[i].after = "claim") \in BOOLEAN
    OBVIOUS
  <2> QED
    BY <2>1, <2>2 DEF Loop
<1> HIDE DEF r
<1> QED
  BY <1>1, <1>2, StreamFacts, StageKeeps

LEMMA ReadGroupKeeps == ASSUME WorkerInv, NEW i \in Inst, ReadGroup(i) PROVE WorkerInv'
<1> DEFINE r == [loop[i] EXCEPT !.stage = "drain", !.inbox = fresh, !.after = "claim"]
<1>1. /\ Alive(i) /\ loop' = [loop EXCEPT ![i] = r]
      /\ fresh' = {} /\ pending' = pending \cup fresh
      /\ UNCHANGED <<status, saved, configured, redisUp, group, available, localAlive, queue, handlers, run, spent>>
  BY DEF ReadGroup, Reaches, Free, records, server
<1>2. /\ r \in Loop /\ r.stage # "off" /\ r.todo = loop[i].todo
      /\ r.msg = loop[i].msg /\ r.inbox = fresh
  BY StreamFacts, Parts DEF Loop, Stage
<1> HIDE DEF r
<1> QED
  BY <1>1, <1>2, StreamFacts, LoopKeeps

LEMMA ClaimKeeps == ASSUME WorkerInv, NEW i \in Inst, Claim(i) PROVE WorkerInv'
<1>1. PICK entries \in {pending, {}} : Reclaimed(i, entries)
  BY DEF Claim
<1> DEFINE r == [loop[i] EXCEPT !.stage = "drain", !.inbox = entries, !.after = "top"]
<1>2. /\ Alive(i) /\ loop' = [loop EXCEPT ![i] = r]
      /\ UNCHANGED <<status, saved, configured, redisUp, group, fresh, pending, available, localAlive, queue, handlers, run, spent>>
  BY <1>1 DEF Claim, Reclaimed, Free, records, server, stream
<1>3. /\ r \in Loop /\ r.stage # "off" /\ r.todo = loop[i].todo
      /\ r.msg = loop[i].msg /\ r.inbox \subseteq pending
  BY StreamFacts, Parts DEF Loop, Stage
<1> HIDE DEF r
<1>4. /\ fresh' \subseteq Msg /\ pending' \subseteq Msg /\ fresh \cup pending \subseteq fresh' \cup pending'
      /\ group' \in BOOLEAN /\ available' \in [Inst -> BOOLEAN]
      /\ \A m \in fresh' \cup pending' \cup r.inbox : status[Named(m)] # "absent"
  BY <1>2, <1>3, StreamFacts
<1>5. \A m \in fresh' : /\ m \notin pending' /\ m \notin r.inbox
                         /\ \A j \in Inst : m \notin loop[j].inbox \cup {loop[j].msg, run[j].msg}
  BY <1>2, <1>3, StreamFacts
<1>6. r.msg \in {loop[i].msg, NoMsg} /\ r.todo \subseteq loop[i].todo \cup Resumable
  BY <1>3
<1> QED
  BY <1>2, <1>3, <1>4, <1>5, <1>6, LoopKeeps

LEMMA PublishKeeps == ASSUME WorkerInv, NEW i \in Inst, NEW e \in Exec, Publish(i, e) PROVE WorkerInv'
<1> DEFINE r == [loop[i] EXCEPT !.todo = @ \ {e}]
<1>1. /\ Alive(i) /\ loop[i].stage = "scan" /\ loop' = [loop EXCEPT ![i] = r]
      /\ Xadd(e) \/ UNCHANGED <<group, fresh, pending>>
      /\ UNCHANGED <<status, saved, configured, redisUp, available, localAlive, queue, handlers, run, spent>>
  BY DEF Publish, Reaches, Free, records, server, stream
<1>2. /\ r \in Loop /\ r.stage = "scan" /\ r.todo \subseteq loop[i].todo
      /\ r.msg = loop[i].msg /\ r.inbox = loop[i].inbox
  BY <1>1, StreamFacts, Parts DEF Loop, Stage
<1>3. \A m \in r.inbox : status[Named(m)] # "absent"
  BY <1>2, EntriesAccepted
<1>4. status[e] # "absent"
  BY EntriesAccepted DEF Publish
<1> HIDE DEF r
<1>5. CASE UNCHANGED <<group, fresh, pending>>
  BY <1>1, <1>2, <1>5, StreamFacts, StageKeeps
<1>6. CASE Xadd(e)
  <2>1. PICK m \in Msg :
              /\ Named(m) = e /\ m \notin fresh \cup pending
              /\ \A j \in Inst : m \notin loop[j].inbox \cup {loop[j].msg, run[j].msg}
              /\ fresh' = fresh \cup {m} /\ UNCHANGED <<group, pending>>
    BY <1>6, StreamFacts, EntryAdded
  <2>2. /\ fresh' \subseteq Msg /\ pending' \subseteq Msg /\ fresh \cup pending \subseteq fresh' \cup pending'
        /\ group' \in BOOLEAN /\ available' \in [Inst -> BOOLEAN]
    BY <1>1, <2>1, StreamFacts
  <2>3. \A x \in fresh' \cup pending' \cup r.inbox : status[Named(x)] # "absent"
    BY <1>3, <1>4, <2>1, StreamFacts
  <2>4. \A x \in fresh' :
           /\ x \notin pending' /\ x \notin r.inbox
           /\ \A j \in Inst : x \notin loop[j].inbox \cup {loop[j].msg, run[j].msg}
    BY <1>2, <2>1, StreamFacts
  <2>5. r.stage # "off" /\ r.msg \in {loop[i].msg, NoMsg} /\ r.todo \subseteq loop[i].todo \cup Resumable
    BY <1>2
  <2> QED
    BY <1>1, <1>2, <2>2, <2>3, <2>4, <2>5, LoopKeeps
<1> QED
  BY <1>1, <1>5, <1>6

(* An acknowledgement drops an entry only after its execution was run; if  *)
(* that is wanted again by now, somebody else has it in hand.              *)
LEMMA AckKeeps == ASSUME WorkerInv, NEW i \in Inst, Ack(i) PROVE WorkerInv'
<1> DEFINE r == [loop[i] EXCEPT !.stage = "drain", !.msg = NoMsg]
<1>1. /\ Alive(i) /\ loop' = [loop EXCEPT ![i] = r] /\ pending' = pending \ {loop[i].msg}
      /\ UNCHANGED <<status, saved, configured, redisUp, group, fresh, available, localAlive, queue, handlers, run, spent>>
  BY DEF Ack, Reaches, Free, records, server
<1>2. /\ TypeOK /\ StreamInv
      /\ r \in Loop /\ r.stage = "drain" /\ r.todo = loop[i].todo
      /\ r.msg = NoMsg /\ r.inbox = loop[i].inbox
  BY StreamFacts, Parts DEF Loop, Stage, WorkerInv
<1> HIDE DEF r
<1>3. loop'[i] = r /\ loop' \in [Inst -> Loop] /\ \A j \in Inst \ {i} : loop'[j] = loop[j]
  BY <1>1, <1>2 DEF TypeOK
<1>4. TypeOK'
  BY <1>1, <1>2, <1>3 DEF TypeOK
<1>5. FreshApart'
  <2>1. \A m \in fresh : m # NoMsg
    BY StreamFacts, Messages
  <2> QED
    BY <1>1, <1>2, <1>3, <2>1 DEF StreamInv, FreshApart
<1>6. \A j \in Inst : /\ loop'[j].todo = loop[j].todo /\ loop'[j].inbox = loop[j].inbox
                      /\ Alive(j)' = Alive(j)
  BY <1>1, <1>2, <1>3 DEF Alive
<1>7. RunsNamed' /\ Accepted' /\ ServerKnown' /\ ConsumersLive'
  BY <1>1, <1>2, <1>6 DEF StreamInv, RunsNamed, Accepted, ServerKnown, ConsumersLive, Queued
<1>8. ASSUME NEW e \in Exec, Kept(e) PROVE Kept(e)'
  <2>1. CASE \E m \in fresh \cup pending : Named(m) = e /\ \A j \in Inst : loop[j].msg # m
    <3>1. PICK m \in fresh \cup pending : Named(m) = e /\ \A j \in Inst : loop[j].msg # m
      BY <2>1
    <3>2. m # NoMsg /\ m \in fresh' \cup pending'
      BY <1>1, <3>1, StreamFacts, Messages
    <3>3. \A j \in Inst : loop'[j].msg # m
      BY <1>2, <1>3, <3>1, <3>2
    <3> QED
      BY <3>1, <3>2, <3>3 DEF Kept
  <2>2. CASE \E j \in Inst : e \in handlers[j] \/ (localAlive[j] /\ Queued(j, e)) \/ run[j].exec = e
    BY <1>1, <2>2 DEF Kept, Queued
  <2> QED
    BY <1>8, <2>1, <2>2 DEF Kept
<1>9. OpenKept' /\ OpenRemembered'
  BY <1>1, <1>6, <1>8, OpenStays DEF Calm
<1> QED
  BY <1>4, <1>5, <1>7, <1>9 DEF WorkerInv, StreamInv

-----------------------------------------------------------------------------
(* The engine.                                                             *)

LEMMA TakeMessageKeeps ==
    ASSUME WorkerInv, NEW i \in Inst, NEW m \in Msg, TakeMessage(i, m)
    PROVE  WorkerInv'
<1> DEFINE r == [loop[i] EXCEPT !.inbox = @ \ {m}]
           d == [exec |-> Named(m), msg |-> m]
<1>1. /\ TypeOK /\ StreamInv
      /\ Alive(i) /\ run[i] = NotRunning /\ m \in loop[i].inbox
      /\ loop' = [loop EXCEPT ![i] = r] /\ run' = [run EXCEPT ![i] = d]
      /\ UNCHANGED <<status, saved, configured, redisUp, group, fresh, pending, available, localAlive, queue, handlers, spent>>
  BY DEF WorkerInv, TakeMessage, Free, records, server, stream
<1>2. /\ r \in Loop /\ r.stage = loop[i].stage /\ r.todo = loop[i].todo
      /\ r.msg = loop[i].msg /\ r.inbox \subseteq loop[i].inbox
      /\ d.exec = Named(m) /\ d.msg = m /\ d \in [exec : Exec \cup {NoExec}, msg : Msg \cup {NoMsg}]
  BY <1>1, StreamFacts, Parts, Messages DEF Loop
<1> HIDE DEF r, d
<1>3. /\ loop'[i] = r /\ loop' \in [Inst -> Loop] /\ \A j \in Inst \ {i} : loop'[j] = loop[j]
      /\ run'[i] = d /\ \A j \in Inst \ {i} : run'[j] = run[j]
      /\ run' \in [Inst -> [exec : Exec \cup {NoExec}, msg : Msg \cup {NoMsg}]]
  BY <1>1, <1>2 DEF TypeOK
<1>4. TypeOK'
  BY <1>1, <1>3 DEF TypeOK
<1>5. FreshApart'
  <2> SUFFICES ASSUME NEW x \in fresh, NEW j \in Inst
               PROVE  x \notin loop'[j].inbox \cup {loop'[j].msg, run'[j].msg}
    BY <1>1 DEF StreamInv, FreshApart
  <2>1. x \notin loop[j].inbox \cup {loop[j].msg, run[j].msg}
    BY <1>1 DEF StreamInv, FreshApart
  <2>2. x # m
    BY <1>1 DEF StreamInv, FreshApart
  <2> QED
    BY <1>2, <1>3, <2>1, <2>2
<1>6. \A j \in Inst : /\ loop'[j].todo = loop[j].todo /\ loop'[j].inbox \subseteq loop[j].inbox
                      /\ loop'[j].msg = loop[j].msg /\ Alive(j)' = Alive(j)
  BY <1>1, <1>2, <1>3 DEF Alive
<1>7. Accepted'
  <2>1. status[Named(m)] # "absent"
    BY <1>1, EntriesAccepted
  <2> QED
    BY <1>1, <1>2, <1>3, <1>6, <2>1 DEF StreamInv, Accepted, Queued
<1>8. RunsNamed' /\ ServerKnown' /\ ConsumersLive'
  BY <1>1, <1>2, <1>3, <1>6 DEF StreamInv, RunsNamed, ServerKnown, ConsumersLive
<1>9. OpenKept' /\ OpenRemembered'
  <2>1. \A j \in Inst, e \in Exec : run[j].exec = e => run'[j].exec = e
    BY <1>1, <1>3, QuietIsLoop, Messages
  <2> QED
    BY <1>1, <1>6, <2>1, HandsStay DEF Calm, Queued
<1> QED
  BY <1>4, <1>5, <1>7, <1>8, <1>9 DEF WorkerInv, StreamInv

LEMMA TakeLocalKeeps == ASSUME WorkerInv, NEW i \in Inst, TakeLocal(i) PROVE WorkerInv'
<1> DEFINE h == Head(queue[i])
           d == [exec |-> h, msg |-> NoMsg]
<1>1. /\ TypeOK /\ StreamInv
      /\ Alive(i) /\ run[i] = NotRunning /\ queue[i] # <<>>
      /\ run' = [run EXCEPT ![i] = d] /\ queue' = [queue EXCEPT ![i] = Tail(@)]
      /\ UNCHANGED <<status, saved, configured, redisUp, group, fresh, pending, loop, available, localAlive, handlers, spent>>
  BY DEF WorkerInv, TakeLocal, Free, records, server, stream
<1>2. /\ h \in Exec /\ Tail(queue[i]) \in Seq(Exec)
      /\ \A e : Queued(i, e) <=> e = h \/ \E k \in 1 .. Len(Tail(queue[i])) : Tail(queue[i])[k] = e
  BY <1>1, Parts, QueueTaken DEF Queued
<1>3. d.exec = h /\ d.msg = NoMsg /\ d \in [exec : Exec \cup {NoExec}, msg : Msg \cup {NoMsg}]
  BY <1>2
<1> HIDE DEF d, h
<1>4. /\ run'[i] = d /\ \A j \in Inst \ {i} : run'[j] = run[j] /\ queue'[j] = queue[j]
      /\ run' \in [Inst -> [exec : Exec \cup {NoExec}, msg : Msg \cup {NoMsg}]]
      /\ queue'[i] = Tail(queue[i]) /\ queue' \in [Inst -> Seq(Exec)]
  BY <1>1, <1>2, <1>3 DEF TypeOK
<1>5. TypeOK'
  BY <1>1, <1>4 DEF TypeOK
<1>6. \A j \in Inst, e \in Exec : /\ Queued(j, e)' => Queued(j, e)
                                  /\ Queued(j, e) => Queued(j, e)' \/ run'[j].exec = e
  <2> SUFFICES ASSUME NEW j \in Inst, NEW e \in Exec
               PROVE  /\ Queued(j, e)' => Queued(j, e)
                      /\ Queued(j, e) => Queued(j, e)' \/ run'[j].exec = e
    OBVIOUS
  <2>1. CASE j = i
    <3>1. Queued(i, e)' <=> \E k \in 1 .. Len(Tail(queue[i])) : Tail(queue[i])[k] = e
      BY <1>4 DEF Queued
    <3> QED
      BY <1>2, <1>3, <1>4, <2>1, <3>1
  <2>2. CASE j # i
    BY <1>4, <2>2 DEF Queued
  <2> QED
    BY <2>1, <2>2
<1>7. FreshApart'
  <2>1. \A m \in fresh : m # NoMsg
    BY StreamFacts, Messages
  <2> QED
    BY <1>1, <1>3, <1>4, <2>1 DEF StreamInv, FreshApart
<1>8. Accepted'
  <2>1. status[h] # "absent"
    BY <1>1, <1>2 DEF StreamInv, Accepted
  <2> QED
    BY <1>1, <1>3, <1>4, <1>6, <2>1 DEF StreamInv, Accepted
<1>9. RunsNamed' /\ ServerKnown' /\ ConsumersLive'
  <2>1. RunsNamed'
    BY <1>1, <1>3, <1>4 DEF StreamInv, RunsNamed, Alive
  <2> QED
    BY <1>1, <2>1 DEF StreamInv, ServerKnown, ConsumersLive, Alive
<1>10. ASSUME NEW e \in Exec, Kept(e) PROVE Kept(e)'
  <2>1. CASE \E m \in fresh \cup pending : Named(m) = e /\ \A j \in Inst : loop[j].msg # m
    BY <1>1, <2>1 DEF Kept
  <2>2. CASE \E j \in Inst : e \in handlers[j] \/ (localAlive[j] /\ Queued(j, e)) \/ run[j].exec = e
    <3>1. PICK j \in Inst : e \in handlers[j] \/ (localAlive[j] /\ Queued(j, e)) \/ run[j].exec = e
      BY <2>2
    <3>2. run[j].exec = e => run'[j].exec = e
      BY <1>1, <1>4, QuietIsLoop, Messages
    <3> QED
      BY <1>1, <1>6, <3>1, <3>2 DEF Kept
  <2> QED
    BY <1>10, <2>1, <2>2 DEF Kept
<1>11. OpenKept' /\ OpenRemembered'
  BY <1>1, <1>10, OpenStays DEF Calm, Alive
<1> QED
  BY <1>5, <1>7, <1>8, <1>9, <1>11 DEF WorkerInv, StreamInv

LEMMA PersistKeeps == ASSUME WorkerInv, NEW i \in Inst, NEW e \in Exec, Persist(i, e) PROVE WorkerInv'
<1>1. /\ TypeOK /\ StreamInv /\ run[i].exec = e
      /\ UNCHANGED <<configured, redisUp, group, fresh, pending, loop, available, localAlive, queue, handlers, run, spent>>
  BY DEF WorkerInv, Persist, Working, server, stream, memory
<1>2. TypeOK'
  BY <1>1 DEF Persist, TypeOK
<1>3. \A x \in Exec : status'[x] = "absent" => status[x] = "absent"
  BY <1>1 DEF Persist, TypeOK
<1>4. StreamInv'
  BY <1>1, <1>3 DEF StreamInv, FreshApart, RunsNamed, Accepted, ServerKnown, ConsumersLive, Alive, Queued
<1>5. Kept(e)' /\ \A x \in Exec \ {e} : status'[x] = status[x]
  BY <1>1 DEF Persist, Kept, TypeOK
<1>6. OpenKept' /\ OpenRemembered'
  BY <1>1, <1>5, HandsStay DEF Calm, Alive, Queued
<1> QED
  BY <1>2, <1>4, <1>6 DEF WorkerInv

(* Only the execution that was run is let go of.                           *)
LEMMA ReturnKeeps ==
    ASSUME WorkerInv, NEW i \in Inst, NEW e \in Exec, run[i].exec = e, Return(i),
           status' \in [Exec -> {"absent", "created", "running", "retry_wait", "recovered"} \cup Settled],
           status'[e] \in Settled, \A x \in Exec \ {e} : status'[x] = status[x],
           UNCHANGED <<saved, configured, redisUp, group, fresh, pending, available, localAlive, queue, handlers, spent>>
    PROVE  WorkerInv'
<1>1. TypeOK /\ StreamInv
  BY DEF WorkerInv
<1>2. /\ run' = [run EXCEPT ![i] = NotRunning]
      /\ run'[i] = NotRunning /\ \A j \in Inst \ {i} : run'[j] = run[j]
      /\ run' \in [Inst -> [exec : Exec \cup {NoExec}, msg : Msg \cup {NoMsg}]]
  BY <1>1, QuietIsLoop DEF Return, TypeOK
<1>3. /\ loop' \in [Inst -> Loop] /\ \A j \in Inst \ {i} : loop'[j] = loop[j]
      /\ loop'[i].todo = loop[i].todo /\ loop'[i].inbox = loop[i].inbox
      /\ loop'[i].msg \in {loop[i].msg, run[i].msg}
      /\ loop'[i].msg = loop[i].msg \/ (run[i].msg # NoMsg /\ loop'[i].msg = run[i].msg)
      /\ ~Alive(i) => ~Alive(i)' \/ run[i].msg # NoMsg
      /\ Alive(i) => Alive(i)'
  <2>1. CASE run[i].msg = NoMsg
    BY <1>1, <2>1 DEF Return, TypeOK, Alive
  <2>2. CASE run[i].msg # NoMsg
    <3> DEFINE r == [loop[i] EXCEPT !.stage = "ack", !.msg = run[i].msg]
    <3>1. loop' = [loop EXCEPT ![i] = r]
      BY <2>2 DEF Return
    <3>2. /\ r \in Loop /\ r.todo = loop[i].todo /\ r.inbox = loop[i].inbox
          /\ r.msg = run[i].msg /\ r.stage = "ack"
      BY <1>1, Parts DEF Loop, Stage
    <3> HIDE DEF r
    <3>3. loop'[i] = r
      BY <1>1, <3>1 DEF TypeOK
    <3> QED
      BY <1>1, <2>2, <3>1, <3>2, <3>3 DEF TypeOK, Alive
  <2> QED
    BY <2>1, <2>2
<1>4. Alive(i) /\ \A j \in Inst : Alive(j)' = Alive(j)
  <2>1. Alive(i)
    BY <1>1, Messages DEF StreamInv, RunsNamed
  <2> QED
    BY <1>3, <2>1 DEF Alive
<1>5. TypeOK'
  BY <1>1, <1>2, <1>3 DEF TypeOK
<1>6. FreshApart'
  <2> SUFFICES ASSUME NEW m \in fresh, NEW j \in Inst
               PROVE  m \notin loop'[j].inbox \cup {loop'[j].msg, run'[j].msg}
    BY <1>1 DEF StreamInv, FreshApart
  <2>1. m # NoMsg /\ m \notin loop[j].inbox \cup {loop[j].msg, run[j].msg}
    BY <1>1, StreamFacts, Messages
  <2> QED
    BY <1>2, <1>3, <2>1, QuietIsLoop
<1>7. Accepted'
  BY <1>1, <1>2, <1>3, QuietIsLoop, Messages DEF StreamInv, Accepted, Queued, Settled
<1>8. RunsNamed' /\ ServerKnown' /\ ConsumersLive'
  BY <1>1, <1>2, <1>4, QuietIsLoop DEF StreamInv, RunsNamed, ServerKnown, ConsumersLive
<1>9. ASSUME NEW x \in Exec, Kept(x) PROVE Kept(x)' \/ Ended(x)'
  <2>1. CASE x = e
    BY <2>1 DEF Ended
  <2>2. CASE x # e /\ \E m \in fresh \cup pending : Named(m) = x /\ \A j \in Inst : loop[j].msg # m
    <3>1. PICK m \in fresh \cup pending : Named(m) = x /\ \A j \in Inst : loop[j].msg # m
      BY <2>2
    <3>2. run[i].msg # NoMsg => run[i].msg # m
      BY <1>1, <2>2, <3>1 DEF StreamInv, RunsNamed
    <3>3. \A j \in Inst : loop'[j].msg # m
      BY <1>3, <3>1, <3>2
    <3> QED
      BY <3>1, <3>3 DEF Kept
  <2>3. CASE x # e /\ \E j \in Inst : x \in handlers[j] \/ (localAlive[j] /\ Queued(j, x)) \/ run[j].exec = x
    <3>1. PICK j \in Inst : x \in handlers[j] \/ (localAlive[j] /\ Queued(j, x)) \/ run[j].exec = x
      BY <2>3
    <3>2. run[j].exec = x => run'[j].exec = x
      BY <1>2, <2>3
    <3>3. Queued(j, x)' = Queued(j, x)
      BY DEF Queued
    <3> QED
      BY <3>1, <3>2, <3>3 DEF Kept
  <2> QED
    BY <1>9, <2>1, <2>2, <2>3 DEF Kept
<1>10. \A x \in Exec : Ended(x)' \/ Kept(x)' \/ status'[x] = status[x]
  BY DEF Ended
<1>11. OpenKept' /\ OpenRemembered'
  BY <1>4, <1>9, <1>10, OpenStays DEF Calm
<1> QED
  BY <1>5, <1>6, <1>7, <1>8, <1>11 DEF WorkerInv, StreamInv

LEMMA SettleKeeps == ASSUME WorkerInv, NEW i \in Inst, NEW e \in Exec, Settle(i, e) PROVE WorkerInv'
<1>1. PICK to \in Settled : status' = [status EXCEPT ![e] = to]
  BY DEF Settle
<1>2. /\ status' \in [Exec -> {"absent", "created", "running", "retry_wait", "recovered"} \cup Settled]
      /\ status'[e] \in Settled /\ \A x \in Exec \ {e} : status'[x] = status[x]
  BY <1>1, StreamFacts DEF TypeOK
<1> QED
  BY <1>2, ReturnKeeps DEF Settle, Working, server, stream

LEMMA SkipKeeps == ASSUME WorkerInv, NEW i \in Inst, NEW e \in Exec, Skip(i, e) PROVE WorkerInv'
<1>1. /\ status' \in [Exec -> {"absent", "created", "running", "retry_wait", "recovered"} \cup Settled]
      /\ status'[e] \in Settled /\ \A x \in Exec \ {e} : status'[x] = status[x]
  BY StreamFacts DEF TypeOK, Skip, Workable, records, Settled
<1> QED
  BY <1>1, ReturnKeeps DEF Skip, Working, records, server, stream

LEMMA RaiseKeeps == ASSUME WorkerInv, NEW i \in Inst, NEW e \in Exec, Raise(i, e) PROVE WorkerInv'
<1>1. /\ TypeOK /\ StreamInv
      /\ run' = [run EXCEPT ![i] = NotRunning]
      /\ localAlive' = [localAlive EXCEPT ![i] = @ /\ run[i].msg # NoMsg]
      /\ UNCHANGED <<status, saved, configured, redisUp, group, fresh, pending, loop, available, queue, handlers>>
      /\ spent' \in [Resource -> Nat] /\ spent'["raise"] # 0 /\ spent'["outage"] = spent["outage"]
  BY SpendTypes DEF WorkerInv, Raise, Resource, records, server, stream
<1>2. /\ run'[i] = NotRunning /\ \A j \in Inst \ {i} : run'[j] = run[j]
      /\ run' \in [Inst -> [exec : Exec \cup {NoExec}, msg : Msg \cup {NoMsg}]]
      /\ localAlive' \in [Inst -> BOOLEAN]
  BY <1>1, QuietIsLoop DEF TypeOK
<1>3. TypeOK'
  BY <1>1, <1>2 DEF TypeOK
<1>4. FreshApart'
  <2>1. \A m \in fresh : m # NoMsg
    BY StreamFacts, Messages
  <2> QED
    BY <1>1, <1>2, <2>1, QuietIsLoop DEF StreamInv, FreshApart
<1>5. Accepted'
  BY <1>1, <1>2, QuietIsLoop, Messages DEF StreamInv, Accepted, Queued
<1>6. RunsNamed' /\ ServerKnown' /\ ConsumersLive'
  BY <1>1, <1>2, QuietIsLoop DEF StreamInv, RunsNamed, ServerKnown, ConsumersLive, Alive
<1>7. OpenKept' /\ OpenRemembered'
  BY <1>1 DEF OpenKept, Calm, OpenRemembered
<1> QED
  BY <1>3, <1>4, <1>5, <1>6, <1>7 DEF WorkerInv, StreamInv

-----------------------------------------------------------------------------
(* The API.                                                                *)

(* A handler is kept until its execution has been submitted.               *)
LEMMA HandleKeeps ==
    ASSUME WorkerInv, NEW i \in Inst, NEW e \in Exec, Alive(i), Handle(i, e),
           status' \in [Exec -> {"absent", "created", "running", "retry_wait", "recovered"} \cup Settled],
           status'[e] # "absent", \A x \in Exec \ {e} : status'[x] = status[x],
           spent' \in [Resource -> Nat], Calm' => Calm,
           spent'["raise"] = spent["raise"], spent'["outage"] = spent["outage"],
           UNCHANGED <<saved, configured, redisUp, group, fresh, pending, loop, available, localAlive, queue, run>>
    PROVE  WorkerInv'
<1>1. TypeOK /\ StreamInv
  BY DEF WorkerInv
<1>2. /\ handlers' \in [Inst -> SUBSET Exec]
      /\ handlers'[i] = handlers[i] \cup {e} /\ \A j \in Inst \ {i} : handlers'[j] = handlers[j]
  BY <1>1 DEF Handle, TypeOK
<1>3. TypeOK'
  BY <1>1, <1>2 DEF TypeOK
<1>4. Accepted'
  BY <1>1, <1>2 DEF StreamInv, Accepted, Queued
<1>5. FreshApart' /\ RunsNamed' /\ ServerKnown' /\ ConsumersLive'
  BY <1>1 DEF StreamInv, FreshApart, RunsNamed, ServerKnown, ConsumersLive, Alive
<1>6. Kept(e)'
  BY <1>2 DEF Kept
<1>7. OpenKept' /\ OpenRemembered'
  <2>1. \A j \in Inst : handlers[j] \subseteq handlers'[j]
    BY <1>2
  <2>2. \A x \in Exec : Kept(x)' \/ status'[x] = status[x]
    BY <1>6
  <2> QED
    BY <2>1, <2>2, HandsStay DEF Alive, Queued
<1> QED
  BY <1>3, <1>4, <1>5, <1>7 DEF WorkerInv, StreamInv

LEMMA AcceptEventKeeps ==
    ASSUME WorkerInv, NEW i \in Inst, NEW e \in Exec, AcceptEvent(i, e)
    PROVE  WorkerInv'
<1>1. /\ status' \in [Exec -> {"absent", "created", "running", "retry_wait", "recovered"} \cup Settled]
      /\ status'[e] # "absent" /\ \A x \in Exec \ {e} : status'[x] = status[x]
      /\ spent \in [Resource -> Nat]
  BY StreamFacts DEF TypeOK, AcceptEvent
<1> QED
  BY <1>1, HandleKeeps DEF AcceptEvent, Serving, Free, server, stream, Calm

LEMMA OperatorKeeps ==
    ASSUME WorkerInv, NEW i \in Inst, NEW e \in Exec,
           RetryCall(i, e) \/ RecoverCall(i, e) \/ ReplayCall(i, e)
    PROVE  WorkerInv'
<1>1. /\ status' \in [Exec -> {"absent", "created", "running", "retry_wait", "recovered"} \cup Settled]
      /\ status'[e] # "absent" /\ \A x \in Exec \ {e} : status'[x] = status[x]
      /\ saved' = saved
  BY StreamFacts DEF TypeOK, RetryCall, RecoverCall, ReplayCall, records
<1>2. /\ spent' \in [Resource -> Nat] /\ (Calm' => Calm)
      /\ spent'["raise"] = spent["raise"] /\ spent'["outage"] = spent["outage"]
  BY StreamFacts, SpendTypes DEF RetryCall, RecoverCall, ReplayCall, Resource
<1>3. /\ Alive(i) /\ Handle(i, e)
      /\ UNCHANGED <<configured, redisUp, group, fresh, pending, loop, available, localAlive, queue, run>>
  BY DEF RetryCall, RecoverCall, ReplayCall, Serving, Free, server, stream
<1> QED
  BY <1>1, <1>2, <1>3, HandleKeeps

(* Submitted to the stream or, where that fails, to the local queue.       *)
LEMMA SubmitKeeps == ASSUME WorkerInv, NEW i \in Inst, NEW e \in Exec, Submit(i, e) PROVE WorkerInv'
<1>1. /\ TypeOK /\ StreamInv
      /\ Alive(i) /\ e \in handlers[i]
      /\ handlers' = [handlers EXCEPT ![i] = @ \ {e}]
      /\ UNCHANGED <<status, saved, configured, redisUp, loop, localAlive, run, spent>>
  BY DEF WorkerInv, Submit, Free, records, server
<1>2. status[e] # "absent"
  BY <1>1, EntriesAccepted
<1>3. /\ handlers' \in [Inst -> SUBSET Exec]
      /\ handlers'[i] = handlers[i] \ {e} /\ \A j \in Inst \ {i} : handlers'[j] = handlers[j]
      /\ \A j \in Inst : handlers'[j] \subseteq handlers[j]
  BY <1>1 DEF TypeOK
<1>4. RunsNamed' /\ ServerKnown' /\ ConsumersLive'
  BY <1>1 DEF StreamInv, RunsNamed, ServerKnown, ConsumersLive, Alive
<1>5. /\ available' \in [Inst -> BOOLEAN] /\ queue' \in [Inst -> Seq(Exec)] /\ group' \in BOOLEAN
      /\ fresh' \subseteq Msg /\ pending' = pending /\ fresh \subseteq fresh'
      /\ FreshApart' /\ \A m \in fresh' : m \in fresh \/ Named(m) = e
      /\ \A j \in Inst, x \in Exec : /\ Queued(j, x) => Queued(j, x)'
                                     /\ Queued(j, x)' => Queued(j, x) \/ x = e
      /\ Kept(e)' \/ (spent["raise"] # 0 /\ ~localAlive[i])
  <2>1. CASE Xadd(e) /\ UNCHANGED <<available, queue>>
    <3>1. PICK m \in Msg :
              /\ Named(m) = e /\ m \notin fresh \cup pending
              /\ \A j \in Inst : m \notin loop[j].inbox \cup {loop[j].msg, run[j].msg}
              /\ fresh' = fresh \cup {m} /\ UNCHANGED <<group, pending>>
      BY <1>1, <2>1, EntryAdded
    <3>2. FreshApart'
      BY <1>1, <3>1 DEF StreamInv, FreshApart
    <3>3. Kept(e)'
      BY <1>1, <3>1 DEF Kept
    <3> QED
      BY <1>1, <2>1, <3>1, <3>2, <3>3 DEF TypeOK, Queued
  <2>2. CASE (\E m \in fresh : Named(m) = e) /\ UNCHANGED <<available, queue, group, fresh, pending>>
    <3>1. FreshApart'
      BY <1>1, <2>2 DEF StreamInv, FreshApart
    <3>2. Kept(e)'
      BY <1>1, <2>2 DEF StreamInv, FreshApart, Kept
    <3> QED
      BY <1>1, <2>2, <3>1, <3>2 DEF TypeOK, Queued
  <2>3. CASE /\ queue' = [queue EXCEPT ![i] = Append(@, e)]
             /\ available' \in {available, [available EXCEPT ![i] = FALSE]}
             /\ UNCHANGED <<group, fresh, pending>>
    <3>1. /\ Append(queue[i], e) \in Seq(Exec)
          /\ \A x : (\E k \in 1 .. Len(Append(queue[i], e)) : Append(queue[i], e)[k] = x) <=> x = e \/ Queued(i, x)
      BY <1>1, Parts, QueueAppended DEF Queued
    <3>2. /\ queue' \in [Inst -> Seq(Exec)] /\ queue'[i] = Append(queue[i], e)
          /\ \A j \in Inst \ {i} : queue'[j] = queue[j]
      BY <1>1, <2>3, <3>1 DEF TypeOK
    <3>3. \A x : Queued(i, x)' <=> x = e \/ Queued(i, x)
      <4>1. \A x : Queued(i, x)' <=> \E k \in 1 .. Len(Append(queue[i], e)) : Append(queue[i], e)[k] = x
        BY <3>2 DEF Queued
      <4> QED
        BY <3>1, <4>1
    <3>4. \A j \in Inst \ {i}, x \in Exec : Queued(j, x)' = Queued(j, x)
      BY <3>2 DEF Queued
    <3>5. FreshApart'
      BY <1>1, <2>3 DEF StreamInv, FreshApart
    <3>6. Kept(e)' \/ (spent["raise"] # 0 /\ ~localAlive[i])
      BY <1>1, <3>3 DEF Kept, StreamInv, ConsumersLive
    <3>7. available' \in [Inst -> BOOLEAN]
      BY <1>1, <2>3 DEF TypeOK
    <3> QED
      <4>1. \A j \in Inst, x \in Exec : /\ Queued(j, x) => Queued(j, x)'
                                        /\ Queued(j, x)' => Queued(j, x) \/ x = e
        BY <3>3, <3>4
      <4>2. group' \in BOOLEAN /\ fresh' \subseteq Msg
        BY <1>1, <2>3 DEF TypeOK
      <4> QED
        BY <2>3, <3>2, <3>5, <3>6, <3>7, <4>1, <4>2
  <2> QED
    BY <2>1, <2>2, <2>3 DEF Submit, stream
<1>6. TypeOK'
  BY <1>1, <1>3, <1>5 DEF TypeOK
<1>7. Accepted'
  BY <1>1, <1>2, <1>3, <1>5 DEF StreamInv, Accepted
<1>8. ASSUME NEW x \in Exec, Kept(x), x # e PROVE Kept(x)'
  <2>1. CASE \E m \in fresh \cup pending : Named(m) = x /\ \A j \in Inst : loop[j].msg # m
    BY <1>1, <1>5, <2>1 DEF Kept
  <2>2. CASE \E j \in Inst : x \in handlers[j] \/ (localAlive[j] /\ Queued(j, x)) \/ run[j].exec = x
    BY <1>1, <1>3, <1>5, <1>8, <2>2 DEF Kept
  <2> QED
    BY <1>8, <2>1, <2>2 DEF Kept
<1>9. OpenKept' /\ OpenRemembered'
  <2>1. CASE spent["raise"] # 0
    BY <1>1, <2>1 DEF OpenKept, OpenRemembered, Calm
  <2>2. CASE spent["raise"] = 0
    <3>1. \A x \in Exec : Kept(x) => Kept(x)' \/ Ended(x)'
      BY <1>5, <1>8, <2>2
    <3> QED
      BY <1>1, <3>1, OpenStays DEF Calm, Alive
  <2> QED
    BY <2>1, <2>2
<1> QED
  BY <1>4, <1>5, <1>6, <1>7, <1>9 DEF WorkerInv, StreamInv

-----------------------------------------------------------------------------
(* The theorems.                                                           *)

LEMMA StutterKeeps == ASSUME WorkerInv, UNCHANGED vars PROVE WorkerInv'
BY DEF vars, WorkerInv, TypeOK, StreamInv, FreshApart, RunsNamed, Accepted, ServerKnown,
       ConsumersLive, OpenKept, OpenRemembered, Kept, Calm, Ended, Alive, Queued

LEMMA WorkerKept == ASSUME WorkerInv, [Next]_vars PROVE WorkerInv'
<1>1. ASSUME NEW i \in Inst, RedisLoop(i) PROVE WorkerInv'
  BY <1>1, TransportFailsKeeps, ConnectKeeps, PublishKeeps, ScanDoneKeeps, ReadGroupKeeps,
     ClaimKeeps, DrainDoneKeeps, AckKeeps, TakeMessageKeeps DEF RedisLoop
<1>2. ASSUME NEW i \in Inst, Start(i) \/ Crash(i) \/ TakeLocal(i) \/ Finish(i) PROVE WorkerInv'
  BY <1>2, StartKeeps, CrashKeeps, TakeLocalKeeps, SettleKeeps, SkipKeeps DEF Finish
<1>3. ASSUME NEW i \in Inst, NEW e \in Exec,
             \/ Persist(i, e) \/ Raise(i, e) \/ AcceptEvent(i, e) \/ RetryCall(i, e)
             \/ RecoverCall(i, e) \/ ReplayCall(i, e) \/ Submit(i, e)
      PROVE  WorkerInv'
  BY <1>3, PersistKeeps, RaiseKeeps, AcceptEventKeeps, OperatorKeeps, SubmitKeeps
<1> QED
  BY <1>1, <1>2, <1>3, RedisFailsKeeps, RedisReturnsKeeps, StutterKeeps DEF Next

LEMMA WorkerInvariant == Spec => []WorkerInv
<1>1. Init => WorkerInv
  BY WorkerInitially
<1>2. WorkerInv /\ [Next]_vars => WorkerInv'
  BY WorkerKept
<1> QED
  BY <1>1, <1>2, PTL DEF Spec

(* What is kept is in somebody's hands.                                    *)
LEMMA KeptIsInHand == ASSUME WorkerInv, NEW e \in Exec, Kept(e) PROVE InHand(e)
<1>1. \A i \in Inst : DOMAIN queue[i] = 1 .. Len(queue[i])
  BY Parts, LenProperties DEF WorkerInv
<1> QED
  BY <1>1 DEF Kept, InHand, Queued

(* While nothing crashes, no run raises and Redis keeps its data, no       *)
(* acknowledgement drops the last reference to an execution that is not at *)
(* its end.                                                                *)
THEOREM NothingIsDropped == Spec => []NeverDropped
<1>1. WorkerInv => NeverDropped
  <2> SUFFICES ASSUME WorkerInv PROVE NeverDropped
    OBVIOUS
  <2>1. TypeOK
    BY DEF WorkerInv
  <2>2. spent["crash"] \in Nat /\ spent["outage"] \in Nat /\ spent["raise"] \in Nat
    BY <2>1 DEF TypeOK, Resource
  <2>3. spent["crash"] + spent["outage"] + spent["raise"] = 0 => Calm
    BY <2>2 DEF Calm
  <2>4. Calm => \A e \in Exec : status[e] \in {"absent"} \cup Settled \/ InHand(e)
    BY KeptIsInHand DEF WorkerInv, OpenKept, Ended
  <2> QED
    BY <2>1, <2>3, <2>4 DEF NeverDropped
<1> QED
  BY <1>1, WorkerInvariant, PTL

(* Without Redis a resumable execution is in the memory of an instance, or *)
(* an instance has yet to start and will read the store, as long as no run *)
(* raises.                                                                 *)
THEOREM NothingIsForgotten == Spec => []NothingForgotten
<1>1. WorkerInv => NothingForgotten
  BY KeptIsInHand DEF WorkerInv, OpenRemembered, NothingForgotten
<1> QED
  BY <1>1, WorkerInvariant, PTL

=============================================================================
