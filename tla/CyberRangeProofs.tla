--------------------------- MODULE CyberRangeProofs ---------------------------
(* Theorems about CyberRange, for any tenants, numbers of cubes and loops, *)
(* limits and bounds.  Admissions is inductive: the order of the micro-  *)
(* tasks is part of it, and it is this order that keeps the counter        *)
(* within the limit.                                                       *)
EXTENDS CyberRange, FiniteSetTheorems, SequenceTheorems, TLAPS

-----------------------------------------------------------------------------
(* Lemmas about the queues.                                                *)

(* What a queue of loops has when its head is taken.                       *)
LEMMA TailTaken ==
    ASSUME NEW S, NEW s \in Seq(S), s # <<>>, Once(s)
    PROVE  /\ Tail(s) \in Seq(S) /\ Once(Tail(s))
           /\ Len(Tail(s)) = Len(s) - 1
           /\ Elements(Tail(s)) = Elements(s) \ {Head(s)}
           /\ Head(s) \in Elements(s)
           /\ \A A, B : Before(s, A, B) => Before(Tail(s), A, B)
           /\ \A A, B : Before(s, A, B) /\ Head(s) \in B => A \cap Elements(s) = {}
<1>1. /\ Tail(s) \in Seq(S) /\ Len(Tail(s)) = Len(s) - 1
      /\ \A i \in 1 .. Len(Tail(s)) : Tail(s)[i] = s[i + 1]
  BY HeadTailProperties
<1>2. Len(s) \in Nat /\ Len(s) >= 1 /\ Head(s) = s[1]
  BY <1>1, LenProperties
<1>3. Once(Tail(s))
  BY <1>1, <1>2 DEF Once
<1>4. ASSUME NEW x \in Elements(Tail(s)) PROVE x \in Elements(s) \ {Head(s)}
  <2>1. PICK i \in 1 .. Len(Tail(s)) : x = Tail(s)[i]
    BY <1>4 DEF Elements
  <2>2. i + 1 \in 1 .. Len(s) /\ x = s[i + 1] /\ i + 1 # 1 /\ 1 \in 1 .. Len(s)
    BY <1>1, <1>2, <2>1
  <2> QED
    BY <1>2, <2>2 DEF Elements, Once
<1>5. ASSUME NEW x \in Elements(s) \ {Head(s)} PROVE x \in Elements(Tail(s))
  <2>1. PICK i \in 1 .. Len(s) : x = s[i]
    BY <1>5 DEF Elements
  <2>2. i - 1 \in 1 .. Len(Tail(s)) /\ Tail(s)[i - 1] = s[i]
    BY <1>1, <1>2, <1>5, <2>1
  <2> QED
    BY <2>1, <2>2 DEF Elements
<1>6. ASSUME NEW A, NEW B, Before(s, A, B) PROVE Before(Tail(s), A, B)
  BY <1>1, <1>2, <1>6 DEF Before
<1>7. ASSUME NEW A, NEW B, Before(s, A, B), Head(s) \in B PROVE A \cap Elements(s) = {}
  <2> SUFFICES ASSUME NEW i \in 1 .. Len(s), s[i] \in A PROVE FALSE
    BY DEF Elements
  <2> QED
    BY <1>2, <1>7 DEF Before
<1>8. Head(s) \in Elements(s)
  BY <1>2 DEF Elements
<1> QED
  BY <1>1, <1>3, <1>4, <1>5, <1>6, <1>7, <1>8

(* What it has when another loop is put at its end.                        *)
LEMMA EndAppended ==
    ASSUME NEW S, NEW s \in Seq(S), NEW e \in S, Once(s), e \notin Elements(s)
    PROVE  /\ Append(s, e) \in Seq(S) /\ Once(Append(s, e))
           /\ Len(Append(s, e)) = Len(s) + 1
           /\ Elements(Append(s, e)) = Elements(s) \cup {e}
           /\ \A A, B : Before(s, A, B) /\ e \notin A => Before(Append(s, e), A, B)
           /\ \A A, B : Before(s, A, B) /\ e \notin B /\ B \cap Elements(s) = {}
                           => Before(Append(s, e), A, B)
<1> DEFINE t == Append(s, e)
<1>1. /\ t \in Seq(S) /\ Len(t) = Len(s) + 1
      /\ \A i \in 1 .. Len(s) : t[i] = s[i]
      /\ t[Len(s) + 1] = e
  BY AppendProperties
<1>2. Len(s) \in Nat
  BY LenProperties
<1> HIDE DEF t
<1>3. \A i \in 1 .. Len(t) : i \in 1 .. Len(s) \/ i = Len(s) + 1
  BY <1>1, <1>2
<1>4. Once(t)
  BY <1>1, <1>2, <1>3 DEF Once, Elements
<1>5. Elements(t) = Elements(s) \cup {e}
  <2>1. \A i \in 1 .. Len(s) : i \in 1 .. Len(t)
    BY <1>1, <1>2
  <2>2. Len(s) + 1 \in 1 .. Len(t)
    BY <1>1, <1>2
  <2> QED
    BY <1>1, <1>3, <2>1, <2>2 DEF Elements
<1>6. ASSUME NEW A, NEW B, Before(s, A, B), e \notin A PROVE Before(t, A, B)
  BY <1>1, <1>2, <1>3, <1>6 DEF Before
<1>7. ASSUME NEW A, NEW B, e \notin B, B \cap Elements(s) = {} PROVE Before(t, A, B)
  BY <1>1, <1>3, <1>7 DEF Before, Elements
<1> QED
  BY <1>1, <1>4, <1>5, <1>6, <1>7 DEF t

(* An order holds for what is left of two groups.                          *)
LEMMA BeforeFewer ==
    ASSUME NEW S, NEW s \in Seq(S), NEW A, NEW B, NEW C, NEW D,
           Before(s, A, B), C \cap Elements(s) \subseteq A, D \cap Elements(s) \subseteq B
    PROVE  Before(s, C, D)
BY DEF Before, Elements

(* A function on the numbers up to n is a sequence.                        *)
LEMMA ListIsSequence ==
    ASSUME NEW S, NEW n \in Nat, NEW s \in [1 .. n -> S]
    PROVE  s \in Seq(S) /\ Len(s) = n
<1>1. s \in Seq(S)
  BY SeqDef
<1>2. Len(s) \in Nat /\ DOMAIN s = 1 .. Len(s)
  BY <1>1, LenProperties
<1>3. 1 .. n = 1 .. Len(s)
  BY <1>2
<1>4. CASE Len(s) > n
  <2>1. Len(s) \in 1 .. n
    BY <1>2, <1>3, <1>4
  <2> QED
    BY <1>4, <2>1
<1>5. CASE Len(s) < n
  <2>1. n \in 1 .. Len(s)
    BY <1>2, <1>3, <1>5
  <2> QED
    BY <1>5, <2>1
<1> QED
  BY <1>1, <1>2, <1>4, <1>5

(* A queue of one loop, and an empty one.                                  *)
LEMMA OneElement ==
    ASSUME NEW S, NEW e \in S
    PROVE  <<e>> \in Seq(S) /\ Len(<<e>>) = 1 /\ Elements(<<e>>) = {e} /\ Once(<<e>>)
BY DEF Elements, Once

LEMMA NoElement ==
    ASSUME NEW S
    PROVE  <<>> \in Seq(S) /\ Elements(<<>>) = {} /\ Once(<<>>)
BY DEF Elements, Once

LEMMA EmptyHasNone ==
    ASSUME NEW s, Len(s) = 0
    PROVE  Elements(s) = {}
BY DEF Elements

(* There are finitely many loops.                                          *)
LEMMA LoopsFinite == IsFiniteSet(Loop)
<1> USE RangeAssumption
<1> DEFINE L(t) == {t} \X (1 .. MaxGen[t]) \X (1 .. Width)
<1>1. ASSUME NEW t \in Tenant PROVE IsFiniteSet(L(t))
  <2> DEFINE P == (1 .. MaxGen[t]) \X (1 .. Width)
             f == [p \in P |-> <<t, p[1], p[2]>>]
  <2>1. IsFiniteSet(P)
    <3>1. IsFiniteSet(1 .. MaxGen[t]) /\ IsFiniteSet(1 .. Width)
      BY FS_Interval
    <3> QED
      BY <3>1, FS_Product
  <2>2. f \in Surjection(P, L(t))
    <3>1. f \in [P -> L(t)]
      OBVIOUS
    <3>2. ASSUME NEW x \in L(t) PROVE \E p \in P : f[p] = x
      <4>1. PICK g \in 1 .. MaxGen[t], l \in 1 .. Width : x = <<t, g, l>>
        OBVIOUS
      <4>2. <<g, l>> \in P /\ f[<<g, l>>] = x
        BY <4>1
      <4> QED
        BY <4>2
    <3> QED
      BY <3>1, <3>2 DEF Surjection
  <2> QED
    BY <2>1, <2>2, FS_Surjection
<1>2. IsFiniteSet({L(t) : t \in Tenant})
  <2> DEFINE f == [t \in Tenant |-> L(t)]
  <2>1. f \in Surjection(Tenant, {L(t) : t \in Tenant})
    BY DEF Surjection
  <2> QED
    BY <2>1, FS_Surjection
<1>3. IsFiniteSet(UNION {L(t) : t \in Tenant})
  BY <1>1, <1>2, FS_UNION
<1> QED
  BY <1>3 DEF Loop

(* Counting with one loop more or less.                                    *)
LEMMA Counting ==
    ASSUME NEW T \in SUBSET Loop, NEW x \in Loop
    PROVE  /\ IsFiniteSet(T) /\ Cardinality(T) \in Nat
           /\ Cardinality(T \cup {x}) = IF x \in T THEN Cardinality(T) ELSE Cardinality(T) + 1
           /\ Cardinality(T \ {x}) = IF x \in T THEN Cardinality(T) - 1 ELSE Cardinality(T)
<1>1. IsFiniteSet(T)
  BY LoopsFinite, FS_Subset
<1> QED
  BY <1>1, FS_CardinalityType, FS_AddElement, FS_RemoveElement

(* A loop is named by its tenant, its generation and its number.           *)
LEMMA LoopNames ==
    ASSUME NEW id \in Loop
    PROVE  /\ TenantOf(id) \in Tenant /\ id[1] = TenantOf(id)
           /\ id[2] \in 1 .. MaxGen[id[1]]
           /\ id \in LoopsOf(id[1], id[2])
           /\ LoopsOf(id[1], id[2]) \subseteq Loop
<1>1. PICK t \in Tenant : id \in {t} \X (1 .. MaxGen[t]) \X (1 .. Width)
  BY DEF Loop
<1>2. PICK g \in 1 .. MaxGen[t], l \in 1 .. Width : id = <<t, g, l>>
  BY <1>1
<1> QED
  BY <1>2 DEF TenantOf, LoopsOf, Loop

(* The loops of one generation of a range.                                 *)
LEMMA LoopsOfRun ==
    ASSUME NEW t \in Tenant, NEW g \in 1 .. MaxGen[t]
    PROVE  /\ LoopsOf(t, g) \subseteq Loop
           /\ \A id \in LoopsOf(t, g) : id[1] = t /\ id[2] = g /\ TenantOf(id) = t
           /\ \A l \in 1 .. Width : <<t, g, l>> \in LoopsOf(t, g)
           /\ \A id \in LoopsOf(t, g) : \E l \in 1 .. Width : id = <<t, g, l>>
           /\ \A l, m \in 1 .. Width : <<t, g, l>> = <<t, g, m>> => l = m
BY DEF LoopsOf, Loop, TenantOf

-----------------------------------------------------------------------------
(* Nothing has been started yet.                                           *)
LEMMA RangeInitially == Init => Admissions
<1> SUFFICES ASSUME Init PROVE Admissions
  OBVIOUS
<1>1. TypeOK
  <2>1. queue \in Seq(Loop) /\ jobs \in Seq(Loop) /\ ticks \in Seq(Loop) /\ active \subseteq Loop
    BY NoElement DEF Init
  <2>2. burst \in BOOLEAN
    BY DEF Init
  <2> QED
    BY <2>1, <2>2, RangeAssumption DEF Init, TypeOK, Results, Ready
<1>2. Holders = {} /\ Woken = {}
  BY DEF Init, Holders, Woken
<1>3. Queues
  BY <1>2, NoElement, FS_EmptySet DEF Init, Queues, Ready
<1>4. PlacesPromised
  BY <1>2, NoElement, FS_EmptySet, RangeAssumption DEF Init, PlacesPromised, Before
<1>5. Generations
  BY DEF Init, Generations
<1> QED
  BY <1>1, <1>3, <1>4, <1>5 DEF Admissions

(* The head of jobs is taken.                                              *)
LEMMA HeadTaken ==
    ASSUME Admissions, NEW id, NEW p \in Ready, Due(id, p)
    PROVE  /\ id \in Loop /\ pc[id] = p
           /\ Tail(jobs) \in Seq(Loop) /\ Once(Tail(jobs))
           /\ Len(jobs) \in Nat /\ Len(Tail(jobs)) = Len(jobs) - 1
           /\ Elements(Tail(jobs)) = {o \in Loop : pc[o] \in Ready} \ {id}
           /\ \A A, B : Before(jobs, A, B) => Before(Tail(jobs), A, B)
           /\ \A A, B : Before(jobs, A, B) /\ id \in B => A \cap Elements(jobs) = {}
<1> USE DEF Admissions, Queues, TypeOK, Due
<1>1. jobs \in Seq(Loop) /\ jobs # <<>> /\ id = Head(jobs) /\ Once(jobs)
  OBVIOUS
<1> QED
  BY <1>1, TailTaken, LenProperties

(* The first waiter leaves the queue.                                      *)
LEMMA WaiterTaken ==
    ASSUME Admissions, queue # <<>>
    PROVE  /\ Head(queue) \in Loop /\ pc[Head(queue)] = "queued"
           /\ Tail(queue) \in Seq(Loop) /\ Once(Tail(queue))
           /\ Elements(Tail(queue)) = {o \in Loop : pc[o] = "queued"} \ {Head(queue)}
BY TailTaken DEF Admissions, Queues, TypeOK

(* What the lemmas on admissions are about: the queues and all that names  *)
(* their members.                                                          *)
QueueTypes ==
    /\ pc \in [Loop -> Ready \cup {"none", "queued", "child", "stillborn", "done"}]
    /\ count \in Int
    /\ queue \in Seq(Loop) /\ jobs \in Seq(Loop) /\ ticks \in Seq(Loop)

QueuesKept == QueueTypes' /\ Queues' /\ Generations' /\ PlacesPromised'

(* Nothing is left behind the last micro-task.                             *)
LEMMA NothingBehind ==
    ASSUME Admissions, NEW id, NEW p \in Ready, Due(id, p), Len(jobs) = 1
    PROVE  Elements(Tail(jobs)) = {}
<1>1. Len(Tail(jobs)) = 0
  BY HeadTaken
<1> QED
  BY <1>1, EmptyHasNone

(* A settled call of runCube is the only micro-task.                       *)
LEMMA SettledAlone ==
    ASSUME Admissions, NEW id, NEW p \in Ready, Due(id, p)
    PROVE  ~burst => \A o \in Elements(Tail(jobs)) : pc[o] # "settled"
<1> SUFFICES ASSUME ~burst, NEW o \in Elements(Tail(jobs)), pc[o] = "settled" PROVE FALSE
  OBVIOUS
<1>1. o \in Elements(jobs)
  BY HeadTaken DEF Admissions, Queues
<1>2. Len(jobs) = 1
  BY <1>1 DEF Admissions, PlacesPromised
<1> QED
  BY <1>2, NothingBehind

(* A loop that asks while others have been woken does not exist, so a loop *)
(* that finds a place can have it.                                         *)
LEMMA AcquireKeeps ==
    ASSUME Admissions, NEW id, Due(id, "next"), Matches(id), Acquire(id),
           UNCHANGED <<status, gen, ticks, burst>>
    PROVE  QueuesKept
<1> DEFINE rest == Tail(jobs)
<1>1. /\ id \in Loop /\ pc[id] = "next"
      /\ rest \in Seq(Loop) /\ Once(rest)
      /\ Len(jobs) \in Nat /\ Len(rest) = Len(jobs) - 1
      /\ Elements(rest) = {o \in Loop : pc[o] \in Ready} \ {id}
      /\ \A A, B : Before(jobs, A, B) => Before(rest, A, B)
      /\ \A A, B : Before(jobs, A, B) /\ id \in B => A \cap Elements(jobs) = {}
  BY HeadTaken DEF Ready
<1> HIDE DEF rest
<1>2. /\ TypeOK /\ Queues /\ Generations /\ PlacesPromised
      /\ pc \in [Loop -> Ready \cup {"none", "queued", "child", "stillborn", "done"}]
      /\ queue \in Seq(Loop) /\ ticks \in Seq(Loop) /\ jobs \in Seq(Loop) /\ count \in Int
  BY DEF Admissions, TypeOK
<1>3. \A o \in Loop : Matches(o)' = Matches(o)
  BY DEF Matches
<1>4. ~burst => \A o \in Elements(rest) : pc[o] # "settled"
  BY SettledAlone DEF Ready, rest
<1>5. CASE queue' = Append(queue, id) /\ pc' = [pc EXCEPT ![id] = "queued"] /\ jobs' = rest
           /\ UNCHANGED count
  <2>1. /\ queue' \in Seq(Loop) /\ Once(queue')
        /\ Elements(queue') = Elements(queue) \cup {id}
    <3>1. id \notin Elements(queue) /\ Once(queue)
      BY <1>1, <1>2 DEF Queues
    <3> QED
      BY <1>1, <1>2, <1>5, <3>1, EndAppended
  <2>2. /\ \A o \in Loop : pc'[o] = IF o = id THEN "queued" ELSE pc[o]
        /\ pc' \in [Loop -> Ready \cup {"none", "queued", "child", "stillborn", "done"}]
    BY <1>1, <1>2, <1>5
  <2>3. Holders' = Holders /\ Woken' = Woken
    BY <1>1, <2>2 DEF Holders, Woken
  <2>4. QueueTypes'
    BY <1>1, <1>2, <1>5, <2>1, <2>2 DEF QueueTypes
  <2>5. Queues'
    BY <1>1, <1>2, <1>5, <2>1, <2>2, <2>3 DEF Queues, Ready
  <2>6. Generations'
    BY <1>1, <1>2, <1>3, <2>2 DEF Generations
  <2>7. PlacesPromised'
    <3> SUFFICES ASSUME ~burst PROVE PlacesPromised'
      BY DEF PlacesPromised
    <3>1. Before(rest, Woken, Asking) /\ Before(rest, Asking, Late)
      BY <1>1, <1>2 DEF PlacesPromised
    <3>2. Asking' \subseteq Asking /\ Late' \subseteq Late
      BY <1>3, <2>2 DEF Asking, Late
    <3>3. Before(rest, Woken', Asking') /\ Before(rest, Asking', Late')
      BY <1>1, <2>3, <3>1, <3>2, BeforeFewer
    <3>4. \A o \in Elements(rest) : pc'[o] # "settled"
      BY <1>1, <1>4, <2>2
    <3> QED
      BY <1>2, <1>5, <2>3, <3>3, <3>4 DEF PlacesPromised
  <2> QED
    BY <2>4, <2>5, <2>6, <2>7 DEF QueuesKept
<1>6. CASE count < MaxActive /\ count' = count + 1 /\ pc' = [pc EXCEPT ![id] = "admitted"]
           /\ jobs' = Append(rest, id) /\ UNCHANGED queue
  <2>1. /\ jobs' \in Seq(Loop) /\ Once(jobs')
        /\ Elements(jobs') = Elements(rest) \cup {id}
        /\ \A A, B : Before(rest, A, B) /\ id \notin A => Before(jobs', A, B)
    BY <1>1, <1>6, EndAppended
  <2>2. /\ \A o \in Loop : pc'[o] = IF o = id THEN "admitted" ELSE pc[o]
        /\ pc' \in [Loop -> Ready \cup {"none", "queued", "child", "stillborn", "done"}]
    BY <1>1, <1>2, <1>6 DEF Ready
  <2>3. Holders' = Holders \cup {id} /\ id \notin Holders /\ Woken' = Woken
    BY <1>1, <2>2 DEF Holders, Woken
  <2>4. Cardinality(Holders') = Cardinality(Holders) + 1
    BY <1>1, <2>3, Counting DEF Holders
  <2>5. QueueTypes'
    BY <1>2, <1>6, <2>1, <2>2 DEF QueueTypes
  <2>6. Queues'
    BY <1>1, <1>2, <1>6, <2>1, <2>2, <2>4 DEF Queues, Ready
  <2>7. Generations'
    BY <1>1, <1>2, <1>3, <2>2 DEF Generations
  <2>8. PlacesPromised'
    <3> SUFFICES ASSUME ~burst PROVE PlacesPromised'
      BY DEF PlacesPromised
    <3>1. Before(rest, Woken, Asking) /\ Before(rest, Asking, Late)
      BY <1>1, <1>2 DEF PlacesPromised
    <3>2. Asking' \subseteq Asking /\ Late' \cap Elements(rest) \subseteq Late
      BY <1>1, <1>3, <2>2 DEF Asking, Late
    <3>3. Before(rest, Woken', Asking') /\ Before(rest, Asking', Late')
      BY <1>1, <2>3, <3>1, <3>2, BeforeFewer
    <3>4. id \notin Woken' /\ id \notin Asking'
      BY <2>2 DEF Woken, Asking
    <3>5. Before(jobs', Woken', Asking') /\ Before(jobs', Asking', Late')
      BY <2>1, <3>3, <3>4
    <3>6. Woken = {}
      <4>1. id \in Asking
        BY <1>1 DEF Asking
      <4>2. Woken \cap Elements(jobs) = {}
        BY <1>1, <1>2, <4>1 DEF PlacesPromised
      <4>3. Woken \subseteq Elements(jobs)
        BY <1>2 DEF Woken, Queues, Ready
      <4> QED
        BY <4>2, <4>3
    <3>7. Cardinality(Holders') + Cardinality(Woken') <= MaxActive
      <4>1. Cardinality(Woken') = 0
        BY <2>3, <3>6, FS_EmptySet
      <4>2. Cardinality(Holders) = count
        BY <1>2 DEF Queues
      <4> QED
        BY <1>2, <1>6, <2>4, <4>1, <4>2, RangeAssumption
    <3>8. \A o \in Elements(jobs') : pc'[o] # "settled"
      BY <1>1, <1>4, <2>1, <2>2
    <3> QED
      BY <3>5, <3>7, <3>8 DEF PlacesPromised
  <2> QED
    BY <2>5, <2>6, <2>7, <2>8 DEF QueuesKept
<1> QED
  BY <1>5, <1>6 DEF Acquire, rest

(* What is released goes to the first waiter, or was not promised.         *)
LEMMA ReleaseKeeps ==
    ASSUME Admissions, NEW id, NEW p \in {"admitted", "settled"}, Due(id, p),
           p = "admitted" => ~Matches(id), Release(id),
           UNCHANGED <<status, gen, ticks, burst>>
    PROVE  QueuesKept
<1> DEFINE rest == Tail(jobs)
<1>1. /\ id \in Loop /\ pc[id] = p
      /\ rest \in Seq(Loop) /\ Once(rest)
      /\ Len(jobs) \in Nat /\ Len(rest) = Len(jobs) - 1
      /\ Elements(rest) = {o \in Loop : pc[o] \in Ready} \ {id}
      /\ \A A, B : Before(jobs, A, B) => Before(rest, A, B)
      /\ \A A, B : Before(jobs, A, B) /\ id \in B => A \cap Elements(jobs) = {}
  BY HeadTaken DEF Ready
<1>2. p = "settled" /\ ~burst => Elements(rest) = {}
  <2>1. id \in Elements(jobs)
    BY <1>1 DEF Admissions, Queues, Ready
  <2>2. p = "settled" /\ ~burst => Len(jobs) = 1
    BY <1>1, <2>1 DEF Admissions, PlacesPromised
  <2> QED
    BY <2>2, NothingBehind DEF Ready
<1> HIDE DEF rest
<1>3. /\ TypeOK /\ Queues /\ Generations /\ PlacesPromised
      /\ pc \in [Loop -> Ready \cup {"none", "queued", "child", "stillborn", "done"}]
      /\ queue \in Seq(Loop) /\ ticks \in Seq(Loop) /\ jobs \in Seq(Loop) /\ count \in Int
  BY DEF Admissions, TypeOK
<1>4. \A o \in Loop : Matches(o)' = Matches(o)
  BY DEF Matches
<1>5. ~burst => \A o \in Elements(rest) : pc[o] # "settled"
  BY SettledAlone DEF Ready, rest
<1>6. p = "admitted" => id \in Late
  BY <1>1 DEF Late
<1>7. ~burst => /\ Before(rest, Woken, Asking) /\ Before(rest, Asking, Late)
                /\ p = "admitted" => Asking \cap Elements(rest) = {}
  <2>1. ~burst => Before(jobs, Woken, Asking) /\ Before(jobs, Asking, Late)
    BY <1>3 DEF PlacesPromised
  <2>2. Elements(rest) \subseteq Elements(jobs)
    BY <1>1, <1>3 DEF Queues
  <2> QED
    BY <1>1, <1>6, <2>1, <2>2
<1>8. CASE queue = <<>> /\ count' = count - 1 /\ jobs' = Append(rest, id)
           /\ pc' = [pc EXCEPT ![id] = "next"] /\ UNCHANGED queue
  <2>1. /\ jobs' \in Seq(Loop) /\ Once(jobs')
        /\ Elements(jobs') = Elements(rest) \cup {id}
        /\ \A A, B : Before(rest, A, B) /\ id \notin A => Before(jobs', A, B)
        /\ \A A, B : Before(rest, A, B) /\ id \notin B /\ B \cap Elements(rest) = {}
                        => Before(jobs', A, B)
    BY <1>1, <1>8, EndAppended
  <2>2. /\ \A o \in Loop : pc'[o] = IF o = id THEN "next" ELSE pc[o]
        /\ pc' \in [Loop -> Ready \cup {"none", "queued", "child", "stillborn", "done"}]
    BY <1>1, <1>3, <1>8 DEF Ready
  <2>3. Holders' = Holders \ {id} /\ id \in Holders /\ Woken' = Woken
    BY <1>1, <2>2 DEF Holders, Woken
  <2>4. Cardinality(Holders') = Cardinality(Holders) - 1 /\ Cardinality(Holders) \in Nat
    <3>1. Holders \in SUBSET Loop
      BY DEF Holders
    <3> QED
      BY <1>1, <2>3, <3>1, Counting
  <2>5. QueueTypes'
    BY <1>3, <1>8, <2>1, <2>2 DEF QueueTypes
  <2>6. Queues'
    BY <1>1, <1>3, <1>8, <2>1, <2>2, <2>4 DEF Queues, Ready
  <2>7. Generations'
    BY <1>1, <1>3, <1>4, <2>2 DEF Generations
  <2>8. PlacesPromised'
    <3> SUFFICES ASSUME ~burst PROVE PlacesPromised'
      BY DEF PlacesPromised
    <3>1. Asking' \cap Elements(rest) \subseteq Asking /\ Late' \subseteq Late
      BY <1>1, <1>4, <2>2 DEF Asking, Late
    <3>2. Before(rest, Woken', Asking') /\ Before(rest, Asking', Late')
      BY <1>1, <1>7, <2>3, <3>1, BeforeFewer
    <3>3. id \notin Woken' /\ id \notin Late'
      BY <2>2 DEF Woken, Late
    <3>4. Before(jobs', Woken', Asking')
      BY <2>1, <3>2, <3>3
    <3>5. Before(jobs', Asking', Late')
      <4>1. CASE p = "admitted"
        <5>1. id \notin Asking'
          BY <1>4, <1>6, <4>1 DEF Asking, Late
        <5> QED
          BY <2>1, <3>2, <5>1
      <4>2. CASE p = "settled"
        BY <1>2, <2>1, <3>2, <3>3, <4>2
      <4> QED
        BY <4>1, <4>2
    <3>6. Cardinality(Holders') + Cardinality(Woken') <= MaxActive
      <4>1. Cardinality(Woken) \in Nat
        BY <1>1, Counting DEF Woken
      <4>2. Cardinality(Holders) + Cardinality(Woken) <= MaxActive
        BY <1>3 DEF PlacesPromised
      <4> QED
        BY <2>3, <2>4, <4>1, <4>2, RangeAssumption
    <3>7. \A o \in Elements(jobs') : pc'[o] # "settled"
      BY <1>1, <1>5, <2>1, <2>2
    <3> QED
      BY <3>4, <3>5, <3>6, <3>7 DEF PlacesPromised
  <2> QED
    BY <2>5, <2>6, <2>7, <2>8 DEF QueuesKept
<1>9. CASE queue # <<>> /\ count' = count - 1
           /\ jobs' = Append(Append(rest, Head(queue)), id)
           /\ pc' = [pc EXCEPT ![Head(queue)] = "woken", ![id] = "next"]
           /\ queue' = Tail(queue)
  <2> DEFINE w == Head(queue)
             mid == Append(rest, w)
  <2>1. /\ w \in Loop /\ pc[w] = "queued"
        /\ queue' \in Seq(Loop) /\ Once(queue')
        /\ Elements(queue') = {o \in Loop : pc[o] = "queued"} \ {w}
    BY <1>9, WaiterTaken
  <2> HIDE DEF w
  <2>2. /\ mid \in Seq(Loop) /\ Once(mid)
        /\ Elements(mid) = Elements(rest) \cup {w}
        /\ \A A, B : Before(rest, A, B) /\ w \notin A => Before(mid, A, B)
        /\ \A A, B : Before(rest, A, B) /\ w \notin B /\ B \cap Elements(rest) = {}
                        => Before(mid, A, B)
    <3>1. w \notin Elements(rest)
      BY <1>1, <2>1 DEF Ready
    <3> QED
      BY <1>1, <2>1, <3>1, EndAppended
  <2>3. jobs' = Append(mid, id)
    BY <1>9 DEF w
  <2> HIDE DEF mid
  <2>4. /\ jobs' \in Seq(Loop) /\ Once(jobs')
        /\ Elements(jobs') = Elements(rest) \cup {w, id}
        /\ \A A, B : Before(mid, A, B) /\ id \notin A => Before(jobs', A, B)
        /\ \A A, B : Before(mid, A, B) /\ id \notin B /\ B \cap Elements(mid) = {}
                        => Before(jobs', A, B)
    <3>1. id \notin Elements(mid)
      BY <1>1, <2>1, <2>2 DEF Ready
    <3> QED
      BY <1>1, <2>2, <2>3, <3>1, EndAppended
  <2>5. /\ \A o \in Loop : pc'[o] = IF o = id THEN "next" ELSE IF o = w THEN "woken" ELSE pc[o]
        /\ pc' \in [Loop -> Ready \cup {"none", "queued", "child", "stillborn", "done"}]
        /\ w # id
    BY <1>1, <1>3, <1>9, <2>1 DEF Ready, w
  <2>6. /\ Holders' = Holders \ {id} /\ id \in Holders
        /\ Woken' = Woken \cup {w} /\ w \notin Woken
    BY <1>1, <2>1, <2>5 DEF Holders, Woken
  <2>7. /\ Cardinality(Holders') = Cardinality(Holders) - 1 /\ Cardinality(Holders) \in Nat
        /\ Cardinality(Woken') = Cardinality(Woken) + 1 /\ Cardinality(Woken) \in Nat
    <3>1. Holders \in SUBSET Loop /\ Woken \in SUBSET Loop
      BY DEF Holders, Woken
    <3> QED
      BY <1>1, <2>1, <2>6, <3>1, Counting
  <2>8. QueueTypes'
    <3>1. count' \in Int /\ ticks' \in Seq(Loop)
      BY <1>3, <1>9
    <3> QED
      BY <2>1, <2>4, <2>5, <3>1 DEF QueueTypes
  <2>9. Queues'
    <3>1. count' = Cardinality(Holders')
      BY <1>3, <1>9, <2>7 DEF Queues
    <3>2. Elements(jobs') = {o \in Loop : pc'[o] \in Ready}
      BY <1>1, <2>1, <2>4, <2>5 DEF Ready
    <3>3. Elements(queue') = {o \in Loop : pc'[o] = "queued"}
      BY <1>1, <2>1, <2>5
    <3>4. Elements(ticks') = {o \in Loop : pc'[o] = "stillborn"} /\ Once(ticks')
      BY <1>1, <1>3, <2>1, <2>5 DEF Queues
    <3> QED
      BY <2>1, <2>4, <3>1, <3>2, <3>3, <3>4 DEF Queues
  <2>10. Generations'
    BY <1>1, <1>3, <1>4, <2>1, <2>5 DEF Generations
  <2>11. PlacesPromised'
    <3> SUFFICES ASSUME ~burst PROVE PlacesPromised'
      BY DEF PlacesPromised
    <3>1. /\ Woken' \cap Elements(rest) \subseteq Woken
          /\ Asking' \cap Elements(rest) \subseteq Asking /\ Late' \subseteq Late
      BY <1>1, <1>4, <2>1, <2>5 DEF Asking, Late, Woken, Ready
    <3>2. Before(rest, Woken', Asking') /\ Before(rest, Asking', Late')
      BY <1>1, <1>7, <3>1, BeforeFewer
    <3>3. id \notin Woken' /\ id \notin Late' /\ w \notin Asking' /\ w \notin Late'
      BY <2>5 DEF Woken, Late, Asking
    <3>4. Asking' \cap Elements(rest) = {}
      BY <1>2, <1>7, <3>1
    <3>5. Before(jobs', Woken', Asking')
      BY <2>2, <2>4, <3>2, <3>3, <3>4
    <3>6. Before(jobs', Asking', Late')
      <4>1. Before(mid, Asking', Late')
        BY <2>2, <3>2, <3>3
      <4>2. CASE p = "admitted"
        <5>1. id \notin Asking'
          BY <1>4, <1>6, <4>2 DEF Asking, Late
        <5> QED
          BY <2>4, <4>1, <5>1
      <4>3. CASE p = "settled"
        BY <1>2, <2>2, <2>4, <3>3, <4>1, <4>3
      <4> QED
        BY <4>2, <4>3
    <3>7. Cardinality(Holders') + Cardinality(Woken') <= MaxActive
      <4>1. Cardinality(Holders) + Cardinality(Woken) <= MaxActive
        BY <1>3 DEF PlacesPromised
      <4> QED
        BY <2>7, <4>1, RangeAssumption
    <3>8. \A o \in Elements(jobs') : pc'[o] # "settled"
      BY <1>1, <1>5, <2>1, <2>4, <2>5
    <3> QED
      BY <3>5, <3>6, <3>7, <3>8 DEF PlacesPromised
  <2> QED
    BY <2>8, <2>9, <2>10, <2>11 DEF QueuesKept
<1> QED
  BY <1>8, <1>9 DEF Release, rest

-----------------------------------------------------------------------------
(* The actions.                                                            *)

RunTypes ==
    /\ status \in [Tenant -> {"READY", "RUNNING", "PAUSED", "COMPLETED"}]
    /\ gen \in [Tenant -> Nat] /\ \A t \in Tenant : gen[t] <= MaxGen[t]
    /\ next \in [Tenant -> Nat]
    /\ cube \in [Tenant -> [Cube -> {"IDLE", "RUNNING", "PAUSED"} \cup Results]]
    /\ active \subseteq Loop
    /\ item \in [Loop -> Nat]
    /\ result \in [Loop -> Results]
    /\ burst \in BOOLEAN

(* The two halves of the types make the whole.                             *)
LEMMA TypesSplit == TypeOK <=> RunTypes /\ QueueTypes
BY DEF TypeOK, RunTypes, QueueTypes

(* The parts make the whole after a step.                                  *)
LEMMA PartsKept ==
    ASSUME RunTypes', QueuesKept
    PROVE  Admissions'
BY TypesSplit DEF QueuesKept, Admissions, TypeOK, RunTypes, QueueTypes

LEMMA TakeKeeps ==
    ASSUME Admissions, NEW id \in Loop, Take(id)
    PROVE  Admissions'
<1>1. QueuesKept
  BY AcquireKeeps DEF Take
<1>2. RunTypes
  BY TypesSplit DEF Admissions
<1>3. RunTypes'
  <2>1. TenantOf(id) \in Tenant
    BY LoopNames
  <2>2. next' \in [Tenant -> Nat] /\ item' \in [Loop -> Nat]
    BY <1>2, <2>1 DEF Take, RunTypes
  <2> QED
    BY <1>2, <2>2 DEF Take, RunTypes
<1> QED
  BY <1>1, <1>3, PartsKept

(* Types of what a call of runCube leaves.                                 *)
LEMMA ForgetTypes ==
    ASSUME RunTypes, NEW id \in Loop, Forget(id)
    PROVE  item' \in [Loop -> Nat] /\ result' \in [Loop -> Results]
BY DEF RunTypes, Forget, Results

LEMMA WithdrawKeeps ==
    ASSUME Admissions, NEW id \in Loop, Withdraw(id)
    PROVE  Admissions'
<1>1. QueuesKept
  BY ReleaseKeeps DEF Withdraw
<1>2. RunTypes
  BY TypesSplit DEF Admissions
<1>3. item' \in [Loop -> Nat] /\ result' \in [Loop -> Results]
  BY <1>2, ForgetTypes DEF Withdraw
<1>4. RunTypes'
  BY <1>2, <1>3 DEF Withdraw, RunTypes
<1> QED
  BY <1>1, <1>4, PartsKept

LEMMA SettleKeeps ==
    ASSUME Admissions, NEW id \in Loop, Settle(id)
    PROVE  Admissions'
<1>1. QueuesKept
  BY ReleaseKeeps DEF Settle
<1>2. RunTypes
  BY TypesSplit DEF Admissions
<1>3. item' \in [Loop -> Nat] /\ result' \in [Loop -> Results]
  BY <1>2, ForgetTypes DEF Settle
<1>4. cube' \in [Tenant -> [Cube -> {"IDLE", "RUNNING", "PAUSED"} \cup Results]]
  <2> DEFINE S == {"IDLE", "RUNNING", "PAUSED"} \cup Results
             c == cube[TenantOf(id)]
  <2>1. cube \in [Tenant -> [Cube -> S]] /\ result[id] \in S /\ TenantOf(id) \in Tenant
    BY <1>2, LoopNames DEF RunTypes
  <2>2. c \in [Cube -> S]
    BY <2>1
  <2>3. [c EXCEPT ![item[id]] = result[id]] \in [Cube -> S]
    BY <2>1, <2>2
  <2>4. cube' = [cube EXCEPT ![TenantOf(id)] =
                     IF Matches(id) THEN [c EXCEPT ![item[id]] = result[id]] ELSE c]
    BY DEF Settle
  <2> HIDE DEF S, c
  <2>5. cube' \in [Tenant -> [Cube -> S]]
    BY <2>1, <2>2, <2>3, <2>4
  <2> QED
    BY <2>5 DEF S
<1>5. RunTypes'
  BY <1>2, <1>3, <1>4 DEF Settle, RunTypes
<1> QED
  BY <1>1, <1>5, PartsKept

(* The end of a loop changes nothing for the loops that go on: the range is *)
(* COMPLETED only when none of its present run is left.                    *)
LEMMA OthersGoOn ==
    ASSUME Admissions, NEW id \in Loop, Leave(id), NEW o \in Loop, pc'[o] # "done"
    PROVE  Matches(o)' = Matches(o)
<1>1. RunTypes /\ TenantOf(id) \in Tenant /\ UNCHANGED gen
  BY TypesSplit, LoopNames DEF Admissions, Leave
<1>2. CASE status' = status
  BY <1>1, <1>2 DEF Matches
<1>3. CASE /\ Matches(id) /\ \A q \in LoopsOf(id[1], id[2]) : pc'[q] = "done"
           /\ status' = [status EXCEPT ![TenantOf(id)] = "COMPLETED"]
  <2>1. CASE TenantOf(o) # TenantOf(id)
    <3>1. status'[TenantOf(o)] = status[TenantOf(o)]
      BY <1>1, <1>3, <2>1, LoopNames DEF RunTypes
    <3> QED
      BY <1>1, <3>1 DEF Matches
  <2>2. CASE TenantOf(o) = TenantOf(id)
    <3>1. o[1] = id[1] /\ o \in LoopsOf(o[1], o[2])
      BY <2>2, LoopNames
    <3>2. o[2] # id[2]
      BY <1>3, <3>1
    <3>3. gen[TenantOf(o)] = id[2] /\ gen'[TenantOf(o)] = id[2]
      BY <1>1, <1>3, <2>2 DEF Matches
    <3> QED
      BY <3>2, <3>3 DEF Matches
  <2> QED
    BY <2>1, <2>2
<1> QED
  BY <1>1, <1>2, <1>3 DEF Leave, RunTypes

LEMMA LeaveKeeps ==
    ASSUME Admissions, NEW id \in Loop, Leave(id)
    PROVE  Admissions'
<1> DEFINE rest == Tail(jobs)
<1>1. /\ pc[id] = "next"
      /\ rest \in Seq(Loop) /\ Once(rest)
      /\ Len(jobs) \in Nat /\ Len(rest) = Len(jobs) - 1
      /\ Elements(rest) = {o \in Loop : pc[o] \in Ready} \ {id}
      /\ \A A, B : Before(jobs, A, B) => Before(rest, A, B)
  BY HeadTaken DEF Ready, Leave
<1>2. /\ RunTypes /\ QueueTypes /\ Queues /\ Generations /\ PlacesPromised
      /\ TenantOf(id) \in Tenant
  BY TypesSplit, LoopNames DEF Admissions
<1>3. ~burst => \A o \in Elements(rest) : pc[o] # "settled"
  BY SettledAlone DEF Ready, Leave, rest
<1>4. /\ jobs' = rest /\ pc' = [pc EXCEPT ![id] = "done"]
      /\ UNCHANGED <<gen, cube, active, item, result, count, queue, ticks, burst>>
  BY DEF Leave
<1> HIDE DEF rest
<1>5. /\ \A o \in Loop : pc'[o] = IF o = id THEN "done" ELSE pc[o]
      /\ pc' \in [Loop -> Ready \cup {"none", "queued", "child", "stillborn", "done"}]
  BY <1>2, <1>4 DEF QueueTypes
<1>6. RunTypes'
  <2>1. next' \in [Tenant -> Nat]
    BY <1>2 DEF Leave, RunTypes
  <2>2. status' \in [Tenant -> {"READY", "RUNNING", "PAUSED", "COMPLETED"}]
    BY <1>2 DEF Leave, RunTypes
  <2> QED
    BY <1>2, <1>4, <2>1, <2>2 DEF RunTypes
<1>7. QueueTypes'
  BY <1>1, <1>2, <1>4, <1>5 DEF QueueTypes
<1>8. Holders' = Holders /\ Woken' = Woken
  BY <1>1, <1>5 DEF Holders, Woken
<1>9. Queues'
  BY <1>1, <1>2, <1>4, <1>5, <1>8 DEF Queues, Ready
<1>10. \A o \in Loop : pc'[o] # "done" => Matches(o)' = Matches(o)
  BY OthersGoOn
<1>11. Generations'
  BY <1>1, <1>2, <1>4, <1>5, <1>10 DEF Generations
<1>12. PlacesPromised'
  <2> SUFFICES ASSUME ~burst PROVE PlacesPromised'
    BY <1>4 DEF PlacesPromised
  <2>1. Before(rest, Woken, Asking) /\ Before(rest, Asking, Late)
    BY <1>1, <1>2 DEF PlacesPromised
  <2>2. Asking' \subseteq Asking /\ Late' \subseteq Late
    BY <1>5, <1>10 DEF Asking, Late
  <2>3. Before(rest, Woken', Asking') /\ Before(rest, Asking', Late')
    BY <1>1, <1>8, <2>1, <2>2, BeforeFewer
  <2>4. \A o \in Elements(rest) : pc'[o] # "settled"
    BY <1>1, <1>3, <1>5
  <2> QED
    BY <1>2, <1>4, <1>8, <2>3, <2>4 DEF PlacesPromised
<1> QED
  BY <1>6, <1>7, <1>9, <1>11, <1>12, PartsKept DEF QueuesKept

LEMMA WakeKeeps ==
    ASSUME Admissions, NEW id \in Loop, Wake(id)
    PROVE  Admissions'
<1> DEFINE rest == Tail(jobs)
<1>1. /\ pc[id] = "woken"
      /\ rest \in Seq(Loop) /\ Once(rest)
      /\ Len(jobs) \in Nat /\ Len(rest) = Len(jobs) - 1
      /\ Elements(rest) = {o \in Loop : pc[o] \in Ready} \ {id}
      /\ \A A, B : Before(jobs, A, B) => Before(rest, A, B)
  BY HeadTaken DEF Ready, Wake
<1>2. RunTypes /\ QueueTypes /\ Queues /\ Generations /\ PlacesPromised
  BY TypesSplit DEF Admissions
<1>3. ~burst => \A o \in Elements(rest) : pc[o] # "settled"
  BY SettledAlone DEF Ready, Wake, rest
<1>4. /\ count' = count + 1 /\ jobs' = Append(rest, id)
      /\ pc' = [pc EXCEPT ![id] = "admitted"]
      /\ UNCHANGED <<status, gen, next, cube, active, item, result, queue, ticks, burst>>
  BY DEF Wake
<1> HIDE DEF rest
<1>5. /\ jobs' \in Seq(Loop) /\ Once(jobs')
      /\ Elements(jobs') = Elements(rest) \cup {id}
      /\ \A A, B : Before(rest, A, B) /\ id \notin A => Before(jobs', A, B)
  BY <1>1, <1>4, EndAppended
<1>6. /\ \A o \in Loop : pc'[o] = IF o = id THEN "admitted" ELSE pc[o]
      /\ pc' \in [Loop -> Ready \cup {"none", "queued", "child", "stillborn", "done"}]
  BY <1>2, <1>4 DEF QueueTypes, Ready
<1>7. /\ Holders' = Holders \cup {id} /\ id \notin Holders
      /\ Woken' = Woken \ {id} /\ id \in Woken
  BY <1>1, <1>6 DEF Holders, Woken
<1>8. /\ Cardinality(Holders') = Cardinality(Holders) + 1 /\ Cardinality(Holders) \in Nat
      /\ Cardinality(Woken') = Cardinality(Woken) - 1 /\ Cardinality(Woken) \in Nat
  <2>1. Holders \in SUBSET Loop /\ Woken \in SUBSET Loop
    BY DEF Holders, Woken
  <2> QED
    BY <1>7, <2>1, Counting
<1>9. RunTypes' /\ QueueTypes'
  BY <1>2, <1>4, <1>5, <1>6 DEF RunTypes, QueueTypes
<1>10. Queues'
  BY <1>1, <1>2, <1>4, <1>5, <1>6, <1>8 DEF Queues, Ready
<1>11. \A o \in Loop : Matches(o)' = Matches(o)
  BY <1>4 DEF Matches
<1>12. Generations'
  BY <1>1, <1>2, <1>4, <1>6, <1>11 DEF Generations
<1>13. PlacesPromised'
  <2> SUFFICES ASSUME ~burst PROVE PlacesPromised'
    BY <1>4 DEF PlacesPromised
  <2>1. Before(rest, Woken, Asking) /\ Before(rest, Asking, Late)
    BY <1>1, <1>2 DEF PlacesPromised
  <2>2. /\ Woken' \subseteq Woken /\ Asking' \subseteq Asking
        /\ Late' \cap Elements(rest) \subseteq Late
    BY <1>1, <1>6, <1>7, <1>11 DEF Asking, Late
  <2>3. Before(rest, Woken', Asking') /\ Before(rest, Asking', Late')
    BY <1>1, <2>1, <2>2, BeforeFewer
  <2>4. id \notin Woken' /\ id \notin Asking'
    BY <1>6 DEF Woken, Asking
  <2>5. Before(jobs', Woken', Asking') /\ Before(jobs', Asking', Late')
    BY <1>5, <2>3, <2>4
  <2>6. Cardinality(Holders') + Cardinality(Woken') <= MaxActive
    <3>1. Cardinality(Holders) + Cardinality(Woken) <= MaxActive
      BY <1>2 DEF PlacesPromised
    <3> QED
      BY <1>8, <3>1, RangeAssumption
  <2>7. \A o \in Elements(jobs') : pc'[o] # "settled"
    BY <1>1, <1>3, <1>5, <1>6
  <2> QED
    BY <2>5, <2>6, <2>7 DEF PlacesPromised
<1> QED
  BY <1>9, <1>10, <1>12, <1>13, PartsKept DEF QueuesKept

LEMMA SpawnKeeps ==
    ASSUME Admissions, NEW id \in Loop, Spawn(id)
    PROVE  Admissions'
<1> DEFINE rest == Tail(jobs)
<1>1. /\ pc[id] = "admitted"
      /\ rest \in Seq(Loop) /\ Once(rest)
      /\ Len(jobs) \in Nat /\ Len(rest) = Len(jobs) - 1
      /\ Elements(rest) = {o \in Loop : pc[o] \in Ready} \ {id}
      /\ \A A, B : Before(jobs, A, B) => Before(rest, A, B)
  BY HeadTaken DEF Ready, Spawn
<1>2. RunTypes /\ QueueTypes /\ Queues /\ Generations /\ PlacesPromised
  BY TypesSplit DEF Admissions
<1>3. ~burst => \A o \in Elements(rest) : pc[o] # "settled"
  BY SettledAlone DEF Ready, Spawn, rest
<1>4. PICK step \in {"child", "stillborn"} :
         /\ pc' = [pc EXCEPT ![id] = step]
         /\ ticks' = IF step = "child" THEN ticks ELSE Append(ticks, id)
  BY DEF Spawn
<1>5. /\ jobs' = rest /\ active' = active \cup {id}
      /\ UNCHANGED <<status, gen, next, item, result, count, queue, burst>>
  BY DEF Spawn
<1> HIDE DEF rest
<1>6. /\ \A o \in Loop : pc'[o] = IF o = id THEN step ELSE pc[o]
      /\ pc' \in [Loop -> Ready \cup {"none", "queued", "child", "stillborn", "done"}]
  BY <1>2, <1>4 DEF QueueTypes
<1>7. /\ ticks' \in Seq(Loop) /\ Once(ticks')
      /\ Elements(ticks') = {o \in Loop : pc'[o] = "stillborn"}
  <2>1. id \notin Elements(ticks) /\ ticks \in Seq(Loop) /\ Once(ticks)
        /\ Elements(ticks) = {o \in Loop : pc[o] = "stillborn"}
    BY <1>1, <1>2 DEF Queues, QueueTypes
  <2>2. CASE step = "child"
    BY <1>1, <1>4, <1>6, <2>1, <2>2
  <2>3. CASE step = "stillborn"
    <3>1. /\ ticks' \in Seq(Loop) /\ Once(ticks')
          /\ Elements(ticks') = Elements(ticks) \cup {id}
      BY <1>4, <2>1, <2>3, EndAppended
    <3> QED
      BY <1>6, <2>1, <2>3, <3>1
  <2> QED
    BY <2>2, <2>3
<1>8. Holders' = Holders /\ Woken' = Woken
  BY <1>1, <1>6 DEF Holders, Woken
<1>9. RunTypes'
  <2> DEFINE S == {"IDLE", "RUNNING", "PAUSED"} \cup Results
             c == cube[TenantOf(id)]
  <2>1. cube \in [Tenant -> [Cube -> S]] /\ TenantOf(id) \in Tenant /\ "RUNNING" \in S
    BY <1>2, LoopNames DEF RunTypes
  <2>2. c \in [Cube -> S]
    BY <2>1
  <2>3. [c EXCEPT ![item[id]] = "RUNNING"] \in [Cube -> S]
    BY <2>1, <2>2
  <2>4. cube' = [cube EXCEPT ![TenantOf(id)] = [c EXCEPT ![item[id]] = "RUNNING"]]
    BY DEF Spawn
  <2> HIDE DEF S, c
  <2>5. cube' \in [Tenant -> [Cube -> S]]
    BY <2>1, <2>3, <2>4
  <2> QED
    BY <1>2, <1>5, <2>5 DEF RunTypes, S
<1>10. QueueTypes'
  BY <1>1, <1>2, <1>5, <1>6, <1>7 DEF QueueTypes
<1>11. Queues'
  BY <1>1, <1>2, <1>5, <1>6, <1>7, <1>8 DEF Queues, Ready
<1>12. \A o \in Loop : Matches(o)' = Matches(o)
  BY <1>5 DEF Matches
<1>13. Generations'
  BY <1>1, <1>2, <1>5, <1>6, <1>12 DEF Generations
<1>14. PlacesPromised'
  <2> SUFFICES ASSUME ~burst PROVE PlacesPromised'
    BY <1>5 DEF PlacesPromised
  <2>1. Before(rest, Woken, Asking) /\ Before(rest, Asking, Late)
    BY <1>1, <1>2 DEF PlacesPromised
  <2>2. Asking' \subseteq Asking /\ Late' \subseteq Late
    BY <1>6, <1>12 DEF Asking, Late
  <2>3. Before(rest, Woken', Asking') /\ Before(rest, Asking', Late')
    BY <1>1, <1>8, <2>1, <2>2, BeforeFewer
  <2>4. \A o \in Elements(rest) : pc'[o] # "settled"
    BY <1>1, <1>3, <1>6
  <2> QED
    BY <1>2, <1>5, <1>8, <2>3, <2>4 DEF PlacesPromised
<1> QED
  BY <1>9, <1>10, <1>11, <1>13, <1>14, PartsKept DEF QueuesKept

(* Between two turns of the event loop.                                    *)
LEMMA NothingDue ==
    ASSUME Admissions, jobs = <<>>
    PROVE  \A id \in Loop : pc[id] \notin Ready
BY NoElement DEF Admissions, Queues

LEMMA ChildEndsKeeps ==
    ASSUME Admissions, NEW id \in Loop, ChildEnds(id)
    PROVE  Admissions'
<1>1. RunTypes /\ QueueTypes /\ Queues /\ Generations /\ PlacesPromised
  BY TypesSplit DEF Admissions
<1>2. \A o \in Loop : pc[o] \notin Ready
  BY NothingDue DEF ChildEnds, Quiet
<1>3. /\ pc[id] = "child" /\ jobs' = <<id>> /\ pc' = [pc EXCEPT ![id] = "settled"]
      /\ UNCHANGED <<status, gen, next, cube, active, item, count, queue, ticks, burst>>
  BY DEF ChildEnds
<1>4. jobs' \in Seq(Loop) /\ Len(jobs') = 1 /\ Elements(jobs') = {id} /\ Once(jobs')
  BY <1>3, OneElement
<1>5. /\ \A o \in Loop : pc'[o] = IF o = id THEN "settled" ELSE pc[o]
      /\ pc' \in [Loop -> Ready \cup {"none", "queued", "child", "stillborn", "done"}]
  BY <1>1, <1>3 DEF QueueTypes, Ready
<1>6. RunTypes'
  <2>1. result' \in [Loop -> Results]
    BY <1>1 DEF ChildEnds, RunTypes
  <2> QED
    BY <1>1, <1>3, <2>1 DEF RunTypes
<1>7. QueueTypes'
  BY <1>1, <1>3, <1>4, <1>5 DEF QueueTypes
<1>8. Holders' = Holders /\ Woken' = Woken
  BY <1>3, <1>5 DEF Holders, Woken
<1>9. Queues'
  BY <1>1, <1>2, <1>3, <1>4, <1>5, <1>8 DEF Queues, Ready
<1>10. Generations'
  BY <1>1, <1>3, <1>5 DEF Generations, Matches
<1>11. Asking' = {} /\ Late' = {}
  BY <1>2, <1>5 DEF Asking, Late, Ready
<1>12. PlacesPromised'
  BY <1>1, <1>3, <1>4, <1>8, <1>11 DEF PlacesPromised, Before
<1> QED
  BY <1>6, <1>7, <1>9, <1>10, <1>12, PartsKept DEF QueuesKept

LEMMA SpawnErrorsKeeps ==
    ASSUME Admissions, SpawnErrors
    PROVE  Admissions'
<1>1. RunTypes /\ QueueTypes /\ Queues /\ Generations /\ PlacesPromised
  BY TypesSplit DEF Admissions
<1>2. \A o \in Loop : pc[o] \notin Ready
  BY NothingDue DEF SpawnErrors
<1>3. /\ jobs' = ticks /\ ticks' = <<>> /\ burst' = (burst \/ Len(ticks) > 1)
      /\ pc' = [o \in Loop |-> IF pc[o] = "stillborn" THEN "settled" ELSE pc[o]]
      /\ UNCHANGED <<status, gen, next, cube, active, item, count, queue>>
  BY DEF SpawnErrors
<1>4. ticks' \in Seq(Loop) /\ Elements(ticks') = {} /\ Once(ticks')
  BY <1>3, NoElement
<1>5. /\ \A o \in Loop : pc'[o] = IF pc[o] = "stillborn" THEN "settled" ELSE pc[o]
      /\ pc' \in [Loop -> Ready \cup {"none", "queued", "child", "stillborn", "done"}]
  BY <1>1, <1>3 DEF QueueTypes, Ready
<1>6. RunTypes'
  <2>1. result' \in [Loop -> Results]
    BY <1>1 DEF SpawnErrors, RunTypes, Results
  <2>2. burst' \in BOOLEAN
    BY <1>3
  <2> QED
    BY <1>1, <1>3, <2>1, <2>2 DEF RunTypes
<1>7. QueueTypes'
  BY <1>1, <1>3, <1>4, <1>5 DEF QueueTypes
<1>8. Holders' = Holders /\ Woken' = Woken
  BY <1>5 DEF Holders, Woken
<1>9. Queues'
  BY <1>1, <1>2, <1>3, <1>4, <1>5, <1>8 DEF Queues, Ready
<1>10. Generations'
  BY <1>1, <1>3, <1>5 DEF Generations, Matches
<1>11. Asking' = {} /\ Late' = {}
  BY <1>2, <1>5 DEF Asking, Late, Ready
<1>12. PlacesPromised'
  <2> SUFFICES ASSUME ~burst' PROVE PlacesPromised'
    BY DEF PlacesPromised
  <2>1. ~burst /\ Len(jobs') = 1
    <3>1. ~(Len(ticks) > 1)
      BY <1>3
    <3>2. Len(ticks) \in Nat /\ Len(ticks) # 0
      <4>1. ticks \in Seq(Loop) /\ ticks # <<>>
        BY <1>1 DEF SpawnErrors, QueueTypes
      <4> QED
        BY <4>1, EmptySeq
    <3>3. Len(ticks) = 1
      BY <3>1, <3>2
    <3>4. jobs' = ticks
      BY <1>3
    <3>5. ~burst
      BY <1>3
    <3> QED
      BY <3>3, <3>4, <3>5
  <2> QED
    BY <1>1, <1>8, <1>11, <2>1 DEF PlacesPromised, Before
<1> QED
  BY <1>6, <1>7, <1>9, <1>10, <1>12, PartsKept DEF QueuesKept

(* A new generation begins between two turns, and none of its loops exists *)
(* unless the run is started.                                              *)
LEMMA CallKeeps ==
    ASSUME Admissions, Quiet, RunTypes',
           UNCHANGED <<pc, count, queue, jobs, ticks, burst>>,
           \A t \in Tenant : gen'[t] = gen[t] + 1 \/ (gen'[t] = gen[t] /\ status'[t] = status[t])
    PROVE  Admissions'
<1>1. RunTypes /\ QueueTypes /\ Queues /\ Generations /\ PlacesPromised
  BY TypesSplit DEF Admissions
<1>2. \A o \in Loop : pc[o] \notin Ready
  BY NothingDue DEF Quiet
<1>3. QueueTypes' /\ Queues'
  BY <1>1 DEF QueueTypes, Queues, Holders
<1>4. Generations'
  <2> SUFFICES ASSUME NEW o \in Loop, pc[o] # "none"
               PROVE  /\ o[2] <= gen'[TenantOf(o)]
                      /\ pc[o] # "done" /\ o[2] = gen'[TenantOf(o)] => Matches(o)'
    BY DEF Generations
  <2>1. /\ TenantOf(o) \in Tenant /\ o[2] \in Nat /\ gen[TenantOf(o)] \in Nat
        /\ o[2] <= gen[TenantOf(o)]
        /\ pc[o] # "done" /\ o[2] = gen[TenantOf(o)] => Matches(o)
    BY <1>1, LoopNames, RangeAssumption DEF RunTypes, Generations
  <2>2. CASE gen'[TenantOf(o)] = gen[TenantOf(o)] + 1
    BY <2>1, <2>2
  <2>3. CASE gen'[TenantOf(o)] = gen[TenantOf(o)] /\ status'[TenantOf(o)] = status[TenantOf(o)]
    BY <2>1, <2>3 DEF Matches
  <2> QED
    BY <2>1, <2>2, <2>3
<1>5. PlacesPromised'
  <2>1. Elements(jobs) = {} /\ Holders' = Holders /\ Woken' = Woken
    BY NoElement DEF Quiet, Holders, Woken
  <2>2. \A A, B : Before(jobs, A, B)
    <3>1. Len(jobs) = 0
      BY EmptySeq DEF Quiet
    <3> QED
      BY <3>1 DEF Before
  <2> QED
    BY <1>1, <2>1, <2>2 DEF PlacesPromised
<1> QED
  BY <1>3, <1>4, <1>5, PartsKept DEF QueuesKept

LEMMA PauseKeeps ==
    ASSUME Admissions, NEW t \in Tenant, Pause(t)
    PROVE  Admissions'
<1>1. RunTypes
  BY TypesSplit DEF Admissions
<1>2. RunTypes'
  <2> DEFINE S == {"IDLE", "RUNNING", "PAUSED"} \cup Results
             held == [c \in Cube |-> IF cube[t][c] = "RUNNING" THEN "PAUSED" ELSE cube[t][c]]
  <2>1. cube[t] \in [Cube -> S]
    BY <1>1 DEF RunTypes
  <2>2. held \in [Cube -> S]
    BY <2>1
  <2>3. cube' = [cube EXCEPT ![t] = held]
    BY DEF Pause
  <2> HIDE DEF held, S
  <2>4. cube' \in [Tenant -> [Cube -> S]]
    BY <1>1, <2>2, <2>3 DEF RunTypes, S
  <2>5. active' \subseteq Loop
    BY <1>1 DEF Pause, Untracked, RunTypes
  <2>6. gen' \in [Tenant -> Nat] /\ \A u \in Tenant : gen'[u] <= MaxGen[u]
    BY <1>1, RangeAssumption DEF Pause, RunTypes
  <2> QED
    BY <1>1, <2>4, <2>5, <2>6 DEF Pause, RunTypes, S
<1>3. \A u \in Tenant : gen'[u] = gen[u] + 1 \/ (gen'[u] = gen[u] /\ status'[u] = status[u])
  BY <1>1 DEF Pause, RunTypes
<1> QED
  BY <1>2, <1>3, CallKeeps DEF Pause

LEMMA ResetKeeps ==
    ASSUME Admissions, NEW t \in Tenant, Reset(t)
    PROVE  Admissions'
<1>1. RunTypes
  BY TypesSplit DEF Admissions
<1>2. RunTypes'
  <2>1. IdleCubes \in [Cube -> {"IDLE", "RUNNING", "PAUSED"} \cup Results]
    BY DEF IdleCubes
  <2>2. active' \subseteq Loop
    BY <1>1 DEF Reset, Untracked, RunTypes
  <2>3. gen' \in [Tenant -> Nat] /\ \A u \in Tenant : gen'[u] <= MaxGen[u]
    BY <1>1, RangeAssumption DEF Reset, RunTypes
  <2> QED
    BY <1>1, <2>1, <2>2, <2>3 DEF Reset, RunTypes
<1>3. \A u \in Tenant : gen'[u] = gen[u] + 1 \/ (gen'[u] = gen[u] /\ status'[u] = status[u])
  BY <1>1 DEF Reset, RunTypes
<1> QED
  BY <1>2, <1>3, CallKeeps DEF Reset

LEMMA StopAllKeeps ==
    ASSUME Admissions, StopAll
    PROVE  Admissions'
<1>1. RunTypes
  BY TypesSplit DEF Admissions
<1>2. RunTypes'
  BY <1>1, RangeAssumption DEF StopAll, RunTypes
<1>3. \A u \in Tenant : gen'[u] = gen[u] + 1 \/ (gen'[u] = gen[u] /\ status'[u] = status[u])
  BY <1>1 DEF StopAll, RunTypes
<1> QED
  BY <1>2, <1>3, CallKeeps DEF StopAll

LEMMA StartKeeps ==
    ASSUME Admissions, NEW t \in Tenant, Start(t)
    PROVE  Admissions'
<1> USE RangeAssumption
<1> DEFINE g == gen[t] + 1
<1>1. RunTypes /\ QueueTypes /\ Queues /\ Generations /\ PlacesPromised
  BY TypesSplit DEF Admissions
<1>2. \A o \in Loop : pc[o] \notin Ready
  BY NothingDue DEF Start, Quiet
<1>3. g \in 1 .. MaxGen[t] /\ gen' = [gen EXCEPT ![t] = g] /\ gen'[t] = g
  BY <1>1 DEF Start, RunTypes
<1>4. /\ jobs' = [l \in 1 .. Width |-> <<t, g, l>>]
      /\ pc' = [id \in Loop |-> IF id \in LoopsOf(t, g) THEN "next" ELSE pc[id]]
      /\ status' = [status EXCEPT ![t] = "RUNNING"]
      /\ UNCHANGED <<item, result, count, queue, ticks, burst>>
  BY <1>3 DEF Start
<1>5. /\ LoopsOf(t, g) \subseteq Loop
      /\ \A id \in LoopsOf(t, g) : id[1] = t /\ id[2] = g /\ TenantOf(id) = t
      /\ \A l \in 1 .. Width : <<t, g, l>> \in LoopsOf(t, g)
      /\ \A id \in LoopsOf(t, g) : \E l \in 1 .. Width : id = <<t, g, l>>
      /\ \A l, m \in 1 .. Width : <<t, g, l>> = <<t, g, m>> => l = m
  BY <1>3, LoopsOfRun
<1>6. RunTypes'
  <2>1. IdleCubes \in [Cube -> {"IDLE", "RUNNING", "PAUSED"} \cup Results]
    BY DEF IdleCubes
  <2>2. active' \subseteq Loop
    BY <1>1 DEF Start, Untracked, RunTypes
  <2>3. gen' \in [Tenant -> Nat] /\ \A u \in Tenant : gen'[u] <= MaxGen[u]
    BY <1>1, <1>3 DEF RunTypes
  <2>4. /\ status' \in [Tenant -> {"READY", "RUNNING", "PAUSED", "COMPLETED"}]
        /\ next' \in [Tenant -> Nat]
        /\ cube' \in [Tenant -> [Cube -> {"IDLE", "RUNNING", "PAUSED"} \cup Results]]
    BY <1>1, <2>1 DEF Start, RunTypes
  <2> QED
    BY <1>1, <1>4, <2>2, <2>3, <2>4 DEF RunTypes
<1> HIDE DEF g
<1>7. ASSUME NEW id \in LoopsOf(t, g) PROVE pc[id] = "none"
  <2>1. id \in Loop /\ id[2] = g /\ TenantOf(id) = t
    BY <1>5
  <2>2. ~(g <= gen[TenantOf(id)])
    BY <1>1, <2>1 DEF g, RunTypes
  <2> QED
    BY <1>1, <2>1, <2>2 DEF Generations
<1>8. /\ jobs' \in Seq(Loop) /\ Len(jobs') = Width
      /\ \A l \in 1 .. Width : jobs'[l] = <<t, g, l>>
  <2>1. \A l \in 1 .. Width : <<t, g, l>> \in Loop
    BY <1>5
  <2>2. jobs' \in [1 .. Width -> Loop] /\ \A l \in 1 .. Width : jobs'[l] = <<t, g, l>>
    BY <1>4, <2>1
  <2>3. jobs' \in Seq(Loop) /\ Len(jobs') = Width
    BY <2>2, ListIsSequence
  <2> QED
    BY <2>2, <2>3
<1>9. Elements(jobs') = LoopsOf(t, g) /\ Once(jobs')
  <2>1. Once(jobs')
    BY <1>5, <1>8 DEF Once
  <2>2. Elements(jobs') = {jobs'[l] : l \in 1 .. Width}
    BY <1>8 DEF Elements
  <2>3. {jobs'[l] : l \in 1 .. Width} = {<<t, g, l>> : l \in 1 .. Width}
    BY <1>8
  <2>4. {<<t, g, l>> : l \in 1 .. Width} = LoopsOf(t, g)
    BY <1>5
  <2> QED
    BY <2>1, <2>2, <2>3, <2>4
<1>10. /\ \A o \in Loop : pc'[o] = IF o \in LoopsOf(t, g) THEN "next" ELSE pc[o]
       /\ pc' \in [Loop -> Ready \cup {"none", "queued", "child", "stillborn", "done"}]
  BY <1>1, <1>4 DEF QueueTypes, Ready
<1>11. QueueTypes'
  BY <1>1, <1>4, <1>8, <1>10 DEF QueueTypes
<1>12. Holders' = Holders /\ Woken' = Woken
  BY <1>7, <1>10 DEF Holders, Woken
<1>13. Queues'
  <2>1. Elements(jobs') = {o \in Loop : pc'[o] \in Ready}
    BY <1>2, <1>5, <1>9, <1>10 DEF Ready
  <2>2. Elements(queue') = {o \in Loop : pc'[o] = "queued"}
    BY <1>1, <1>4, <1>7, <1>10 DEF Queues
  <2>3. Elements(ticks') = {o \in Loop : pc'[o] = "stillborn"}
    BY <1>1, <1>4, <1>7, <1>10 DEF Queues
  <2> QED
    BY <1>1, <1>4, <1>9, <1>12, <2>1, <2>2, <2>3 DEF Queues
<1>14. Generations'
  <2> SUFFICES ASSUME NEW o \in Loop, pc'[o] # "none"
               PROVE  /\ o[2] <= gen'[TenantOf(o)]
                      /\ pc'[o] # "done" /\ o[2] = gen'[TenantOf(o)] => Matches(o)'
    BY DEF Generations
  <2>1. status'[t] = "RUNNING"
    BY <1>1, <1>4 DEF RunTypes
  <2>2. CASE o \in LoopsOf(t, g)
    <3>1. o[2] = g /\ TenantOf(o) = t /\ g \in Nat
      BY <1>3, <1>5, <2>2
    <3> QED
      BY <1>3, <2>1, <3>1 DEF Matches
  <2>3. CASE o \notin LoopsOf(t, g)
    <3>1. /\ TenantOf(o) \in Tenant /\ o[2] \in Nat /\ gen[TenantOf(o)] \in Nat
          /\ pc'[o] = pc[o]
          /\ o[2] <= gen[TenantOf(o)]
          /\ pc[o] # "done" /\ o[2] = gen[TenantOf(o)] => Matches(o)
      BY <1>1, <1>10, <2>3, LoopNames DEF RunTypes, Generations
    <3>2. CASE TenantOf(o) = t
      <4>1. o[2] <= gen[t] /\ gen'[t] = gen[t] + 1 /\ gen[t] \in Nat
        BY <1>3, <3>1, <3>2 DEF g
      <4> QED
        BY <3>1, <3>2, <4>1
    <3>3. CASE TenantOf(o) # t
      <4>1. gen'[TenantOf(o)] = gen[TenantOf(o)] /\ status'[TenantOf(o)] = status[TenantOf(o)]
        BY <1>1, <1>3, <1>4, <3>1, <3>3 DEF RunTypes
      <4> QED
        BY <3>1, <4>1 DEF Matches
    <3> QED
      BY <3>2, <3>3
  <2> QED
    BY <2>2, <2>3
<1>15. PlacesPromised'
  <2>1. Woken' = {}
    BY <1>2, <1>12 DEF Woken, Ready
  <2>2. Late' \cap Elements(jobs') = {}
    BY <1>5, <1>9, <1>10 DEF Late
  <2>3. Before(jobs', Woken', Asking') /\ Before(jobs', Asking', Late')
    BY <2>1, <2>2 DEF Before, Elements
  <2>4. \A o \in Elements(jobs') : pc'[o] # "settled"
    BY <1>5, <1>9, <1>10
  <2> QED
    BY <1>1, <1>4, <1>12, <2>3, <2>4 DEF PlacesPromised
<1> QED
  BY <1>6, <1>11, <1>13, <1>14, <1>15, PartsKept DEF QueuesKept

LEMMA StutterKeeps ==
    ASSUME Admissions, UNCHANGED vars
    PROVE  Admissions'
BY DEF vars, Admissions, TypeOK, Queues, Generations, PlacesPromised, Holders, Woken,
       Asking, Late, Matches

(* Each action keeps Admissions.                                         *)
LEMMA AdmissionKept == ASSUME Admissions, [Next]_vars PROVE Admissions'
<1>1. ASSUME NEW id \in Loop, Micro(id) PROVE Admissions'
  BY <1>1, TakeKeeps, LeaveKeeps, WakeKeeps, WithdrawKeeps, SpawnKeeps, SettleKeeps DEF Micro
<1>2. ASSUME NEW t \in Tenant, Start(t) \/ Pause(t) \/ Reset(t) PROVE Admissions'
  BY <1>2, StartKeeps, PauseKeeps, ResetKeeps
<1> QED
  BY <1>1, <1>2, ChildEndsKeeps, SpawnErrorsKeeps, StopAllKeeps, StutterKeeps DEF Next

LEMMA AdmissionsAlways == Spec => []Admissions
<1>1. Init => Admissions
  BY RangeInitially
<1>2. Admissions /\ [Next]_vars => Admissions'
  BY AdmissionKept
<1> QED
  BY <1>1, <1>2, PTL DEF Spec

-----------------------------------------------------------------------------
(* No wake-up is lost.                                                     *)

(* Steps that let no loop in or out of the admissions.                     *)
LEMMA SameWaiters ==
    ASSUME NobodyWaitsInVain, UNCHANGED queue, Holders' = Holders, Woken' = Woken
    PROVE  NobodyWaitsInVain'
BY DEF NobodyWaitsInVain

(* Steps that begin and end no run and no loop.                            *)
LEMMA SameRuns ==
    ASSUME RunsHaveLoops, UNCHANGED <<status, gen>>,
           \A o \in Loop : pc'[o] # pc[o] => pc'[o] \notin {"none", "done"}
    PROVE  RunsHaveLoops'
<1>1. \A o \in Loop : Matches(o)' = Matches(o)
  BY DEF Matches
<1> QED
  BY <1>1 DEF RunsHaveLoops

LEMMA Changed ==
    ASSUME Admissions
    PROVE  /\ pc \in [Loop -> Ready \cup {"none", "queued", "child", "stillborn", "done"}]
           /\ Holders \in SUBSET Loop /\ Woken \in SUBSET Loop
BY DEF Admissions, TypeOK, Holders, Woken

LEMMA TakeWakes ==
    ASSUME Admissions, NobodyWaitsInVain, RunsHaveLoops, NEW id \in Loop, Take(id)
    PROVE  NobodyWaitsInVain' /\ RunsHaveLoops'
<1>1. pc[id] = "next" /\ Acquire(id) /\ UNCHANGED <<status, gen>>
  BY DEF Take, Due
<1>2. count = Cardinality(Holders)
  BY DEF Admissions, Queues
<1>3. CASE count >= MaxActive /\ pc' = [pc EXCEPT ![id] = "queued"]
  <2>1. \A o \in Loop : pc'[o] = IF o = id THEN "queued" ELSE pc[o]
    BY <1>3, Changed
  <2>2. Holders' = Holders /\ Woken' = Woken
    BY <1>1, <2>1 DEF Holders, Woken
  <2>3. Cardinality(Woken) \in Nat /\ Cardinality(Holders) \in Nat
    BY <1>1, Counting, Changed
  <2> QED
    BY <1>1, <1>2, <1>3, <2>1, <2>2, <2>3, SameRuns, RangeAssumption DEF NobodyWaitsInVain
<1>4. CASE count < MaxActive /\ pc' = [pc EXCEPT ![id] = "admitted"] /\ UNCHANGED queue
  <2>1. \A o \in Loop : pc'[o] = IF o = id THEN "admitted" ELSE pc[o]
    BY <1>4, Changed
  <2>2. Holders' = Holders \cup {id} /\ id \notin Holders /\ Woken' = Woken
    BY <1>1, <2>1 DEF Holders, Woken
  <2>3. /\ Cardinality(Woken) \in Nat /\ Cardinality(Holders) \in Nat
        /\ Cardinality(Holders') = Cardinality(Holders) + 1
    BY <2>2, Counting, Changed
  <2> QED
    BY <1>1, <1>4, <2>1, <2>2, <2>3, SameRuns, RangeAssumption DEF NobodyWaitsInVain
<1> QED
  BY <1>1, <1>3, <1>4 DEF Acquire

(* The place a loop gives up goes to the first waiter, if there is one.    *)
LEMMA ReleaseWakes ==
    ASSUME Admissions, NobodyWaitsInVain, RunsHaveLoops, NEW id \in Loop,
           pc[id] \in {"admitted", "settled"}, Release(id), UNCHANGED <<status, gen>>
    PROVE  NobodyWaitsInVain' /\ RunsHaveLoops'
<1>1. CASE queue = <<>> /\ pc' = [pc EXCEPT ![id] = "next"] /\ UNCHANGED queue
  <2>1. \A o \in Loop : pc'[o] = IF o = id THEN "next" ELSE pc[o]
    BY <1>1, Changed
  <2> QED
    BY <1>1, <2>1, SameRuns DEF NobodyWaitsInVain
<1>2. CASE queue # <<>> /\ pc' = [pc EXCEPT ![Head(queue)] = "woken", ![id] = "next"]
  <2>1. Head(queue) \in Loop /\ pc[Head(queue)] = "queued"
    BY <1>2, WaiterTaken
  <2>2. \A o \in Loop : pc'[o] = IF o = id THEN "next" ELSE IF o = Head(queue) THEN "woken" ELSE pc[o]
    BY <1>2, <2>1 DEF Admissions, TypeOK
  <2>3. /\ Holders' = Holders \ {id} /\ id \in Holders
        /\ Woken' = Woken \cup {Head(queue)} /\ Head(queue) \notin Woken
    BY <2>1, <2>2 DEF Holders, Woken
  <2>4. /\ Cardinality(Woken) \in Nat /\ Cardinality(Holders) \in Nat
        /\ Cardinality(Holders') = Cardinality(Holders) - 1
        /\ Cardinality(Woken') = Cardinality(Woken) + 1
    BY <2>1, <2>3, Counting, Changed
  <2>5. NobodyWaitsInVain'
    BY <1>2, <2>4, RangeAssumption DEF NobodyWaitsInVain
  <2>6. RunsHaveLoops'
    BY <2>2, SameRuns
  <2> QED
    BY <2>5, <2>6
<1> QED
  BY <1>1, <1>2 DEF Release

LEMMA WakeWakes ==
    ASSUME Admissions, NobodyWaitsInVain, RunsHaveLoops, NEW id \in Loop, Wake(id)
    PROVE  NobodyWaitsInVain' /\ RunsHaveLoops'
<1>1. pc[id] = "woken" /\ UNCHANGED <<status, gen, queue>>
  BY DEF Wake, Due
<1>2. \A o \in Loop : pc'[o] = IF o = id THEN "admitted" ELSE pc[o]
  BY Changed DEF Wake
<1>3. Holders' = Holders \cup {id} /\ id \notin Holders /\ Woken' = Woken \ {id} /\ id \in Woken
  BY <1>1, <1>2 DEF Holders, Woken
<1>4. /\ Cardinality(Woken) \in Nat /\ Cardinality(Holders) \in Nat
      /\ Cardinality(Holders') = Cardinality(Holders) + 1
      /\ Cardinality(Woken') = Cardinality(Woken) - 1
  BY <1>3, Counting, Changed
<1>5. NobodyWaitsInVain'
  BY <1>1, <1>4, RangeAssumption DEF NobodyWaitsInVain
<1>6. RunsHaveLoops'
  BY <1>1, <1>2, SameRuns
<1> QED
  BY <1>5, <1>6

(* The run of a loop that ends is over only if no other loop of it is left.*)
LEMMA LeaveWakes ==
    ASSUME Admissions, NobodyWaitsInVain, RunsHaveLoops, NEW id \in Loop, Leave(id)
    PROVE  NobodyWaitsInVain' /\ RunsHaveLoops'
<1>1. /\ pc[id] = "next" /\ UNCHANGED <<gen, queue>>
      /\ \A o \in Loop : pc'[o] = IF o = id THEN "done" ELSE pc[o]
  BY Changed DEF Leave, Due
<1>2. Holders' = Holders /\ Woken' = Woken
  BY <1>1 DEF Holders, Woken
<1>3. \A t \in Tenant : status'[t] = "RUNNING" =>
         /\ status[t] = "RUNNING"
         /\ t = TenantOf(id) /\ Matches(id) => \E o \in LoopsOf(id[1], id[2]) : pc'[o] # "done"
  BY LoopNames DEF Leave, Admissions, TypeOK
<1>4. ASSUME NEW o \in Loop, Matches(o)' PROVE Matches(o) /\ pc'[o] # "none"
  <2>1. Matches(o)
    BY <1>1, <1>3, <1>4, LoopNames DEF Matches
  <2> QED
    BY <1>1, <2>1 DEF RunsHaveLoops
<1>5. ASSUME NEW t \in Tenant, status'[t] = "RUNNING"
      PROVE  \E o \in Loop : TenantOf(o) = t /\ Matches(o)' /\ pc'[o] # "done"
  <2>1. PICK o \in Loop : TenantOf(o) = t /\ Matches(o) /\ pc[o] # "done"
    BY <1>3, <1>5 DEF RunsHaveLoops
  <2>2. CASE o # id
    BY <1>1, <1>5, <2>1, <2>2 DEF Matches
  <2>3. CASE o = id
    <3>1. PICK q \in LoopsOf(id[1], id[2]) : pc'[q] # "done"
      BY <1>3, <1>5, <2>1, <2>3
    <3>2. q \in Loop /\ TenantOf(q) = t /\ q[2] = id[2]
      BY <2>1, <2>3, LoopNames, LoopsOfRun
    <3>3. gen'[t] = q[2]
      BY <1>1, <2>1, <2>3, <3>2 DEF Matches
    <3> QED
      BY <1>5, <3>1, <3>2, <3>3 DEF Matches
  <2> QED
    BY <2>2, <2>3
<1> QED
  BY <1>1, <1>2, <1>4, <1>5, SameWaiters DEF RunsHaveLoops

LEMMA ChildWakes ==
    ASSUME Admissions, NobodyWaitsInVain, RunsHaveLoops,
           (\E id \in Loop : Spawn(id) \/ ChildEnds(id)) \/ SpawnErrors
    PROVE  NobodyWaitsInVain' /\ RunsHaveLoops'
<1>1. UNCHANGED <<status, gen, queue>>
  BY DEF Spawn, ChildEnds, SpawnErrors
<1>2. \A o \in Loop : \/ pc'[o] = pc[o]
                      \/ /\ pc[o] \in {"admitted", "child", "stillborn"}
                         /\ pc'[o] \in {"child", "stillborn", "settled"}
  <2>1. CASE \E id \in Loop : Spawn(id) \/ ChildEnds(id)
    <3>1. PICK id \in Loop : Spawn(id) \/ ChildEnds(id)
      BY <2>1
    <3>2. \/ pc[id] = "admitted" /\ (pc' = [pc EXCEPT ![id] = "child"] \/ pc' = [pc EXCEPT ![id] = "stillborn"])
          \/ pc[id] = "child" /\ pc' = [pc EXCEPT ![id] = "settled"]
      BY <3>1 DEF Spawn, ChildEnds, Due
    <3> QED
      BY <3>2, Changed
  <2>2. CASE SpawnErrors
    BY <2>2 DEF SpawnErrors
  <2> QED
    BY <2>1, <2>2
<1>3. Holders' = Holders /\ Woken' = Woken
  BY <1>2 DEF Holders, Woken
<1> QED
  BY <1>1, <1>2, <1>3, SameWaiters, SameRuns

LEMMA StartWakes ==
    ASSUME Admissions, NobodyWaitsInVain, RunsHaveLoops, NEW t \in Tenant, Start(t)
    PROVE  NobodyWaitsInVain' /\ RunsHaveLoops'
<1> DEFINE g == gen[t] + 1
<1>1. /\ g \in 1 .. MaxGen[t] /\ gen'[t] = g /\ status'[t] = "RUNNING" /\ UNCHANGED queue
      /\ \A u \in Tenant \ {t} : gen'[u] = gen[u] /\ status'[u] = status[u]
      /\ \A o \in Loop : pc'[o] = IF o \in LoopsOf(t, g) THEN "next" ELSE pc[o]
  <2>1. gen[t] \in Nat /\ gen[t] < MaxGen[t] /\ MaxGen[t] \in Nat
    BY RangeAssumption DEF Start, Admissions, TypeOK
  <2>2. gen'[t] = g /\ status'[t] = "RUNNING" /\ UNCHANGED queue
    BY DEF Start, Admissions, TypeOK
  <2>3. \A u \in Tenant \ {t} : gen'[u] = gen[u] /\ status'[u] = status[u]
    BY DEF Start, Admissions, TypeOK
  <2>4. \A o \in Loop : pc'[o] = IF o \in LoopsOf(t, g) THEN "next" ELSE pc[o]
    BY <2>2 DEF Start
  <2> QED
    BY <2>1, <2>2, <2>3, <2>4
<1>2. \A o \in Loop : o \in LoopsOf(t, g) <=> TenantOf(o) = t /\ o[2] = g
  BY <1>1, LoopNames, LoopsOfRun
<1>3. \A o \in LoopsOf(t, g) : o \in Loop /\ pc[o] = "none"
  <2> SUFFICES ASSUME NEW o \in LoopsOf(t, g) PROVE o \in Loop /\ pc[o] = "none"
    OBVIOUS
  <2>1. o \in Loop /\ o[2] = g /\ TenantOf(o) = t
    BY <1>1, LoopsOfRun
  <2>2. gen[t] \in Nat /\ ~(o[2] <= gen[TenantOf(o)])
    BY <2>1 DEF Admissions, TypeOK
  <2> QED
    BY <2>1, <2>2 DEF Admissions, Generations
<1> HIDE DEF g
<1>4. Holders' = Holders /\ Woken' = Woken
  BY <1>1, <1>3 DEF Holders, Woken
<1>5. \A o \in Loop : TenantOf(o) # t => Matches(o)' = Matches(o)
  BY <1>1, LoopNames DEF Matches
<1>6. \A o \in Loop : TenantOf(o) = t => (Matches(o)' <=> o \in LoopsOf(t, g))
  BY <1>1, <1>2 DEF Matches
<1>7. ASSUME NEW u \in Tenant, status'[u] = "RUNNING"
      PROVE  \E o \in Loop : TenantOf(o) = u /\ Matches(o)' /\ pc'[o] # "done"
  <2>1. CASE u = t
    <3>1. <<t, g, 1>> \in LoopsOf(t, g)
      BY <1>1, LoopsOfRun, RangeAssumption
    <3> QED
      BY <1>1, <1>2, <1>3, <1>6, <2>1, <3>1
  <2>2. CASE u # t
    <3>1. PICK o \in Loop : TenantOf(o) = u /\ Matches(o) /\ pc[o] # "done"
      BY <1>1, <1>7, <2>2 DEF RunsHaveLoops
    <3> QED
      BY <1>1, <1>2, <1>5, <2>2, <3>1
  <2> QED
    BY <2>1, <2>2
<1>8. \A o \in Loop : Matches(o)' => pc'[o] # "none"
  BY <1>1, <1>2, <1>5, <1>6 DEF RunsHaveLoops
<1> QED
  BY <1>1, <1>4, <1>7, <1>8, SameWaiters DEF RunsHaveLoops

(* A call that ends runs, and one that does nothing.                       *)
LEMMA CallWakes ==
    ASSUME Admissions, NobodyWaitsInVain, RunsHaveLoops,
           (\E t \in Tenant : Pause(t) \/ Reset(t)) \/ StopAll \/ UNCHANGED vars
    PROVE  NobodyWaitsInVain' /\ RunsHaveLoops'
<1>1. UNCHANGED <<queue, pc>>
  BY DEF Pause, Reset, StopAll, vars
<1>2. Holders' = Holders /\ Woken' = Woken
  BY <1>1 DEF Holders, Woken
<1>3. \A u \in Tenant : status'[u] = "RUNNING" => status[u] = "RUNNING" /\ gen'[u] = gen[u]
  BY DEF Pause, Reset, StopAll, vars, Admissions, TypeOK
<1>4. \A o \in Loop : Matches(o)' => Matches(o)
  BY <1>3, LoopNames DEF Matches
<1>5. \A o \in Loop : Matches(o) /\ status'[TenantOf(o)] = "RUNNING" => Matches(o)'
  BY <1>3, LoopNames DEF Matches
<1> QED
  BY <1>1, <1>2, <1>3, <1>4, <1>5, SameWaiters DEF RunsHaveLoops

LEMMA WakingKept ==
    ASSUME AdmissionInv, [Next]_vars
    PROVE  AdmissionInv'
<1> USE DEF AdmissionInv
<1>1. ASSUME NEW id \in Loop, Withdraw(id) \/ Settle(id) PROVE NobodyWaitsInVain' /\ RunsHaveLoops'
  BY <1>1, ReleaseWakes DEF Withdraw, Settle, Due
<1>2. ASSUME NEW id \in Loop, Micro(id) PROVE NobodyWaitsInVain' /\ RunsHaveLoops'
  BY <1>1, <1>2, TakeWakes, LeaveWakes, WakeWakes, ChildWakes DEF Micro
<1> QED
  BY <1>2, AdmissionKept, ChildWakes, StartWakes, CallWakes DEF Next

(* The counter of admissions is the number of those who hold one, the      *)
(* queues hold whom they should, and as long as children that cannot be    *)
(* created report one by one, no more than MaxActive admissions are ever   *)
(* held or promised; no loop waits while one of them is free.              *)
THEOREM AdmissionInvariant == Spec => []AdmissionInv
<1>1. Init => AdmissionInv
  <2>1. ASSUME Init PROVE NobodyWaitsInVain /\ RunsHaveLoops
    BY <2>1, LoopNames DEF Init, NobodyWaitsInVain, RunsHaveLoops, Matches
  <2> QED
    BY <2>1, RangeInitially DEF AdmissionInv
<1>2. AdmissionInv /\ [Next]_vars => AdmissionInv'
  BY WakingKept
<1> QED
  BY <1>1, <1>2, PTL DEF Spec

(* A run never hangs: while a range is RUNNING and nothing is due, some    *)
(* child is out, of this run or of another, and its end will let a loop go *)
(* on.                                                                     *)
SomeChildIsOut ==
    Quiet /\ (\E t \in Tenant : status[t] = "RUNNING") => \E id \in Loop : pc[id] = "child"

THEOREM NoRunHangs == Spec => []SomeChildIsOut
<1>1. AdmissionInv => SomeChildIsOut
  <2> SUFFICES ASSUME AdmissionInv, Quiet, NEW t \in Tenant, status[t] = "RUNNING",
                      \A id \in Loop : pc[id] # "child"
               PROVE  FALSE
    BY DEF SomeChildIsOut
  <2>1. \A o \in Loop : pc[o] \notin Ready /\ pc[o] # "stillborn"
    BY NoElement DEF AdmissionInv, Admissions, Queues, Quiet
  <2>2. PICK id \in Loop : Matches(id) /\ pc[id] # "done" /\ pc[id] # "none"
    BY DEF AdmissionInv, RunsHaveLoops
  <2>3. pc[id] = "queued"
    BY <2>1, <2>2, Changed DEF AdmissionInv
  <2>4. queue # <<>>
    BY <2>3, NoElement DEF AdmissionInv, Admissions, Queues
  <2>5. Holders = {} /\ Woken = {}
    BY <2>1 DEF Holders, Woken, Ready
  <2>6. Cardinality(Holders) = 0 /\ Cardinality(Woken) = 0
    BY <2>5, FS_EmptySet
  <2> QED
    BY <2>4, <2>6, RangeAssumption DEF AdmissionInv, NobodyWaitsInVain
<1> QED
  BY <1>1, AdmissionInvariant, PTL

-----------------------------------------------------------------------------
(* What the cubes show.  Of the loops of a present run, those that have    *)
(* taken a cube and wait for an admission, and those with a child.         *)
Waits == {id \in Loop : pc[id] \in {"queued", "woken", "admitted"} /\ Matches(id)}
Works == {id \in Loop : pc[id] \in {"child", "stillborn", "settled"} /\ Matches(id)}

(* They have taken different cubes, below the next one to be taken; a cube *)
(* is IDLE while its loop waits and RUNNING while its child is out.        *)
CubesApart ==
    \A id \in Waits \cup Works :
       /\ item[id] < next[TenantOf(id)] /\ item[id] < Cubes
       /\ \A o \in Waits \cup Works : TenantOf(o) = TenantOf(id) /\ item[o] = item[id] => o = id
CubesShown ==
    /\ \A id \in Waits : cube[TenantOf(id)][item[id]] = "IDLE"
    /\ \A id \in Works : cube[TenantOf(id)][item[id]] = "RUNNING"

(* Of a running range, every cube is still to be taken, has its result, or *)
(* is one a loop has taken.                                                *)
Accounted(t, c) ==
    \/ next[t] <= c /\ cube[t][c] = "IDLE"
    \/ c < next[t] /\ cube[t][c] \in Results
    \/ \E id \in Waits \cup Works : TenantOf(id) = t /\ item[id] = c
CubesCounted == \A t \in Tenant : status[t] = "RUNNING" => \A c \in Cube : Accounted(t, c)
Completed == \A t \in Tenant : status[t] = "COMPLETED" => \A c \in Cube : cube[t][c] \in Results

WorkInv == active = Works /\ CubesApart /\ CubesShown /\ CubesCounted /\ Completed

(* Types of what the lemmas below speak of.                                *)
LEMMA WorkTypes ==
    ASSUME Admissions
    PROVE  /\ \A id \in Loop : item[id] \in Nat /\ TenantOf(id) \in Tenant
           /\ \A t \in Tenant : next[t] \in Nat
           /\ cube \in [Tenant -> [Cube -> {"IDLE", "RUNNING", "PAUSED"} \cup Results]]
           /\ Cubes \in Nat /\ Cube = 0 .. Cubes - 1
           /\ Waits \subseteq Loop /\ Works \subseteq Loop /\ Waits \cap Works = {}
           /\ \A id \in Waits \cup Works : status[TenantOf(id)] = "RUNNING"
BY LoopNames, RangeAssumption DEF Admissions, TypeOK, Waits, Works, Matches, Cube

(* A step that moves no loop between these groups and no cube.             *)
LEMMA SameWork ==
    ASSUME WorkInv, Waits' = Waits, Works' = Works, UNCHANGED <<status, next, cube, active>>,
           \A id \in Waits \cup Works : item'[id] = item[id]
    PROVE  WorkInv'
BY DEF WorkInv, CubesApart, CubesShown, CubesCounted, Accounted, Completed, Results

(* An admission that is asked for or given back moves one loop, and wakes a*)
(* waiter, which waits all the same.                                       *)
LEMMA AcquireMoves ==
    ASSUME Admissions, NEW id \in Loop, Due(id, "next"), Matches(id), Acquire(id), UNCHANGED <<status, gen>>
    PROVE  Waits' = Waits \cup {id} /\ id \notin Waits \cup Works /\ Works' = Works
<1>1. pc[id] = "next" /\ \A o \in Loop : Matches(o)' = Matches(o)
  BY DEF Due, Matches
<1>2. \E p \in {"queued", "admitted"} : \A o \in Loop : pc'[o] = IF o = id THEN p ELSE pc[o]
  BY DEF Acquire, Admissions, TypeOK
<1> QED
  BY <1>1, <1>2 DEF Waits, Works

LEMMA ReleaseMoves ==
    ASSUME Admissions, NEW id \in Loop, NEW p \in {"admitted", "settled"}, Due(id, p),
           Release(id), UNCHANGED <<status, gen>>
    PROVE  Waits' = Waits \ {id} /\ Works' = Works \ {id}
<1>1. pc[id] = p /\ \A o \in Loop : Matches(o)' = Matches(o)
  BY DEF Due, Matches
<1>2. CASE pc' = [pc EXCEPT ![id] = "next"]
  <2>1. \A o \in Loop : pc'[o] = IF o = id THEN "next" ELSE pc[o]
    BY <1>2 DEF Admissions, TypeOK
  <2> QED
    BY <1>1, <2>1 DEF Waits, Works
<1>3. CASE queue # <<>> /\ pc' = [pc EXCEPT ![Head(queue)] = "woken", ![id] = "next"]
  <2>1. Head(queue) \in Loop /\ pc[Head(queue)] = "queued"
    BY <1>3, WaiterTaken
  <2>2. \A o \in Loop : pc'[o] = IF o = id THEN "next" ELSE IF o = Head(queue) THEN "woken" ELSE pc[o]
    BY <1>3, <2>1 DEF Admissions, TypeOK
  <2> QED
    BY <1>1, <2>1, <2>2 DEF Waits, Works
<1> QED
  BY <1>2, <1>3 DEF Release

(* The actions.                                                            *)
LEMMA TakeWorks == ASSUME Admissions, WorkInv, NEW id \in Loop, Take(id) PROVE WorkInv'
<1> DEFINE t == TenantOf(id)
<1>1. /\ Waits' = Waits \cup {id} /\ id \notin Waits \cup Works /\ Works' = Works
      /\ Matches(id) /\ next[t] < Cubes
      /\ next' = [next EXCEPT ![t] = @ + 1] /\ item' = [item EXCEPT ![id] = next[t]]
      /\ UNCHANGED <<status, gen, cube, active>>
  BY AcquireMoves DEF Take
<1>2. /\ t \in Tenant /\ next[t] \in Nat /\ status[t] = "RUNNING" /\ Cubes \in Nat /\ Cube = 0 .. Cubes - 1
      /\ next'[t] = next[t] + 1 /\ item'[id] = next[t]
      /\ \A u \in Tenant : u # t => next'[u] = next[u]
      /\ \A o \in Loop : o # id => item'[o] = item[o]
      /\ Waits \subseteq Loop /\ Works \subseteq Loop
  BY <1>1, WorkTypes DEF Admissions, TypeOK, Matches
<1>3. \A o \in Waits \cup Works : item[o] \in Nat /\ item[o] < next[TenantOf(o)] /\ TenantOf(o) \in Tenant
  BY WorkTypes DEF WorkInv, CubesApart
<1>4. cube[t][next[t]] = "IDLE"
  <2>1. next[t] \in Cube
    BY <1>1, <1>2
  <2> QED
    BY <1>2, <1>3, <2>1 DEF WorkInv, CubesCounted, Accounted
<1> HIDE DEF t
<1>5. CubesApart'
  <2>1. ASSUME NEW o \in Waits \cup Works \cup {id}
        PROVE  item'[o] < next'[TenantOf(o)] /\ item'[o] < Cubes
    BY <1>1, <1>2, <1>3 DEF WorkInv, CubesApart, t
  <2>2. ASSUME NEW o \in Waits \cup Works \cup {id}, NEW q \in Waits \cup Works \cup {id},
               TenantOf(q) = TenantOf(o), item'[q] = item'[o]
        PROVE  q = o
    BY <1>1, <1>2, <1>3, <2>2 DEF WorkInv, CubesApart, t
  <2> QED
    BY <1>1, <2>1, <2>2 DEF CubesApart
<1>6. CubesShown'
  BY <1>1, <1>2, <1>4 DEF WorkInv, CubesShown, t
<1>7. CubesCounted'
  <2> SUFFICES ASSUME NEW u \in Tenant, status'[u] = "RUNNING", NEW c \in Cube PROVE Accounted(u, c)'
    BY DEF CubesCounted, Cube
  <2>1. Accounted(u, c)
    BY <1>1 DEF WorkInv, CubesCounted
  <2>2. CASE u # t
    BY <1>1, <1>2, <2>1, <2>2 DEF Accounted, Results
  <2>3. CASE u = t
    BY <1>1, <1>2, <2>1, <2>3 DEF Accounted, Results, t
  <2> QED
    BY <2>2, <2>3
<1>8. Completed'
  BY <1>1 DEF WorkInv, Completed, Results, Cube
<1> QED
  BY <1>1, <1>5, <1>6, <1>7, <1>8 DEF WorkInv

LEMMA WithdrawWorks == ASSUME Admissions, WorkInv, NEW id \in Loop, Withdraw(id) PROVE WorkInv'
<1>1. id \notin Waits /\ id \notin Works
  BY DEF Withdraw, Waits, Works
<1>2. Waits' = Waits /\ Works' = Works
  BY <1>1, ReleaseMoves DEF Withdraw
<1>3. \A o \in Waits \cup Works : item'[o] = item[o]
  BY <1>1, WorkTypes DEF Withdraw, Forget, Admissions, TypeOK
<1> QED
  BY <1>2, <1>3, SameWork DEF Withdraw

LEMMA SpawnWorks == ASSUME Admissions, WorkInv, NEW id \in Loop, Spawn(id) PROVE WorkInv'
<1> DEFINE t == TenantOf(id)
<1>1. /\ pc[id] = "admitted" /\ Matches(id) /\ active' = active \cup {id}
      /\ cube' = [cube EXCEPT ![t][item[id]] = "RUNNING"]
      /\ UNCHANGED <<status, gen, next, item>>
  BY DEF Spawn, Due
<1>2. \E p \in {"child", "stillborn"} : \A o \in Loop : pc'[o] = IF o = id THEN p ELSE pc[o]
  BY DEF Spawn, Admissions, TypeOK
<1>3. Waits' = Waits \ {id} /\ id \in Waits /\ id \notin Works /\ Works' = Works \cup {id}
  BY <1>1, <1>2 DEF Waits, Works, Matches
<1>4. /\ t \in Tenant /\ item[id] \in Cube
      /\ cube'[t][item[id]] = "RUNNING"
      /\ \A u \in Tenant, c \in Cube : u # t \/ c # item[id] => cube'[u][c] = cube[u][c]
  BY <1>1, <1>3, WorkTypes DEF WorkInv, CubesApart
<1>5. \A o \in Waits \cup Works : TenantOf(o) \in Tenant /\ item[o] \in Cube
  BY WorkTypes DEF WorkInv, CubesApart
<1> HIDE DEF t
<1>6. CubesApart'
  BY <1>1, <1>3 DEF WorkInv, CubesApart
<1>7. CubesShown'
  <2>1. ASSUME NEW o \in Waits \cup Works, o # id
        PROVE  cube'[TenantOf(o)][item[o]] = cube[TenantOf(o)][item[o]]
    BY <1>3, <1>4, <1>5, <2>1 DEF WorkInv, CubesApart, t
  <2> QED
    BY <1>1, <1>3, <1>4, <2>1 DEF WorkInv, CubesShown, t
<1>8. CubesCounted'
  <2> SUFFICES ASSUME NEW u \in Tenant, status'[u] = "RUNNING", NEW c \in Cube PROVE Accounted(u, c)'
    BY DEF CubesCounted, Cube
  <2>1. Accounted(u, c)
    BY <1>1 DEF WorkInv, CubesCounted
  <2>2. CASE u = t /\ c = item[id]
    BY <1>1, <1>3, <2>2 DEF Accounted, t
  <2>3. CASE ~(u = t /\ c = item[id])
    BY <1>1, <1>3, <1>4, <2>1, <2>3 DEF Accounted, Results
  <2> QED
    BY <2>2, <2>3
<1>9. Completed'
  <2>1. status[t] = "RUNNING"
    BY <1>1 DEF Matches, t
  <2> QED
    BY <1>1, <1>4, <2>1 DEF WorkInv, Completed, Results, Cube
<1> QED
  BY <1>1, <1>3, <1>6, <1>7, <1>8, <1>9 DEF WorkInv

LEMMA SettleWorks == ASSUME Admissions, WorkInv, NEW id \in Loop, Settle(id) PROVE WorkInv'
<1> DEFINE t == TenantOf(id)
<1>1. /\ pc[id] = "settled" /\ active' = active \ {id} /\ UNCHANGED <<status, gen, next>>
      /\ cube' = [cube EXCEPT ![t] = IF Matches(id) THEN [@ EXCEPT ![item[id]] = result[id]] ELSE @]
  BY DEF Settle, Due
<1>2. Waits' = Waits \ {id} /\ Works' = Works \ {id}
  BY ReleaseMoves DEF Settle
<1>3. id \notin Waits /\ (id \in Works <=> Matches(id))
  BY <1>1 DEF Waits, Works
<1>4. \A o \in Loop : o # id => item'[o] = item[o]
  BY DEF Settle, Forget, Admissions, TypeOK
<1>5. result[id] \in Results /\ t \in Tenant /\ cube \in [Tenant -> [Cube -> {"IDLE", "RUNNING", "PAUSED"} \cup Results]]
  BY WorkTypes DEF Admissions, TypeOK
<1>6. CASE ~Matches(id)
  <2>1. cube' = cube
    BY <1>1, <1>5, <1>6
  <2>2. Waits' = Waits /\ Works' = Works /\ active' = active
    BY <1>1, <1>2, <1>3, <1>6 DEF WorkInv
  <2>3. \A o \in Waits \cup Works : item'[o] = item[o]
    BY <1>3, <1>4, <1>6, WorkTypes
  <2> QED
    BY <1>1, <2>1, <2>2, <2>3, SameWork
<1>7. CASE Matches(id)
  <2>1. /\ item[id] \in Cube /\ item[id] < next[t]
        /\ cube'[t][item[id]] = result[id]
        /\ \A u \in Tenant, c \in Cube : u # t \/ c # item[id] => cube'[u][c] = cube[u][c]
    BY <1>1, <1>3, <1>5, <1>7, WorkTypes DEF WorkInv, CubesApart
  <2>2. \A o \in Waits \cup Works : o \in Loop /\ TenantOf(o) \in Tenant /\ item[o] \in Cube
    BY WorkTypes DEF WorkInv, CubesApart
  <2> HIDE DEF t
  <2>3. CubesApart'
    BY <1>1, <1>2, <1>4, <2>2 DEF WorkInv, CubesApart
  <2>4. CubesShown'
    <3>1. ASSUME NEW o \in Waits \cup Works, o # id
          PROVE  cube'[TenantOf(o)][item'[o]] = cube[TenantOf(o)][item[o]]
      BY <1>3, <1>4, <1>7, <2>1, <2>2, <3>1 DEF WorkInv, CubesApart, t
    <3> QED
      BY <1>2, <3>1 DEF WorkInv, CubesShown
  <2>5. CubesCounted'
    <3> SUFFICES ASSUME NEW u \in Tenant, status'[u] = "RUNNING", NEW c \in Cube PROVE Accounted(u, c)'
      BY DEF CubesCounted, Cube
    <3>1. Accounted(u, c)
      BY <1>1 DEF WorkInv, CubesCounted
    <3>2. CASE u = t /\ c = item[id]
      BY <1>1, <1>5, <2>1, <3>2 DEF Accounted, Results
    <3>3. CASE ~(u = t /\ c = item[id])
      <4>1. cube'[u][c] = cube[u][c]
        BY <2>1, <3>3
      <4>2. ASSUME NEW o \in Waits \cup Works, TenantOf(o) = u, item[o] = c
            PROVE  o \in Waits' \cup Works' /\ item'[o] = c
        BY <1>2, <1>4, <2>2, <3>3, <4>2 DEF t
      <4> QED
        BY <1>1, <3>1, <4>1, <4>2 DEF Accounted, Results
    <3> QED
      BY <3>2, <3>3
  <2>6. Completed'
    <3>1. status[t] = "RUNNING"
      BY <1>7 DEF Matches, t
    <3> QED
      BY <1>1, <2>1, <3>1 DEF WorkInv, Completed, Results, Cube
  <2> QED
    BY <1>1, <1>2, <2>3, <2>4, <2>5, <2>6 DEF WorkInv
<1> QED
  BY <1>6, <1>7

(* Steps that change no cube and no loop's cube.                           *)
LEMMA WakeWorks == ASSUME Admissions, WorkInv, NEW id \in Loop, Wake(id) PROVE WorkInv'
<1>1. pc[id] = "woken" /\ \A o \in Loop : pc'[o] = IF o = id THEN "admitted" ELSE pc[o]
  BY DEF Wake, Due, Admissions, TypeOK
<1>2. Waits' = Waits /\ Works' = Works
  BY <1>1 DEF Wake, Waits, Works, Matches
<1> QED
  BY <1>2, SameWork DEF Wake

LEMMA ChildEndsWorks == ASSUME Admissions, WorkInv, NEW id \in Loop, ChildEnds(id) PROVE WorkInv'
<1>1. pc[id] = "child" /\ \A o \in Loop : pc'[o] = IF o = id THEN "settled" ELSE pc[o]
  BY DEF ChildEnds, Admissions, TypeOK
<1>2. Waits' = Waits /\ Works' = Works
  BY <1>1 DEF ChildEnds, Waits, Works, Matches
<1> QED
  BY <1>2, SameWork DEF ChildEnds

LEMMA SpawnErrorsWorks == ASSUME Admissions, WorkInv, SpawnErrors PROVE WorkInv'
<1>1. \A o \in Loop : pc'[o] = IF pc[o] = "stillborn" THEN "settled" ELSE pc[o]
  BY DEF SpawnErrors
<1>2. Waits' = Waits /\ Works' = Works
  BY <1>1 DEF SpawnErrors, Waits, Works, Matches
<1> QED
  BY <1>2, SameWork DEF SpawnErrors

(* The last loop of a run leaves no cube without its result: all have been *)
(* taken, and no loop is left that works on one.                           *)
LEMMA LeaveWorks == ASSUME Admissions, WorkInv, NEW id \in Loop, Leave(id) PROVE WorkInv'
<1> DEFINE t == TenantOf(id)
<1>1. /\ pc[id] = "next" /\ \A o \in Loop : pc'[o] = IF o = id THEN "done" ELSE pc[o]
      /\ UNCHANGED <<gen, cube, active, item>>
  BY DEF Leave, Due, Admissions, TypeOK
<1>2. Waits' = Waits /\ Works' = Works
  BY <1>1, OthersGoOn DEF Waits, Works
<1>3. /\ t \in Tenant /\ next[t] \in Nat /\ Cubes \in Nat /\ Cube = 0 .. Cubes - 1
      /\ \A u \in Tenant : u # t => next'[u] = next[u] /\ status'[u] = status[u]
      /\ next'[t] \in {next[t], next[t] + 1}
      /\ status'[t] \in {status[t], "COMPLETED"}
  BY WorkTypes DEF Leave, Admissions, TypeOK
<1>4. \A o \in Waits \cup Works : item[o] \in Nat /\ TenantOf(o) \in Tenant
  BY WorkTypes
<1>5. status[t] = "RUNNING" => next'[t] = next[t] \/ next[t] >= Cubes
  BY <1>3 DEF Leave, Admissions, TypeOK
<1> HIDE DEF t
<1>6. CubesApart' /\ CubesShown'
  <2>1. \A o \in Waits \cup Works : item[o] < next'[TenantOf(o)]
    <3> SUFFICES ASSUME NEW o \in Waits \cup Works PROVE item[o] < next'[TenantOf(o)]
      OBVIOUS
    <3>1. item[o] < next[TenantOf(o)]
      BY DEF WorkInv, CubesApart
    <3>2. CASE TenantOf(o) = t
      BY <1>3, <1>4, <3>1, <3>2
    <3>3. CASE TenantOf(o) # t
      BY <1>3, <1>4, <3>1, <3>3
    <3> QED
      BY <3>2, <3>3
  <2> QED
    BY <1>1, <1>2, <2>1 DEF WorkInv, CubesApart, CubesShown
<1>7. CubesCounted'
  <2> SUFFICES ASSUME NEW u \in Tenant, status'[u] = "RUNNING", NEW c \in Cube PROVE Accounted(u, c)'
    BY DEF CubesCounted, Cube
  <2>1. Accounted(u, c) /\ status[u] = "RUNNING"
    BY <1>3 DEF WorkInv, CubesCounted
  <2>2. CASE u # t
    BY <1>1, <1>2, <1>3, <2>1, <2>2 DEF Accounted, Results
  <2>3. CASE u = t /\ next'[t] = next[t]
    BY <1>1, <1>2, <2>1, <2>3 DEF Accounted, Results
  <2>4. CASE u = t /\ next[t] >= Cubes
    <3>1. c < next[t] /\ c < next'[t] /\ ~(next[t] <= c)
      BY <1>3, <2>4
    <3> QED
      BY <1>1, <1>2, <2>1, <2>4, <3>1 DEF Accounted, Results
  <2> QED
    BY <1>5, <2>1, <2>2, <2>3, <2>4
<1>8. Completed'
  <2> SUFFICES ASSUME NEW u \in Tenant, status'[u] = "COMPLETED", NEW c \in Cube PROVE cube[u][c] \in Results
    BY <1>1 DEF Completed, Cube, Results
  <2>1. CASE status[u] = "COMPLETED"
    BY <2>1 DEF WorkInv, Completed
  <2>2. CASE status[u] # "COMPLETED"
    <3>1. /\ u = t /\ Matches(id) /\ next[t] >= Cubes
          /\ \A q \in LoopsOf(id[1], id[2]) : pc'[q] = "done"
      BY <1>3, <2>2 DEF Leave, t
    <3>2. \A o \in Waits \cup Works : TenantOf(o) # t
      <4> SUFFICES ASSUME NEW o \in Waits \cup Works, TenantOf(o) = t PROVE FALSE
        OBVIOUS
      <4>1. o \in Loop /\ pc[o] # "done" /\ pc[o] # "next" /\ gen[t] = o[2]
        BY DEF Waits, Works, Matches
      <4>2. gen[t] = id[2]
        BY <3>1 DEF Matches, t
      <4>3. o \in LoopsOf(id[1], id[2])
        BY <4>1, <4>2, LoopNames DEF t
      <4> QED
        BY <1>1, <3>1, <4>1, <4>3
    <3>3. ~(next[t] <= c)
      BY <1>3, <3>1
    <3>4. status[t] = "RUNNING"
      BY <3>1 DEF Matches, t
    <3>5. Accounted(t, c)
      BY <1>3, <3>4 DEF WorkInv, CubesCounted
    <3> QED
      BY <3>1, <3>2, <3>3, <3>5 DEF Accounted
  <2> QED
    BY <2>1, <2>2
<1> QED
  BY <1>1, <1>2, <1>6, <1>7, <1>8 DEF WorkInv

(* A call that begins new generations of the ranges of T leaves no loop of *)
(* theirs that matches and waits or works; those of the others go on.      *)
LEMMA NewGenerations ==
    ASSUME Admissions, NEW T \in SUBSET Tenant,
           \A t \in T : gen'[t] = gen[t] + 1,
           \A t \in Tenant \ T : gen'[t] = gen[t] /\ status'[t] = status[t],
           \A o \in Loop : pc'[o] = pc[o] \/ (pc[o] = "none" /\ pc'[o] = "next")
    PROVE  /\ Waits' = {o \in Waits : TenantOf(o) \notin T}
           /\ Works' = {o \in Works : TenantOf(o) \notin T}
<1>1. ASSUME NEW o \in Loop, TenantOf(o) \in T, pc[o] # "none" PROVE ~Matches(o)'
  <2>1. o[2] \in Nat /\ gen[TenantOf(o)] \in Nat /\ o[2] <= gen[TenantOf(o)]
    BY <1>1, LoopNames, RangeAssumption DEF Admissions, TypeOK, Generations
  <2>2. gen'[TenantOf(o)] # o[2]
    BY <1>1, <2>1
  <2> QED
    BY <2>2 DEF Matches
<1>2. \A o \in Loop : TenantOf(o) \notin T => Matches(o)' = Matches(o)
  BY LoopNames DEF Matches
<1> QED
  BY <1>1, <1>2 DEF Waits, Works

(* Such a call takes their children off active; a range that then runs has *)
(* all its cubes before it.                                                *)
LEMMA CallWorks ==
    ASSUME Admissions, WorkInv, NEW T \in SUBSET Tenant,
           Waits' = {o \in Waits : TenantOf(o) \notin T},
           Works' = {o \in Works : TenantOf(o) \notin T},
           active' = Untracked(T), item' = item,
           \A t \in Tenant \ T : status'[t] = status[t] /\ next'[t] = next[t] /\ cube'[t] = cube[t],
           \A t \in T : status'[t] = "RUNNING" => next'[t] = 0 /\ cube'[t] = IdleCubes,
           \A t \in T : status'[t] = "COMPLETED" => status[t] = "COMPLETED" /\ cube'[t] = cube[t]
    PROVE  WorkInv'
<1>1. active' = Works'
  BY DEF WorkInv, Untracked
<1>2. \A o \in Waits' \cup Works' : o \in Waits \cup Works /\ TenantOf(o) \in Tenant \ T
  BY WorkTypes
<1>3. CubesApart' /\ CubesShown'
  BY <1>2 DEF WorkInv, CubesApart, CubesShown
<1>4. CubesCounted'
  <2> SUFFICES ASSUME NEW u \in Tenant, status'[u] = "RUNNING", NEW c \in Cube PROVE Accounted(u, c)'
    BY DEF CubesCounted, Cube
  <2>1. CASE u \in T
    <3>1. next'[u] = 0 /\ cube'[u][c] = "IDLE" /\ 0 <= c
      BY <2>1, WorkTypes DEF IdleCubes
    <3> QED
      BY <3>1 DEF Accounted
  <2>2. CASE u \notin T
    BY <1>2, <2>2 DEF WorkInv, CubesCounted, Accounted, Results
  <2> QED
    BY <2>1, <2>2
<1>5. Completed'
  BY DEF WorkInv, Completed, Results, Cube
<1> QED
  BY <1>1, <1>3, <1>4, <1>5 DEF WorkInv

LEMMA StartWorks == ASSUME Admissions, WorkInv, NEW t \in Tenant, Start(t) PROVE WorkInv'
<1>1. \A o \in Loop : pc'[o] = pc[o] \/ (pc[o] = "none" /\ pc'[o] = "next")
  <2> SUFFICES ASSUME NEW o \in Loop, o \in LoopsOf(t, gen'[t]) PROVE pc[o] = "none"
    BY DEF Start
  <2>1. gen'[t] = gen[t] + 1 /\ gen[t] \in Nat /\ TenantOf(o) = t /\ o[2] = gen'[t]
    BY DEF Start, Admissions, TypeOK, LoopsOf, TenantOf
  <2>2. ~(o[2] <= gen[TenantOf(o)])
    BY <2>1
  <2> QED
    BY <2>2 DEF Admissions, Generations
<1>2. /\ gen'[t] = gen[t] + 1 /\ status'[t] = "RUNNING" /\ next'[t] = 0 /\ cube'[t] = IdleCubes
      /\ \A u \in Tenant \ {t} : /\ gen'[u] = gen[u] /\ status'[u] = status[u]
                                 /\ next'[u] = next[u] /\ cube'[u] = cube[u]
      /\ active' = Untracked({t}) /\ item' = item
  BY DEF Start, Admissions, TypeOK
<1>3. /\ Waits' = {o \in Waits : TenantOf(o) \notin {t}}
      /\ Works' = {o \in Works : TenantOf(o) \notin {t}}
  BY <1>1, <1>2, NewGenerations
<1> QED
  BY <1>2, <1>3, CallWorks

LEMMA PauseWorks == ASSUME Admissions, WorkInv, NEW t \in Tenant, Pause(t) PROVE WorkInv'
<1>1. /\ gen'[t] = gen[t] + 1 /\ status'[t] = "PAUSED"
      /\ \A u \in Tenant \ {t} : /\ gen'[u] = gen[u] /\ status'[u] = status[u]
                                 /\ next'[u] = next[u] /\ cube'[u] = cube[u]
      /\ active' = Untracked({t}) /\ item' = item /\ pc' = pc
  BY DEF Pause, Admissions, TypeOK
<1>2. \A o \in Loop : pc'[o] = pc[o]
  BY <1>1
<1>3. /\ Waits' = {o \in Waits : TenantOf(o) \notin {t}}
      /\ Works' = {o \in Works : TenantOf(o) \notin {t}}
  <2>1. /\ {t} \in SUBSET Tenant /\ \A u \in {t} : gen'[u] = gen[u] + 1
        /\ \A u \in Tenant \ {t} : gen'[u] = gen[u] /\ status'[u] = status[u]
    BY <1>1
  <2> QED
    BY <1>2, <2>1, NewGenerations
<1> QED
  BY <1>1, <1>3, CallWorks

LEMMA ResetWorks == ASSUME Admissions, WorkInv, NEW t \in Tenant, Reset(t) PROVE WorkInv'
<1>1. /\ gen'[t] = gen[t] + 1 /\ status'[t] = "READY"
      /\ \A u \in Tenant \ {t} : /\ gen'[u] = gen[u] /\ status'[u] = status[u]
                                 /\ next'[u] = next[u] /\ cube'[u] = cube[u]
      /\ active' = Untracked({t}) /\ item' = item /\ pc' = pc
  BY DEF Reset, Admissions, TypeOK
<1>2. \A o \in Loop : pc'[o] = pc[o]
  BY <1>1
<1>3. /\ Waits' = {o \in Waits : TenantOf(o) \notin {t}}
      /\ Works' = {o \in Works : TenantOf(o) \notin {t}}
  <2>1. /\ {t} \in SUBSET Tenant /\ \A u \in {t} : gen'[u] = gen[u] + 1
        /\ \A u \in Tenant \ {t} : gen'[u] = gen[u] /\ status'[u] = status[u]
    BY <1>1
  <2> QED
    BY <1>2, <2>1, NewGenerations
<1> QED
  BY <1>1, <1>3, CallWorks

LEMMA StopAllWorks == ASSUME Admissions, WorkInv, StopAll PROVE WorkInv'
<1>1. /\ \A u \in Tenant : /\ gen'[u] = gen[u] + 1 /\ status'[u] # "RUNNING"
                           /\ status'[u] = "COMPLETED" => status[u] = "COMPLETED"
                           /\ cube'[u] = cube[u]
      /\ active' = Untracked(Tenant) /\ item' = item /\ pc' = pc
  <2>1. Untracked(Tenant) = {}
    BY LoopNames DEF Untracked, Admissions, TypeOK
  <2> QED
    BY <2>1 DEF StopAll, Admissions, TypeOK
<1>2. /\ Waits' = {o \in Waits : TenantOf(o) \notin Tenant}
      /\ Works' = {o \in Works : TenantOf(o) \notin Tenant}
  BY <1>1, NewGenerations
<1> QED
  BY <1>1, <1>2, CallWorks

LEMMA StutterWorks == ASSUME WorkInv, UNCHANGED vars PROVE WorkInv'
<1>1. Waits' = Waits /\ Works' = Works
  BY DEF vars, Waits, Works, Matches
<1> QED
  BY <1>1, SameWork DEF vars

LEMMA WorkKept == ASSUME Admissions, WorkInv, [Next]_vars PROVE WorkInv'
<1>1. ASSUME NEW id \in Loop, Micro(id) PROVE WorkInv'
  BY <1>1, TakeWorks, LeaveWorks, WakeWorks, WithdrawWorks, SpawnWorks, SettleWorks DEF Micro
<1>2. ASSUME NEW t \in Tenant, Start(t) \/ Pause(t) \/ Reset(t) PROVE WorkInv'
  BY <1>2, StartWorks, PauseWorks, ResetWorks
<1> QED
  BY <1>1, <1>2, ChildEndsWorks, SpawnErrorsWorks, StopAllWorks, StutterWorks DEF Next

LEMMA WorkInitially == Init => WorkInv
<1> SUFFICES ASSUME Init PROVE WorkInv
  OBVIOUS
<1>1. Waits = {} /\ Works = {}
  BY DEF Init, Waits, Works
<1> QED
  BY <1>1 DEF Init, WorkInv, CubesApart, CubesShown, CubesCounted, Completed

LEMMA WorkAlways == Spec => [](Admissions /\ WorkInv)
<1>1. Init => Admissions /\ WorkInv
  BY RangeInitially, WorkInitially
<1>2. Admissions /\ WorkInv /\ [Next]_vars => Admissions' /\ WorkInv'
  BY AdmissionKept, WorkKept
<1> QED
  BY <1>1, <1>2, PTL DEF Spec

LEMMA WorkIsShown == Admissions /\ WorkInv => SnapshotsAgree
<1> SUFFICES ASSUME Admissions, WorkInv, NEW t \in Tenant
             PROVE  /\ {id \in active : TenantOf(id) = t} =
                          {id \in Holders : TenantOf(id) = t /\ pc[id] # "admitted" /\ Matches(id)}
                    /\ status[t] = "RUNNING" =>
                          {c \in Cube : cube[t][c] = "RUNNING"} = {item[id] : id \in {o \in active : TenantOf(o) = t}}
                    /\ status[t] = "COMPLETED" => \A c \in Cube : cube[t][c] \in Results
  BY DEF SnapshotsAgree
<1>1. {id \in active : TenantOf(id) = t} =
         {id \in Holders : TenantOf(id) = t /\ pc[id] # "admitted" /\ Matches(id)}
  BY DEF WorkInv, Works, Holders
<1>2. ASSUME status[t] = "RUNNING"
      PROVE  {c \in Cube : cube[t][c] = "RUNNING"} = {item[id] : id \in {o \in active : TenantOf(o) = t}}
  <2>1. ASSUME NEW c \in Cube, cube[t][c] = "RUNNING"
        PROVE  \E id \in active : TenantOf(id) = t /\ item[id] = c
    <3>1. Accounted(t, c)
      BY <1>2 DEF WorkInv, CubesCounted
    <3>2. PICK id \in Waits \cup Works : TenantOf(id) = t /\ item[id] = c
      BY <2>1, <3>1 DEF Accounted, Results
    <3>3. id \notin Waits
      BY <2>1, <3>2 DEF WorkInv, CubesShown
    <3> QED
      BY <3>2, <3>3 DEF WorkInv
  <2>2. ASSUME NEW id \in active, TenantOf(id) = t
        PROVE  item[id] \in Cube /\ cube[t][item[id]] = "RUNNING"
    <3>1. id \in Works
      BY DEF WorkInv
    <3> QED
      BY <2>2, <3>1, WorkTypes DEF WorkInv, CubesApart, CubesShown
  <2> QED
    BY <2>1, <2>2
<1>3. status[t] = "COMPLETED" => \A c \in Cube : cube[t][c] \in Results
  BY DEF WorkInv, Completed
<1> QED
  BY <1>1, <1>2, <1>3

(* A snapshot reports one run: the children tracked are those of the       *)
(* present run, one for each cube that is RUNNING, and a COMPLETED range   *)
(* has a result for every cube.                                            *)
THEOREM SnapshotsOfOneRun == Spec => []SnapshotsAgree
BY WorkAlways, WorkIsShown, PTL

-----------------------------------------------------------------------------
(* Results.                                                                *)

(* What a change of a cube within a run can be.                            *)
ResultsKept ==
    \A t \in Tenant, c \in Cube :
       cube'[t][c] # cube[t][c] /\ gen'[t] = gen[t] =>
          \/ cube[t][c] = "IDLE" /\ cube'[t][c] = "RUNNING"
          \/ /\ cube[t][c] = "RUNNING" /\ cube'[t][c] \in Results
             /\ \E id \in active \ active' : TenantOf(id) = t /\ id[2] = gen[t] /\ item[id] = c

LEMMA SpawnResults == ASSUME Admissions, WorkInv, NEW id \in Loop, Spawn(id) PROVE ResultsKept
<1>1. id \in Waits /\ cube' = [cube EXCEPT ![TenantOf(id)][item[id]] = "RUNNING"]
  BY DEF Spawn, Due, Waits
<1>2. item[id] \in Cube /\ TenantOf(id) \in Tenant /\ cube[TenantOf(id)][item[id]] = "IDLE"
  BY <1>1, WorkTypes DEF WorkInv, CubesApart, CubesShown
<1> QED
  BY <1>1, <1>2, WorkTypes DEF ResultsKept

LEMMA SettleResults == ASSUME Admissions, WorkInv, NEW id \in Loop, Settle(id) PROVE ResultsKept
<1>1. /\ pc[id] = "settled" /\ active' = active \ {id}
      /\ cube' = [cube EXCEPT ![TenantOf(id)] =
                     IF Matches(id) THEN [@ EXCEPT ![item[id]] = result[id]] ELSE @]
  BY DEF Settle, Due
<1>2. result[id] \in Results
  BY DEF Admissions, TypeOK
<1>3. CASE ~Matches(id)
  <2>1. cube' = cube
    BY <1>1, <1>3, WorkTypes
  <2> QED
    BY <2>1 DEF ResultsKept
<1>4. CASE Matches(id)
  <2>1. id \in Works /\ id \in active \ active' /\ id[2] = gen[TenantOf(id)]
    BY <1>1, <1>4 DEF WorkInv, Works, Matches
  <2>2. item[id] \in Cube /\ TenantOf(id) \in Tenant /\ cube[TenantOf(id)][item[id]] = "RUNNING"
    BY <2>1, WorkTypes DEF WorkInv, CubesApart, CubesShown
  <2>3. \A t \in Tenant, c \in Cube :
           cube'[t][c] = IF t = TenantOf(id) /\ c = item[id] THEN result[id] ELSE cube[t][c]
    BY <1>1, <1>4, <2>2, WorkTypes
  <2> QED
    BY <1>2, <2>1, <2>2, <2>3 DEF ResultsKept
<1> QED
  BY <1>3, <1>4

LEMMA CallResults ==
    ASSUME Admissions, NEW t \in Tenant, Start(t) \/ Pause(t) \/ Reset(t)
    PROVE  ResultsKept
<1>1. gen[t] \in Nat /\ gen'[t] = gen[t] + 1 /\ \A u \in Tenant : u # t => cube'[u] = cube[u]
  BY DEF Start, Pause, Reset, Admissions, TypeOK
<1> QED
  BY <1>1 DEF ResultsKept

(* A result stays until the next start or reset, and no late child of an   *)
(* earlier run writes into a later one.                                    *)
THEOREM ResultsRemain == Spec => ResultsStay
<1>1. ASSUME Admissions, WorkInv, [Next]_vars, ~UNCHANGED vars PROVE ResultsKept
  <2>1. CASE UNCHANGED cube
    BY <2>1 DEF ResultsKept
  <2>2. CASE \E id \in Loop : Spawn(id) \/ Settle(id)
    BY <1>1, <2>2, SpawnResults, SettleResults
  <2>3. CASE \E t \in Tenant : Start(t) \/ Pause(t) \/ Reset(t)
    BY <1>1, <2>3, CallResults
  <2>4. CASE \E id \in Loop : Take(id) \/ Leave(id) \/ Wake(id) \/ Withdraw(id) \/ ChildEnds(id)
    BY <2>1, <2>4 DEF Take, Leave, Wake, Withdraw, ChildEnds
  <2>5. CASE SpawnErrors \/ StopAll
    BY <2>1, <2>5 DEF SpawnErrors, StopAll
  <2> QED
    BY <1>1, <2>2, <2>3, <2>4, <2>5 DEF Next, Micro
<1>2. Admissions /\ WorkInv /\ [Next]_vars => [ResultsKept]_vars
  BY <1>1
<1> QED
  BY <1>2, WorkAlways, PTL DEF Spec, ResultsStay, ResultsKept
=============================================================================
