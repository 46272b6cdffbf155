-------------------------- MODULE CountedPlacesProofs --------------------------
(* Theorems about the two parts of the API server that give out a counted  *)
(* number of places: the free tests of SecurityTestQuota and the children  *)
(* and node slots of NodeCluster.  The parts share no state, and each      *)
(* theorem is about the specification it names.  In both, what has to be   *)
(* shown is that a place found free is still free when it is taken, and    *)
(* that places are given back once.                                        *)
EXTENDS SecurityTestQuota, NodeCluster, FiniteSetTheorems, SequenceTheorems,
        WellFoundedInduction, TLAPS

-----------------------------------------------------------------------------
(* Free tests: any finite set of requests, any users, tenants and limit.   *)

(* The number of free tests is monotonic.                                  *)
LEMMA FewerTaken ==
    ASSUME NEW B \in SUBSET Request, NEW A \in SUBSET B
    PROVE  /\ Cardinality(A) \in Nat /\ Cardinality(B) \in Nat
           /\ Cardinality(A) <= Cardinality(B)
<1>1. IsFiniteSet(B)
  BY FS_Subset, QuotaAssumption
<1> QED
  BY <1>1, FS_Subset, FS_CardinalityType

(* One more request takes at most one more place.                          *)
LEMMA OneMoreTaken ==
    ASSUME NEW B \in SUBSET Request, NEW r \in Request
    PROVE  /\ Cardinality(B \cup {r}) \in Nat /\ Cardinality(B) \in Nat
           /\ Cardinality(B \cup {r}) <= Cardinality(B) + 1
<1>1. IsFiniteSet(B)
  BY FS_Subset, QuotaAssumption
<1>2. r \in B => B \cup {r} = B
  OBVIOUS
<1>3. IsFiniteSet(B \cup {r}) /\ Cardinality(B \cup {r}) = IF r \in B THEN Cardinality(B) ELSE Cardinality(B) + 1
  BY <1>1, <1>2, FS_AddElement
<1>4. Cardinality(B) \in Nat
  BY <1>1, FS_CardinalityType
<1> QED
  BY <1>3, <1>4

(* Nothing is taken at first.                                              *)
LEMMA QuotaInitially == Init => QuotaInv
<1> SUFFICES ASSUME Init PROVE QuotaInv
  OBVIOUS
<1> USE QuotaAssumption
<1>1. \A k \in Key : Taken(k) = {} /\ {r \in RowsOf(k) : r \in worked \ lapsed} = {}
  BY DEF Init, Taken, RowsOf
<1>2. WithinLimit /\ FreeTests
  BY <1>1, FS_EmptySet DEF WithinLimit, FreeTests
<1>3. TypeOK /\ LocksHeld /\ PlaceLeft /\ RowsExplained
  BY DEF Init, TypeOK, LocksHeld, PlaceLeft, RowsExplained, Active, Reserving
<1> QED
  BY <1>2, <1>3 DEF QuotaInv

(* Every action keeps the types.                                           *)
LEMMA TypesKept == ASSUME QuotaInv, [Next]_vars PROVE TypeOK'
<1> USE QuotaAssumption
<1> USE DEF QuotaInv, TypeOK, Active, Reserving, Goto, Commit
<1>1. ASSUME NEW r \in Request, Billing(r) PROVE TypeOK'
  BY <1>1 DEF Billing
<1>2. ASSUME NEW r \in Request, Lock(r) PROVE TypeOK'
  BY <1>2 DEF Lock
<1>3. ASSUME NEW r \in Request, Expire(r) PROVE TypeOK'
  BY <1>3 DEF Expire, RowsOf
<1>4. ASSUME NEW r \in Request, Count(r) PROVE TypeOK'
  BY <1>4 DEF Count
<1>5. ASSUME NEW r \in Request, Insert(r) PROVE TypeOK'
  BY <1>5 DEF Insert
<1>6. ASSUME NEW r \in Request, Test(r) PROVE TypeOK'
  BY <1>6 DEF Test
<1>7. ASSUME NEW r \in Request, Complete(r) PROVE TypeOK'
  BY <1>7 DEF Complete, Settled
<1>8. ASSUME NEW r \in Request, Release(r) PROVE TypeOK'
  BY <1>8 DEF Release, Settled
<1>9. ASSUME NEW r \in Request, Age(r) PROVE TypeOK'
  BY <1>9 DEF Age
<1>10. ASSUME NEW r \in Request, Die(r) PROVE TypeOK'
  BY <1>10 DEF Die
<1>11. CASE UNCHANGED vars
  BY <1>11 DEF vars
<1> QED
  BY <1>1, <1>2, <1>3, <1>4, <1>5, <1>6, <1>7, <1>8, <1>9, <1>10, <1>11 DEF Next, Go

(* Every action keeps locks and rows in order.                             *)
LEMMA RowsKept == ASSUME QuotaInv, [Next]_vars PROVE LocksHeld' /\ RowsExplained'
<1> USE QuotaAssumption
<1> USE DEF QuotaInv, TypeOK, LocksHeld, RowsExplained, Active, Reserving, Goto, Commit, RowsOf
<1>1. ASSUME NEW r \in Request, Billing(r) PROVE LocksHeld' /\ RowsExplained'
  <2>1. CASE pc' = [pc EXCEPT ![r] = "done"] /\ UNCHANGED paid
    BY <1>1, <2>1 DEF Billing
  <2>2. ASSUME NEW p \in BOOLEAN, paid' = [paid EXCEPT ![r] = p], pc' = [pc EXCEPT ![r] = "lock"]
        PROVE  LocksHeld' /\ RowsExplained'
    BY <1>1, <2>2 DEF Billing
  <2> QED
    BY <1>1, <2>1, <2>2 DEF Billing
<1>2. ASSUME NEW r \in Request, Lock(r) PROVE LocksHeld' /\ RowsExplained'
  BY <1>2 DEF Lock
<1>3. ASSUME NEW r \in Request, Expire(r) PROVE LocksHeld' /\ RowsExplained'
  BY <1>3 DEF Expire
<1>4. ASSUME NEW r \in Request, Count(r) PROVE LocksHeld' /\ RowsExplained'
  BY <1>4 DEF Count
<1>5. ASSUME NEW r \in Request, Insert(r) PROVE LocksHeld' /\ RowsExplained'
  <2>1. LocksHeld'
    BY <1>5 DEF Insert
  <2>2. RowsExplained'
    BY <1>5 DEF Insert
  <2> QED
    BY <2>1, <2>2
<1>6. ASSUME NEW r \in Request, Test(r) PROVE LocksHeld' /\ RowsExplained'
  <2>1. CASE worked' = (IF paid[r] THEN worked ELSE worked \cup {r}) /\ pc' = [pc EXCEPT ![r] = "complete"]
    <3>1. CASE paid[r]
      <4>1. worked' = worked
        BY <2>1, <3>1
      <4> QED
        BY <1>6, <2>1, <3>1, <4>1 DEF Test
    <3>2. CASE ~paid[r]
      <4>1. worked' = worked \cup {r}
        BY <2>1, <3>2
      <4>2. LocksHeld'
        BY <1>6, <2>1, <3>2, <4>1 DEF Test
      <4>3. /\ pc[r] = "granted" /\ pc' = [pc EXCEPT ![r] = "complete"]
            /\ UNCHANGED <<paid, row, lapsed>>
        BY <1>6, <2>1 DEF Test
      <4>4. row[r] \in {"RESERVED", "COMPLETED", "RELEASED"}
        BY <3>2, <4>3
      <4>5. row[r] # "RELEASED" \/ r \in lapsed
        BY <4>3
      <4>6. RowsExplained'
        BY <3>2, <4>1, <4>3, <4>4, <4>5
      <4> QED
        BY <4>2, <4>6
    <3> QED
      BY <3>1, <3>2
  <2>2. CASE pc' = [pc EXCEPT ![r] = "release"] /\ UNCHANGED worked
    BY <1>6, <2>2 DEF Test
  <2> QED
    BY <1>6, <2>1, <2>2 DEF Test
<1>7. ASSUME NEW r \in Request, Complete(r) PROVE LocksHeld' /\ RowsExplained'
  <2>1. CASE UNCHANGED row /\ pc' = [pc EXCEPT ![r] = "release"]
    BY <1>7, <2>1 DEF Complete
  <2>2. CASE ~RowLocked(r) /\ row' = Settled(r, "COMPLETED") /\ pc' = [pc EXCEPT ![r] = "done"]
    BY <1>7, <2>2 DEF Complete, Settled, RowLocked
  <2>3. CASE ~RowLocked(r) /\ row' = Settled(r, "COMPLETED") /\ pc' = [pc EXCEPT ![r] = "release"]
    BY <1>7, <2>3 DEF Complete, Settled, RowLocked
  <2> QED
    BY <1>7, <2>1, <2>2, <2>3 DEF Complete
<1>8. ASSUME NEW r \in Request, Release(r) PROVE LocksHeld' /\ RowsExplained'
  BY <1>8 DEF Release, Settled, RowLocked
<1>9. ASSUME NEW r \in Request, Age(r) PROVE LocksHeld' /\ RowsExplained'
  BY <1>9 DEF Age
<1>10. ASSUME NEW r \in Request, Die(r) PROVE LocksHeld' /\ RowsExplained'
  BY <1>10 DEF Die
<1>11. CASE UNCHANGED vars
  BY <1>11 DEF vars
<1> QED
  BY <1>1, <1>2, <1>3, <1>4, <1>5, <1>6, <1>7, <1>8, <1>9, <1>10, <1>11 DEF Next, Go

(* The places counted by a request that goes to insert are still the ones  *)
(* it counted, and no place is taken but by an insert.                     *)
LEMMA PlacesKept == ASSUME QuotaInv, [Next]_vars PROVE PlaceLeft' /\ WithinLimit'
<1> USE QuotaAssumption
<1> DEFINE Open == {"RESERVED", "COMPLETED"}
<1>a. /\ \A s \in Request : Counted(s) \in SUBSET Request
      /\ \A k \in Key : Taken(k) \in SUBSET Request
  BY DEF Counted, Taken, RowsOf
<1>b. ASSUME NEW s \in Request, pc[s] = "insert", Counted(s)' \subseteq Counted(s)
      PROVE  Cardinality(Counted(s)') < Limit
  <2>1. Cardinality(Counted(s)) \in Nat /\ Cardinality(Counted(s)) < Limit
    BY <1>a, <1>b, FewerTaken DEF QuotaInv, PlaceLeft
  <2>2. Cardinality(Counted(s)') \in Nat /\ Cardinality(Counted(s)') <= Cardinality(Counted(s))
    BY <1>a, <1>b, FewerTaken
  <2> QED
    BY <2>1, <2>2
<1>c. ASSUME NEW k \in Key, Taken(k)' \subseteq Taken(k)
      PROVE  Cardinality(Taken(k)') <= Limit
  <2>1. Cardinality(Taken(k)) \in Nat /\ Cardinality(Taken(k)) <= Limit
    BY <1>a, FewerTaken DEF QuotaInv, WithinLimit
  <2>2. Cardinality(Taken(k)') \in Nat /\ Cardinality(Taken(k)') <= Cardinality(Taken(k))
    BY <1>a, <1>c, FewerTaken
  <2> QED
    BY <2>1, <2>2
<1>1. ASSUME \A q \in Request : row'[q] \in Open => row[q] \in Open PROVE WithinLimit'
  <2>1. \A k \in Key : Taken(k)' \subseteq Taken(k)
    BY <1>1 DEF Taken, RowsOf
  <2> QED
    BY <1>c, <2>1 DEF WithinLimit
<1>2. ASSUME \A q \in Request : row'[q] \in Open => row[q] \in Open,
             \A s \in Request : pc'[s] = "insert" => pc[s] = "insert" /\ expired'[s] = expired[s]
      PROVE  PlaceLeft'
  <2>1. \A s \in Request : pc'[s] = "insert" => Counted(s)' \subseteq Counted(s)
    BY <1>2 DEF Counted, RowsOf
  <2> QED
    BY <1>2, <1>b, <2>1 DEF PlaceLeft
<1>3. ASSUME NEW r \in Request, Insert(r) PROVE PlaceLeft' /\ WithinLimit'
  <2>1. /\ pc[r] = "insert" /\ pc' = [pc EXCEPT ![r] = "granted"]
        /\ \A q \in Request : q \notin expired[r] /\ q # r => row'[q] = row[q]
        /\ \A q \in expired[r] : row'[q] = "RELEASED"
        /\ expired' = [expired EXCEPT ![r] = {}]
    BY <1>3 DEF Insert, Commit, Goto, QuotaInv, TypeOK
  <2>2. \A q \in expired[r] : Owner[q] = Owner[r]
    BY DEF QuotaInv, LocksHeld
  <2>3. ASSUME NEW s \in Request, pc'[s] = "insert"
        PROVE  Cardinality(Counted(s)') < Limit
    <3>1. s # r /\ pc[s] = "insert" /\ expired'[s] = expired[s]
      BY <2>1, <2>3 DEF QuotaInv, TypeOK
    <3>2. Owner[s] # Owner[r]
      BY <2>1, <3>1 DEF QuotaInv, LocksHeld, Reserving
    <3>3. Counted(s)' \subseteq Counted(s)
      BY <2>1, <2>2, <3>1, <3>2 DEF Counted, RowsOf
    <3> QED
      BY <1>b, <3>1, <3>3
  <2>4. ASSUME NEW k \in Key PROVE Cardinality(Taken(k)') <= Limit
    <3>1. CASE k # Owner[r]
      <4>1. Taken(k)' \subseteq Taken(k)
        BY <2>1, <2>2, <3>1 DEF Taken, RowsOf
      <4> QED
        BY <1>c, <4>1
    <3>2. CASE k = Owner[r]
      <4>1. Taken(k)' \subseteq Counted(r) \cup {r}
        BY <2>1, <3>2 DEF Taken, Counted, RowsOf
      <4>2. /\ Cardinality(Counted(r)) \in Nat /\ Cardinality(Counted(r)) < Limit
            /\ Counted(r) \cup {r} \in SUBSET Request
        BY <1>a, <2>1, FewerTaken DEF QuotaInv, PlaceLeft
      <4>3. /\ Cardinality(Counted(r) \cup {r}) \in Nat
            /\ Cardinality(Counted(r) \cup {r}) <= Cardinality(Counted(r)) + 1
        BY <1>a, OneMoreTaken
      <4>4. /\ Cardinality(Taken(k)') \in Nat
            /\ Cardinality(Taken(k)') <= Cardinality(Counted(r) \cup {r})
        BY <4>1, <4>2, FewerTaken
      <4> QED
        BY <4>2, <4>3, <4>4
    <3> QED
      BY <3>1, <3>2
  <2> QED
    BY <2>3, <2>4 DEF PlaceLeft, WithinLimit
<1>4. ASSUME NEW r \in Request, Count(r) PROVE PlaceLeft' /\ WithinLimit'
  <2>1. CASE Commit(r, row) /\ (Goto(r, "granted") \/ Goto(r, "done"))
    <3>1. /\ \A q \in Request : row'[q] \in Open => row[q] \in Open
          /\ \A s \in Request : pc'[s] = "insert" => pc[s] = "insert" /\ expired'[s] = expired[s]
      BY <2>1 DEF Commit, Goto, QuotaInv, TypeOK
    <3> QED
      BY <1>1, <1>2, <3>1
  <2>2. CASE Cardinality(Counted(r)) < Limit /\ Goto(r, "insert") /\ UNCHANGED <<row, expired, lock, lapsed>>
    <3>1. \A s \in Request : Counted(s)' = Counted(s)
      BY <2>2 DEF Counted, RowsOf
    <3>2. \A s \in Request : pc'[s] = "insert" => s = r \/ pc[s] = "insert"
      BY <2>2 DEF Goto, QuotaInv, TypeOK
    <3>3. PlaceLeft'
      BY <2>2, <3>1, <3>2 DEF PlaceLeft, QuotaInv
    <3> QED
      BY <1>1, <2>2, <3>3
  <2> QED
    BY <1>4, <2>1, <2>2 DEF Count
<1>5. ASSUME NEW r \in Request,
             Billing(r) \/ Lock(r) \/ Expire(r) \/ Test(r) \/ Complete(r) \/ Release(r) \/ Age(r) \/ Die(r)
      PROVE  PlaceLeft' /\ WithinLimit'
  <2>1. \A q \in Request : row'[q] \in Open => row[q] \in Open
    BY <1>5 DEF Billing, Lock, Expire, Test, Complete, Release, Age, Die, Settled, QuotaInv, TypeOK
  <2>2. pc'[r] # "insert" \/ (pc'[r] = pc[r] /\ expired' = expired)
    BY <1>5 DEF Billing, Lock, Expire, Test, Complete, Release, Age, Die, Goto, QuotaInv, TypeOK
  <2>3. \A s \in Request : s # r => pc'[s] = pc[s] /\ expired'[s] = expired[s]
    BY <1>5 DEF Billing, Lock, Expire, Test, Complete, Release, Age, Die, Goto, QuotaInv, TypeOK
  <2> QED
    BY <1>1, <1>2, <2>1, <2>2, <2>3
<1>6. CASE UNCHANGED vars
  BY <1>1, <1>2, <1>6 DEF vars
<1> QED
  BY <1>3, <1>4, <1>5, <1>6 DEF Next, Go

(* However many requests of whatever instances run at the same time, fail  *)
(* or die (security-test-quota.ts: reserveSecurityTestQuota), no user gets *)
(* more free tests than the limit.                                         *)
THEOREM QuotaInvariant == Spec => []QuotaInv
<1>1. Init => QuotaInv
  BY QuotaInitially
<1>2. TypeOK /\ RowsExplained /\ WithinLimit => FreeTests
  <2> SUFFICES ASSUME TypeOK, RowsExplained, WithinLimit, NEW k \in Key
               PROVE  Cardinality({r \in RowsOf(k) : r \in worked \ lapsed}) <= Limit
    BY DEF FreeTests
  <2>1. /\ {r \in RowsOf(k) : r \in worked \ lapsed} \in SUBSET Taken(k)
        /\ Taken(k) \in SUBSET Request
    BY DEF RowsExplained, Taken, RowsOf
  <2>2. Cardinality(Taken(k)) <= Limit
    BY DEF WithinLimit
  <2> QED
    BY <2>1, <2>2, FewerTaken, QuotaAssumption
<1> DEFINE Kept == TypeOK /\ LocksHeld /\ PlaceLeft /\ WithinLimit /\ RowsExplained
<1>3. Kept => QuotaInv
  BY <1>2 DEF QuotaInv
<1>4. Kept /\ [Next]_vars => Kept'
  BY <1>3, TypesKept, RowsKept, PlacesKept
<1>5. QuotaInv => Kept
  BY DEF QuotaInv
<1> HIDE DEF Kept
<1> QED
  BY <1>1, <1>3, <1>4, <1>5, PTL DEF Spec

(* The advisory lock is held by a request of its key whose transaction is  *)
(* open, until that ends, whichever way.                                   *)
HoldersReserve ==
    \A k \in Key : lock[k] # NoOne =>
        lock[k] \in Request /\ Owner[lock[k]] = k /\ pc[lock[k]] \in Reserving

LEMMA HoldersKept == ASSUME QuotaInv, HoldersReserve, [Next]_vars PROVE HoldersReserve'
<1> USE QuotaAssumption
<1> USE DEF QuotaInv, TypeOK, LocksHeld, HoldersReserve, Reserving, Active, Goto, Commit
<1>1. ASSUME NEW r \in Request, Billing(r) PROVE HoldersReserve'
  BY <1>1 DEF Billing
<1>2. ASSUME NEW r \in Request, Lock(r) PROVE HoldersReserve'
  BY <1>2 DEF Lock
<1>3. ASSUME NEW r \in Request, Expire(r) PROVE HoldersReserve'
  BY <1>3 DEF Expire
<1>4. ASSUME NEW r \in Request, Count(r) PROVE HoldersReserve'
  BY <1>4 DEF Count
<1>5. ASSUME NEW r \in Request, Insert(r) PROVE HoldersReserve'
  BY <1>5 DEF Insert
<1>6. ASSUME NEW r \in Request, Test(r) PROVE HoldersReserve'
  BY <1>6 DEF Test
<1>7. ASSUME NEW r \in Request, Complete(r) PROVE HoldersReserve'
  BY <1>7 DEF Complete
<1>8. ASSUME NEW r \in Request, Release(r) PROVE HoldersReserve'
  BY <1>8 DEF Release
<1>9. ASSUME NEW r \in Request, Age(r) PROVE HoldersReserve'
  BY <1>9 DEF Age
<1>10. ASSUME NEW r \in Request, Die(r) PROVE HoldersReserve'
  BY <1>10 DEF Die
<1>11. CASE UNCHANGED vars
  BY <1>11 DEF vars
<1> QED
  BY <1>1, <1>2, <1>3, <1>4, <1>5, <1>6, <1>7, <1>8, <1>9, <1>10, <1>11 DEF Next, Go

(* Nobody waits for somebody who waits: the holder of the advisory lock,   *)
(* and the transaction that has locked a row, are at statements that wait  *)
(* for nothing (reserveSecurityTestQuota takes the advisory lock first,    *)
(* complete and release take none), so no requests can block each other.   *)
WaitsEnd ==
    \A r \in Request :
       /\ pc[r] = "lock" /\ lock[Owner[r]] # NoOne => pc[lock[Owner[r]]] \in Reserving
       /\ RowLocked(r) => \E q \in Request : r \in expired[q] /\ pc[q] \in Reserving

THEOREM NobodyWaitsForAWaiter == Spec => []WaitsEnd
<1>1. Init => HoldersReserve
  BY DEF Init, HoldersReserve
<1>2. QuotaInv /\ HoldersReserve /\ [Next]_vars => HoldersReserve'
  BY HoldersKept
<1>3. QuotaInv /\ HoldersReserve => WaitsEnd
  BY QuotaAssumption DEF QuotaInv, LocksHeld, HoldersReserve, WaitsEnd, RowLocked, Reserving
<1> QED
  BY <1>1, <1>2, <1>3, QuotaInvariant, PTL DEF Spec

-----------------------------------------------------------------------------
(* Node slots: any tenants, nodes, messages and limits.                    *)

(* Induction over numbers: a set of them that is not empty has a least one.*)
LEMMA LeastNatural ==
    ASSUME NEW T, T \subseteq Nat, T # {}
    PROVE  \E n \in T : \A m \in T : n <= m
<1> DEFINE R == {ss \in Nat \X Nat : ss[1] < ss[2]}
<1>1. IsWellFoundedOn(R, Nat)
  BY NatLessThanWellFounded DEF OpToRel
<1>2. PICK n \in T : \A m \in T : ~(<<m, n>> \in R)
  <2> HIDE DEF R
  <2> QED
    BY <1>1, WFMin
<1>3. \A m \in T : ~(m < n)
  BY <1>2
<1> QED
  BY <1>3

-----------------------------------------------------------------------------
(* Which node is selected.                                                 *)

(* Fractions are compared by products: a / p <= b / q <= c / r.            *)
LEMMA Crosswise ==
    ASSUME NEW a \in Nat, NEW b \in Nat, NEW c \in Nat,
           NEW p \in Nat \ {0}, NEW q \in Nat \ {0}, NEW r \in Nat \ {0},
           a * q <= b * p, b * r <= c * q
    PROVE  /\ a * r <= c * p
           /\ a * q < b * p \/ b * r < c * q => a * r < c * p
<1>1. /\ (a * q) * r <= (b * p) * r /\ (b * r) * p <= (c * q) * p
      /\ a * q < b * p => (a * q) * r < (b * p) * r
      /\ b * r < c * q => (b * r) * p < (c * q) * p
  <2>1. \A x, y \in Nat, z \in Nat \ {0} : /\ x <= y => x * z <= y * z
                                           /\ x < y => x * z < y * z
    OBVIOUS
  <2>2. /\ a * q \in Nat /\ b * p \in Nat /\ b * r \in Nat /\ c * q \in Nat
    OBVIOUS
  <2> QED
    BY <2>1, <2>2
<1>2. /\ (b * p) * r = (b * r) * p
      /\ (a * q) * r = (a * r) * q
      /\ (c * q) * p = (c * p) * q
  OBVIOUS
<1>3. /\ (a * r) * q <= (c * p) * q
      /\ a * q < b * p \/ b * r < c * q => (a * r) * q < (c * p) * q
  <2>1. (a * q) * r \in Nat /\ (b * p) * r \in Nat /\ (c * q) * p \in Nat
    OBVIOUS
  <2> QED
    BY <1>1, <1>2, <2>1
<1>4. \A x, y \in Nat, z \in Nat \ {0} : /\ x * z <= y * z => x <= y
                                         /\ x * z < y * z => x < y
  OBVIOUS
<1>5. a * r \in Nat /\ c * p \in Nat
  OBVIOUS
<1> QED
  BY <1>3, <1>4, <1>5

(* Of a scheduler's state, the counters matter for the order of nodes.     *)
LEMMA BetterOrders ==
    ASSUME NEW m, NEW x \in Tenant, m.load \in [Tenant -> [Node -> Nat]],
           NEW a \in Node, NEW b \in Node, NEW c \in Node
    PROVE  /\ Better(m, x, a, b) \/ Better(m, x, b, a)
           /\ Better(m, x, a, b) /\ Better(m, x, b, c) => Better(m, x, a, c)
<1> DEFINE la == m.load[x][a]
           lb == m.load[x][b]
           lc == m.load[x][c]
           ca == Capacity[a]
           cb == Capacity[b]
           cc == Capacity[c]
<1>1. /\ la \in Nat /\ lb \in Nat /\ lc \in Nat
      /\ ca \in Nat \ {0} /\ cb \in Nat \ {0} /\ cc \in Nat \ {0}
      /\ Health[a] \in Nat /\ Health[b] \in Nat /\ Health[c] \in Nat
      /\ a \in Nat /\ b \in Nat /\ c \in Nat
  <2>1. /\ Node \subseteq Nat /\ Capacity \in [Node -> Nat \ {0}] /\ Health \in [Node -> Nat]
    BY ClusterAssumption
  <2>2. la \in Nat /\ lb \in Nat /\ lc \in Nat
    OBVIOUS
  <2>3. ca \in Nat \ {0} /\ cb \in Nat \ {0} /\ cc \in Nat \ {0}
    BY <2>1
  <2>4. Health[a] \in Nat /\ Health[b] \in Nat /\ Health[c] \in Nat
    BY <2>1
  <2>5. a \in Nat /\ b \in Nat /\ c \in Nat
    BY <2>1
  <2> QED
    BY <2>2, <2>3, <2>4, <2>5
<1>2. /\ la * cb \in Nat /\ lb * ca \in Nat /\ lb * cc \in Nat
      /\ lc * cb \in Nat /\ la * cc \in Nat /\ lc * ca \in Nat
  <2> HIDE DEF la, lb, lc, ca, cb, cc
  <2> QED
    BY <1>1
<1>3. Better(m, x, a, b) <=> \/ la * cb < lb * ca
                             \/ la * cb = lb * ca /\ Health[a] > Health[b]
                             \/ la * cb = lb * ca /\ Health[a] = Health[b] /\ a <= b
  BY DEF Better
<1>4. Better(m, x, b, a) <=> \/ lb * ca < la * cb
                             \/ lb * ca = la * cb /\ Health[b] > Health[a]
                             \/ lb * ca = la * cb /\ Health[b] = Health[a] /\ b <= a
  BY DEF Better
<1>5. Better(m, x, b, c) <=> \/ lb * cc < lc * cb
                             \/ lb * cc = lc * cb /\ Health[b] > Health[c]
                             \/ lb * cc = lc * cb /\ Health[b] = Health[c] /\ b <= c
  BY DEF Better
<1>6. Better(m, x, a, c) <=> \/ la * cc < lc * ca
                             \/ la * cc = lc * ca /\ Health[a] > Health[c]
                             \/ la * cc = lc * ca /\ Health[a] = Health[c] /\ a <= c
  BY DEF Better
<1>7. la * cb <= lb * ca /\ lb * cc <= lc * cb =>
        /\ la * cc <= lc * ca
        /\ la * cb < lb * ca \/ lb * cc < lc * cb => la * cc < lc * ca
  <2> HIDE DEF la, lb, lc, ca, cb, cc
  <2> QED
    BY <1>1, Crosswise
<1>8. la * cb = lb * ca /\ lb * cc = lc * cb => la * cc = lc * ca
  <2> HIDE DEF la, lb, lc, ca, cb, cc
  <2>1. la * cb = lb * ca /\ lb * cc = lc * cb => lc * ca <= la * cc
    <3> SUFFICES ASSUME la * cb = lb * ca, lb * cc = lc * cb PROVE lc * ca <= la * cc
      OBVIOUS
    <3>1. lc * cb <= lb * cc /\ lb * ca <= la * cb
      BY <1>2
    <3> QED
      BY <1>1, <3>1, Crosswise
  <2> QED
    BY <1>2, <1>7, <2>1
<1> HIDE DEF la, lb, lc, ca, cb, cc
<1> DEFINE ab == la * cb
           ba == lb * ca
           bc == lb * cc
           cb2 == lc * cb
           ac == la * cc
           ca2 == lc * ca
<1>9. /\ ab \in Nat /\ ba \in Nat /\ bc \in Nat /\ cb2 \in Nat /\ ac \in Nat /\ ca2 \in Nat
      /\ (ab <= ba /\ bc <= cb2 => ac <= ca2 /\ (ab < ba \/ bc < cb2 => ac < ca2))
      /\ (ab = ba /\ bc = cb2 => ac = ca2)
      /\ (Better(m, x, a, b) <=> ab < ba \/ (ab = ba /\ Health[a] > Health[b])
                                 \/ (ab = ba /\ Health[a] = Health[b] /\ a <= b))
      /\ (Better(m, x, b, a) <=> ba < ab \/ (ba = ab /\ Health[b] > Health[a])
                                 \/ (ba = ab /\ Health[b] = Health[a] /\ b <= a))
      /\ (Better(m, x, b, c) <=> bc < cb2 \/ (bc = cb2 /\ Health[b] > Health[c])
                                 \/ (bc = cb2 /\ Health[b] = Health[c] /\ b <= c))
      /\ (Better(m, x, a, c) <=> ac < ca2 \/ (ac = ca2 /\ Health[a] > Health[c])
                                 \/ (ac = ca2 /\ Health[a] = Health[c] /\ a <= c))
  BY <1>2, <1>3, <1>4, <1>5, <1>6, <1>7, <1>8
<1> HIDE DEF ab, ba, bc, cb2, ac, ca2
<1>10. Better(m, x, a, b) \/ Better(m, x, b, a)
  BY <1>1, <1>9
<1>11. Better(m, x, a, b) /\ Better(m, x, b, c) => Better(m, x, a, c)
  BY <1>1, <1>9
<1> QED
  BY <1>10, <1>11

(* So some node of every choice is the best: the best of a smaller choice, *)
(* or the one that was left out of it.                                     *)
LEMMA BestOfNodes ==
    ASSUME NEW m, NEW x \in Tenant, m.load \in [Tenant -> [Node -> Nat]],
           NEW C \in SUBSET Node, C # {}
    PROVE  \E n \in C : \A o \in C : Better(m, x, n, o)
<1> DEFINE HasBest(S) == \E n \in S : \A o \in S : Better(m, x, n, o)
           Bad == {k \in Nat : \E S \in SUBSET Node : S # {} /\ Cardinality(S) = k /\ ~HasBest(S)}
<1>1. \A S \in SUBSET Node : IsFiniteSet(S) /\ Cardinality(S) \in Nat
  BY ClusterAssumption, FS_Subset, FS_CardinalityType
<1>2. ASSUME Bad # {} PROVE FALSE
  <2>1. PICK k \in Bad : \A j \in Bad : k <= j
    <3>1. Bad \subseteq Nat
      OBVIOUS
    <3> HIDE DEF Bad
    <3> QED
      BY <1>2, <3>1, LeastNatural
  <2>2. PICK S \in SUBSET Node : S # {} /\ Cardinality(S) = k /\ ~HasBest(S)
    BY <2>1
  <2>3. PICK s \in S : TRUE
    BY <2>2
  <2>4. S \ {s} \in SUBSET Node /\ Cardinality(S \ {s}) = k - 1
    BY <1>1, <2>2, <2>3, FS_RemoveElement
  <2>5. k - 1 \in Nat
    BY <1>1, <2>4
  <2>6. k - 1 \notin Bad
    BY <2>1, <2>5
  <2>7. S \ {s} # {} => HasBest(S \ {s})
    BY <2>4, <2>5, <2>6
  <2>8. CASE S \ {s} = {}
    <3>1. S = {s}
      BY <2>3, <2>8
    <3>2. Better(m, x, s, s)
      BY <2>3, BetterOrders
    <3> QED
      BY <2>2, <3>1, <3>2
  <2>9. CASE S \ {s} # {}
    <3>1. PICK b \in S \ {s} : \A o \in S \ {s} : Better(m, x, b, o)
      BY <2>7, <2>9
    <3>2. CASE Better(m, x, b, s)
      BY <2>2, <3>1, <3>2
    <3>3. CASE Better(m, x, s, b)
      <4>1. \A o \in S \ {s} : Better(m, x, s, o)
        BY <2>2, <2>3, <3>1, <3>3, BetterOrders
      <4>2. Better(m, x, s, s)
        BY <2>2, <2>3, BetterOrders
      <4>3. \A o \in S : Better(m, x, s, o)
        BY <4>1, <4>2
      <4> QED
        BY <2>2, <2>3, <4>3
    <3> QED
      BY <2>2, <2>3, <3>1, <3>2, <3>3, BetterOrders
  <2> QED
    BY <2>8, <2>9
<1> QED
  <2>1. Cardinality(C) \in Nat
    BY <1>1
  <2> QED
    BY <1>2, <2>1

(* selectNode gives a node that fits, if there is one.                     *)
LEMMA SelectedFits ==
    ASSUME NEW m, NEW t \in Task, m.load \in [Tenant -> [Node -> Nat]],
           \E n \in Node : Fits(m, t, n)
    PROVE  Selected(m, t) \in Node /\ Fits(m, t, Selected(m, t))
<1> DEFINE C == {n \in Node : Fits(m, t, n)}
<1>1. TenantOf(t) \in Tenant
  BY ClusterAssumption DEF TenantOf
<1>2. \E n \in C : \A o \in C : Better(m, TenantOf(t), n, o)
  <2>1. C \in SUBSET Node /\ C # {}
    OBVIOUS
  <2> HIDE DEF C
  <2> QED
    BY <1>1, <2>1, BestOfNodes
<1>3. \E n \in Node : Fits(m, t, n) /\ \A o \in Node : Fits(m, t, o) => Better(m, TenantOf(t), n, o)
  BY <1>2
<1> QED
  BY <1>3 DEF Selected

-----------------------------------------------------------------------------
(* Recursive functions.                                                    *)

(* The queue is examined from the front, one task at a time.               *)
LEMMA ExaminedInTurn ==
    ASSUME NEW m, Len(m.queue) \in Nat
    PROVE  \E f : /\ f[0] = [m EXCEPT !.queue = <<>>]
                  /\ \A k \in 1..Len(m.queue) : f[k] = Examine(f[k - 1], m.queue[k])
                  /\ Schedule(m) = f[Len(m.queue)]
<1> DEFINE q == m.queue
           b == [m EXCEPT !.queue = <<>>]
           Unfolds(f, n) == f = [k \in 0..n |-> IF k = 0 THEN b ELSE Examine(f[k - 1], q[k])]
           Bad == {n \in Nat : ~\E f : Unfolds(f, n)}
<1>1. \E f : Unfolds(f, 0)
  <2> DEFINE f == [k \in 0..0 |-> b]
  <2>1. f = [k \in 0..0 |-> IF k = 0 THEN b ELSE Examine(f[k - 1], q[k])]
    <3> HIDE DEF b
    <3>1. \A k \in 0..0 : k = 0
      OBVIOUS
    <3> QED
      BY <3>1
  <2> QED
    BY <2>1
<1>2. ASSUME Bad # {} PROVE FALSE
  <2>1. PICK n \in Bad : \A j \in Bad : n <= j
    <3>1. Bad \subseteq Nat
      OBVIOUS
    <3> HIDE DEF Bad
    <3> QED
      BY <1>2, <3>1, LeastNatural
  <2>2. n \in Nat /\ ~\E f : Unfolds(f, n)
    OBVIOUS
  <2>3. n # 0
    <3> HIDE DEF Unfolds
    <3> QED
      BY <1>1, <2>2
  <2>4. n - 1 \in Nat /\ n - 1 \notin Bad
    BY <2>1, <2>2, <2>3
  <2>5. PICK f : Unfolds(f, n - 1)
    BY <2>4
  <2> DEFINE g == [k \in 0..n |-> IF k = n THEN Examine(f[n - 1], q[n]) ELSE f[k]]
  <2>6. \A k \in 0..n : g[k] = IF k = 0 THEN b ELSE Examine(g[k - 1], q[k])
    <3> SUFFICES ASSUME NEW k \in 0..n
                 PROVE  g[k] = IF k = 0 THEN b ELSE Examine(g[k - 1], q[k])
      OBVIOUS
    <3> HIDE DEF b, q
    <3>1. CASE k = n
      <4>1. g[k - 1] = f[n - 1]
        BY <2>2, <2>3, <3>1
      <4>2. g[k] = Examine(f[n - 1], q[n])
        BY <3>1
      <4> QED
        BY <2>3, <3>1, <4>1, <4>2
    <3>2. CASE k # n
      <4>1. k \in 0..n - 1 /\ g[k] = f[k]
        BY <2>2, <3>2
      <4>2. f[k] = IF k = 0 THEN b ELSE Examine(f[k - 1], q[k])
        <5> DEFINE val(j) == IF j = 0 THEN b ELSE Examine(f[j - 1], q[j])
        <5>1. f = [j \in 0..n - 1 |-> val(j)]
          BY <2>5
        <5> HIDE DEF val
        <5>2. f[k] = val(k)
          BY <4>1, <5>1
        <5> QED
          BY <5>2 DEF val
      <4>3. k # 0 => g[k - 1] = f[k - 1]
        BY <2>2, <4>1
      <4> QED
        BY <4>1, <4>2, <4>3
    <3> QED
      BY <3>1, <3>2
  <2>7. Unfolds(g, n)
    <3> DEFINE h == [k \in 0..n |-> IF k = 0 THEN b ELSE Examine(g[k - 1], q[k])]
    <3> HIDE DEF b, q
    <3>1. g = [k \in 0..n |-> g[k]]
      OBVIOUS
    <3> HIDE DEF g
    <3>2. g = h
      BY <2>6, <3>1
    <3> QED
      BY <3>2
  <2> QED
    BY <2>2, <2>7
<1>3. Len(q) \in Nat
  OBVIOUS
<1>4. \E f : Unfolds(f, Len(q))
  BY <1>2, <1>3
<1> DEFINE after == CHOOSE f : Unfolds(f, Len(q))
<1>5. Schedule(m) = after[Len(q)]
  BY DEF Schedule
<1>6. Unfolds(after, Len(q))
  <2> HIDE DEF Unfolds
  <2> QED
    BY <1>4
<1> HIDE DEF after
<1>7. after = [k \in 0..Len(q) |-> IF k = 0 THEN b ELSE Examine(after[k - 1], q[k])]
  BY <1>6
<1>8. \A k \in 0..Len(q) : after[k] = IF k = 0 THEN b ELSE Examine(after[k - 1], q[k])
  <2> SUFFICES ASSUME NEW k \in 0..Len(q)
               PROVE  after[k] = IF k = 0 THEN b ELSE Examine(after[k - 1], q[k])
    OBVIOUS
  <2> DEFINE val(j) == IF j = 0 THEN b ELSE Examine(after[j - 1], q[j])
  <2>1. after = [j \in 0..Len(q) |-> val(j)]
    BY <1>7
  <2> HIDE DEF val
  <2>2. after[k] = val(k)
    BY <2>1
  <2> QED
    BY <2>2 DEF val
<1>9. after[0] = b
  BY <1>3, <1>8
<1>10. \A k \in 1..Len(q) : after[k] = Examine(after[k - 1], q[k])
  BY <1>3, <1>8
<1> QED
  BY <1>5, <1>9, <1>10

(* Array.push.                                                             *)
LEMMA Appended ==
    ASSUME NEW T, NEW s \in Seq(T), NEW e \in T
    PROVE  \A t : Contains(Append(s, e), t) <=> Contains(s, t) \/ t = e
BY DEF Contains

(* Array.filter keeps the order; here it matters what is kept.             *)
LEMMA ThoseKept ==
    ASSUME NEW T, NEW s \in Seq(T), NEW K
    PROVE  /\ Those(s, K) \in Seq(T)
           /\ \A t \in T : Contains(Those(s, K), t) <=> Contains(s, t) /\ t \in K
<1> DEFINE Next1(p, i) == IF s[i] \in K THEN Append(p, s[i]) ELSE p
           Unfolds(f, n) == f = [i \in 0..n |-> IF i = 0 THEN <<>>
                                                ELSE IF s[i] \in K THEN Append(f[i - 1], s[i]) ELSE f[i - 1]]
           Bad == {n \in Nat : ~\E f : Unfolds(f, n)}
           Good(p, n) == /\ p \in Seq(T)
                         /\ \A t \in T : Contains(p, t) <=> (\E j \in 1..n : s[j] = t) /\ t \in K
<1>0. Len(s) \in Nat
  OBVIOUS
<1>1. \E f : Unfolds(f, 0)
  <2> DEFINE f == [i \in 0..0 |-> <<>>]
  <2>1. Unfolds(f, 0)
    OBVIOUS
  <2> QED
    BY <2>1
<1>2. ASSUME Bad # {} PROVE FALSE
  <2>1. PICK n \in Bad : \A j \in Bad : n <= j
    <3>1. Bad \subseteq Nat
      OBVIOUS
    <3> HIDE DEF Bad
    <3> QED
      BY <1>2, <3>1, LeastNatural
  <2>2. n \in Nat /\ ~\E f : Unfolds(f, n)
    OBVIOUS
  <2>3. n # 0
    <3> HIDE DEF Unfolds
    <3> QED
      BY <1>1, <2>2
  <2>4. n - 1 \in Nat /\ n - 1 \notin Bad
    <3>1. n - 1 \in Nat /\ ~(n <= n - 1)
      BY <2>2, <2>3
    <3> HIDE DEF Bad
    <3> QED
      BY <2>1, <3>1
  <2>5. PICK f : Unfolds(f, n - 1)
    BY <2>4
  <2>6. f = [i \in 0..n - 1 |-> IF i = 0 THEN <<>> ELSE Next1(f[i - 1], i)]
    BY <2>5
  <2> DEFINE g == [i \in 0..n |-> IF i = n THEN Next1(f[n - 1], n) ELSE f[i]]
  <2> HIDE DEF Next1
  <2>7. \A i \in 0..n : g[i] = IF i = 0 THEN <<>> ELSE Next1(g[i - 1], i)
    <3> SUFFICES ASSUME NEW i \in 0..n PROVE g[i] = IF i = 0 THEN <<>> ELSE Next1(g[i - 1], i)
      OBVIOUS
    <3>1. CASE i = n
      BY <2>2, <2>3, <3>1
    <3>2. CASE i # n
      <4>1. i \in 0..n - 1 /\ g[i] = f[i]
        BY <2>2, <3>2
      <4>2. f[i] = IF i = 0 THEN <<>> ELSE Next1(f[i - 1], i)
        BY <2>6, <4>1
      <4>3. i # 0 => g[i - 1] = f[i - 1]
        BY <2>2, <4>1
      <4> QED
        BY <4>1, <4>2, <4>3
    <3> QED
      BY <3>1, <3>2
  <2>8. g = [i \in 0..n |-> IF i = 0 THEN <<>> ELSE Next1(g[i - 1], i)]
    <3>1. g = [i \in 0..n |-> g[i]]
      OBVIOUS
    <3> HIDE DEF g
    <3> QED
      BY <2>7, <3>1
  <2>9. Unfolds(g, n)
    <3> HIDE DEF g
    <3> QED
      BY <2>8 DEF Next1
  <2> QED
    BY <2>2, <2>9
<1>3. \E f : Unfolds(f, Len(s))
  BY <1>0, <1>2
<1> DEFINE kept == CHOOSE f : Unfolds(f, Len(s))
<1>4. Those(s, K) = kept[Len(s)]
  BY DEF Those
<1>5. Unfolds(kept, Len(s))
  <2> HIDE DEF Unfolds
  <2> QED
    BY <1>3
<1> HIDE DEF kept
<1>6. kept = [i \in 0..Len(s) |-> IF i = 0 THEN <<>> ELSE Next1(kept[i - 1], i)]
  BY <1>5
<1> HIDE DEF Next1
<1>7. \A i \in 0..Len(s) : kept[i] = IF i = 0 THEN <<>> ELSE Next1(kept[i - 1], i)
  BY <1>6
<1>8. Good(kept[0], 0)
  <2>1. kept[0] = <<>>
    BY <1>0, <1>7
  <2>2. \A x : ~Contains(<<>>, x)
    BY DEF Contains
  <2> QED
    BY <2>1, <2>2
<1>9. ASSUME NEW n \in 1..Len(s), Good(kept[n - 1], n - 1) PROVE Good(kept[n], n)
  <2>1. n \in Nat /\ n # 0 /\ s[n] \in T
    BY <1>0
  <2>2. kept[n] = Next1(kept[n - 1], n)
    BY <1>0, <1>7, <2>1
  <2>3. \A t : (\E j \in 1..n : s[j] = t) <=> (\E j \in 1..n - 1 : s[j] = t) \/ s[n] = t
    BY <2>1
  <2>4. CASE s[n] \in K
    <3>1. kept[n] = Append(kept[n - 1], s[n])
      BY <2>2, <2>4 DEF Next1
    <3>2. \A t : Contains(kept[n], t) <=> Contains(kept[n - 1], t) \/ s[n] = t
      BY <1>9, <2>1, <3>1, Appended
    <3> QED
      BY <1>9, <2>1, <2>3, <2>4, <3>1, <3>2
  <2>5. CASE s[n] \notin K
    <3>1. kept[n] = kept[n - 1]
      BY <2>2, <2>5 DEF Next1
    <3> QED
      BY <1>9, <2>1, <2>3, <2>5, <3>1
  <2> QED
    BY <2>4, <2>5
<1> DEFINE Worse == {n \in 0..Len(s) : ~Good(kept[n], n)}
<1>10. ASSUME Worse # {} PROVE FALSE
  <2>1. PICK n \in Worse : \A j \in Worse : n <= j
    <3>1. Worse \subseteq Nat
      BY <1>0
    <3> HIDE DEF Worse
    <3> QED
      BY <1>10, <3>1, LeastNatural
  <2>2. n \in 0..Len(s) /\ ~Good(kept[n], n)
    OBVIOUS
  <2> HIDE DEF Good
  <2>3. n # 0
    BY <1>8, <2>2
  <2>4. n - 1 \in 0..Len(s) /\ n \in 1..Len(s) /\ n - 1 \notin Worse
    BY <1>0, <2>1, <2>2, <2>3
  <2> QED
    BY <1>9, <2>2, <2>4
<1>11. Good(kept[Len(s)], Len(s))
  <2> HIDE DEF Good
  <2> QED
    BY <1>0, <1>10
<1> QED
  BY <1>4, <1>11 DEF Contains

-----------------------------------------------------------------------------
(* One pass of the scheduler.                                              *)

State ==
    [status : [Task -> Status], queue : Seq(Task), place : [Task -> Node \cup {NoNode}],
     running : SUBSET Task, load : [Tenant -> [Node -> Nat]],
     child : [Task -> {"none", "live", "killed"}]]

OnNode(m, x, n) == {t \in m.running : TenantOf(t) = x /\ m.place[t] = n}

(* SlotsMatch, of any state the scheduler goes through.                    *)
Balanced(m) ==
    /\ m \in State
    /\ IsFiniteSet(m.running) /\ Cardinality(m.running) <= MaxActive
    /\ \A x \in Tenant, n \in Node :
          m.load[x][n] = Cardinality(OnNode(m, x, n)) /\ m.load[x][n] <= Capacity[n]
    /\ \A t \in Task : m.status[t] = "ACCEPTED" <=> t \in m.running
    /\ \A t \in m.running : m.place[t] \in Node /\ m.child[t] = "live"

(* By priority, and no task twice.                                         *)
InOrder(q) ==
    \A i, j \in 1..Len(q) : i < j => q[i] # q[j] /\ Info[q[i]].weight <= Info[q[j]].weight

(* What starting a task changes.                                           *)
LEMMA StartedParts ==
    ASSUME NEW m \in State, NEW t \in Task, \E n \in Node : Fits(m, t, n)
    PROVE  /\ Started(m, t) \in State
           /\ Selected(m, t) \in Node /\ TenantOf(t) \in Tenant
           /\ Started(m, t).queue = m.queue
           /\ Started(m, t).status = [m.status EXCEPT ![t] = "ACCEPTED"]
           /\ Started(m, t).place = [m.place EXCEPT ![t] = Selected(m, t)]
           /\ Started(m, t).running = m.running \cup {t}
           /\ Started(m, t).child = [m.child EXCEPT ![t] = "live"]
           /\ Started(m, t).load = [m.load EXCEPT ![TenantOf(t)][Selected(m, t)] = @ + 1]
           /\ Fits(m, t, Selected(m, t))
<1> DEFINE n == Selected(m, t)
           x == TenantOf(t)
<1>1. m.load \in [Tenant -> [Node -> Nat]]
  BY DEF State
<1>2. x \in Tenant
  BY ClusterAssumption DEF TenantOf
<1>3. n \in Node /\ Fits(m, t, n)
  BY <1>1, SelectedFits
<1> HIDE DEF n, x
<1>4. [m.load EXCEPT ![x][n] = @ + 1] \in [Tenant -> [Node -> Nat]]
  <2>1. m.load[x] \in [Node -> Nat] /\ m.load[x][n] + 1 \in Nat
    BY <1>1, <1>2, <1>3
  <2> QED
    BY <1>1, <1>2, <1>3, <2>1
<1>5. Started(m, t) = [m EXCEPT !.status[t] = "ACCEPTED", !.place[t] = n, !.running = @ \cup {t},
                                !.load[x][n] = @ + 1, !.child[t] = "live"]
  BY DEF Started, n, x
<1>6. /\ Started(m, t).queue = m.queue
      /\ Started(m, t).status = [m.status EXCEPT ![t] = "ACCEPTED"]
      /\ Started(m, t).place = [m.place EXCEPT ![t] = n]
      /\ Started(m, t).running = m.running \cup {t}
      /\ Started(m, t).load = [m.load EXCEPT ![x][n] = @ + 1]
      /\ Started(m, t).child = [m.child EXCEPT ![t] = "live"]
      /\ Started(m, t) = [status |-> Started(m, t).status, queue |-> Started(m, t).queue,
                          place |-> Started(m, t).place, running |-> Started(m, t).running,
                          load |-> Started(m, t).load, child |-> Started(m, t).child]
  BY <1>5 DEF State
<1>7. /\ Started(m, t).status \in [Task -> Status] /\ Started(m, t).queue \in Seq(Task)
      /\ Started(m, t).place \in [Task -> Node \cup {NoNode}] /\ Started(m, t).running \in SUBSET Task
      /\ Started(m, t).child \in [Task -> {"none", "live", "killed"}]
  BY <1>3, <1>6 DEF State, Status, Terminal
<1>8. Started(m, t) \in State
  BY <1>4, <1>6, <1>7 DEF State
<1> QED
  BY <1>2, <1>3, <1>6, <1>8 DEF n, x

(* A place that is counted is a place that is taken.                       *)
LEMMA StartedBalanced ==
    ASSUME NEW m, Balanced(m), NEW t \in Task, m.status[t] = "QUEUED",
           Cardinality(m.running) < MaxActive, \E n \in Node : Fits(m, t, n)
    PROVE  Balanced(Started(m, t))
<1> DEFINE n == Selected(m, t)
           x == TenantOf(t)
           a == Started(m, t)
<1>1. m \in State
  BY DEF Balanced
<1>2. /\ a \in State /\ n \in Node /\ x \in Tenant
      /\ a.status = [m.status EXCEPT ![t] = "ACCEPTED"]
      /\ a.place = [m.place EXCEPT ![t] = n]
      /\ a.running = m.running \cup {t}
      /\ a.load = [m.load EXCEPT ![x][n] = @ + 1]
      /\ a.child = [m.child EXCEPT ![t] = "live"]
      /\ Fits(m, t, n)
  BY <1>1, StartedParts
<1> HIDE DEF n, a
<1>3. t \notin m.running
  BY DEF Balanced
<1>4. /\ m.load \in [Tenant -> [Node -> Nat]] /\ m.place \in [Task -> Node \cup {NoNode}]
      /\ m.status \in [Task -> Status] /\ m.running \in SUBSET Task
  BY <1>1 DEF State
<1>5. IsFiniteSet(a.running) /\ Cardinality(a.running) <= MaxActive
  <2>1. IsFiniteSet(m.running) /\ Cardinality(m.running) \in Nat /\ MaxActive \in Nat
    BY ClusterAssumption, FS_CardinalityType DEF Balanced
  <2>2. /\ IsFiniteSet(m.running \cup {t})
        /\ Cardinality(m.running \cup {t}) = Cardinality(m.running) + 1
    BY <1>3, <2>1, FS_AddElement
  <2> QED
    BY <1>2, <2>1, <2>2
<1>6. ASSUME NEW y \in Tenant, NEW o \in Node
      PROVE  a.load[y][o] = Cardinality(OnNode(a, y, o)) /\ a.load[y][o] <= Capacity[o]
  <2>1. m.load[y][o] = Cardinality(OnNode(m, y, o)) /\ m.load[y][o] <= Capacity[o]
    BY DEF Balanced
  <2>2. CASE y = x /\ o = n
    <3>1. a.load[y][o] = m.load[y][o] + 1
      BY <1>2, <1>4, <2>2
    <3>2. OnNode(a, y, o) = OnNode(m, y, o) \cup {t}
      BY <1>2, <1>3, <1>4, <2>2 DEF OnNode
    <3>3. IsFiniteSet(OnNode(m, y, o)) /\ t \notin OnNode(m, y, o)
      <4>1. OnNode(m, y, o) \subseteq m.running /\ IsFiniteSet(m.running)
        BY DEF OnNode, Balanced
      <4> QED
        BY <1>3, <4>1, FS_Subset
    <3>4. Cardinality(OnNode(a, y, o)) = Cardinality(OnNode(m, y, o)) + 1
      BY <3>2, <3>3, FS_AddElement
    <3>5. m.load[y][o] < Capacity[o] /\ Capacity[o] \in Nat /\ m.load[y][o] \in Nat
      BY <1>2, <1>4, <2>2, ClusterAssumption DEF Fits
    <3> QED
      BY <2>1, <3>1, <3>4, <3>5
  <2>3. CASE ~(y = x /\ o = n)
    <3>1. a.load[y][o] = m.load[y][o]
      BY <1>2, <1>4, <2>3
    <3>2. OnNode(a, y, o) = OnNode(m, y, o)
      BY <1>2, <1>3, <1>4, <2>3 DEF OnNode
    <3> QED
      BY <2>1, <3>1, <3>2
  <2> QED
    BY <2>2, <2>3
<1>7. \A u \in Task : a.status[u] = "ACCEPTED" <=> u \in a.running
  BY <1>2, <1>4 DEF Balanced
<1>8. \A u \in a.running : a.place[u] \in Node /\ a.child[u] = "live"
  <2>1. m.child \in [Task -> {"none", "live", "killed"}]
    BY <1>1 DEF State
  <2> QED
    BY <1>2, <1>4, <2>1 DEF Balanced
<1> QED
  BY <1>2, <1>5, <1>6, <1>7, <1>8 DEF Balanced, a

(* What holds after k tasks of the queue of b have been examined.  Nothing *)
(* but tasks of the queue is touched; a task is passed over only when all  *)
(* children are in use or no node fits it; and none that starts takes a    *)
(* node that one passed over, of a higher priority, could have used.       *)
Passed(b, k, m) ==
    /\ Balanced(m) /\ InOrder(m.queue)
    /\ \A t \in Task : Contains(m.queue, t) =>
          m.status[t] = "QUEUED" /\ \E j \in 1..k : b.queue[j] = t
    /\ \A t \in Task : m.status[t] = "QUEUED" =>
          Contains(m.queue, t) \/ \E j \in k + 1..Len(b.queue) : b.queue[j] = t
    /\ \A t \in Task : m.status[t] # b.status[t] =>
          /\ b.status[t] = "QUEUED" /\ m.status[t] \in {"ACCEPTED", "EXPIRED"}
          /\ \E j \in 1..k : b.queue[j] = t
    /\ Cardinality(m.running) < MaxActive =>
          \A t \in Task, n \in Node : Contains(m.queue, t) => ~Fits(m, t, n)
    /\ \A t, u \in Task :
          (/\ t \in m.running /\ b.status[t] = "QUEUED" /\ Contains(m.queue, u)
           /\ TenantOf(u) = TenantOf(t) /\ Info[u].weight < Info[t].weight)
          => ~(Info[u].needs \subseteq Capabilities[m.place[t]])

(* A state in which a pass may begin.                                      *)
Ordered(b) ==
    /\ Balanced(b) /\ InOrder(b.queue)
    /\ \A t \in Task : b.status[t] = "QUEUED" <=> Contains(b.queue, t)

(* One task is examined.                                                   *)
LEMMA ExaminePasses ==
    ASSUME NEW b, Ordered(b), NEW k \in 1..Len(b.queue), NEW m, Passed(b, k - 1, m)
    PROVE  Passed(b, k, Examine(m, b.queue[k]))
<1> DEFINE t == b.queue[k]
<1>1. /\ b.queue \in Seq(Task) /\ b.status \in [Task -> Status]
      /\ Len(b.queue) \in Nat /\ k \in Nat /\ t \in Task
  BY DEF Ordered, Balanced, State
<1>2. /\ m \in State /\ m.queue \in Seq(Task) /\ m.status \in [Task -> Status]
      /\ m.place \in [Task -> Node \cup {NoNode}] /\ m.load \in [Tenant -> [Node -> Nat]]
      /\ m.running \in SUBSET Task /\ Len(m.queue) \in Nat
  BY DEF Passed, Balanced, State
<1>3. b.status[t] = "QUEUED"
  BY <1>1 DEF Ordered, Contains
<1>4. \A j \in 1..k - 1 : b.queue[j] # t /\ Info[b.queue[j]].weight <= Info[t].weight
  BY <1>1 DEF Ordered, InOrder
<1>5. \A j \in k + 1..Len(b.queue) : b.queue[j] # t
  BY <1>1 DEF Ordered, InOrder
<1>6. ~Contains(m.queue, t)
  BY <1>1, <1>4 DEF Passed
<1>7. m.status[t] = "QUEUED"
  BY <1>1, <1>3, <1>4 DEF Passed
<1>8. /\ \A u : (\E j \in 1..k : b.queue[j] = u) <=> u = t \/ \E j \in 1..k - 1 : b.queue[j] = u
      /\ \A u : (\E j \in (k - 1) + 1..Len(b.queue) : b.queue[j] = u)
                   <=> u = t \/ \E j \in k + 1..Len(b.queue) : b.queue[j] = u
  BY <1>1
<1>9. \A u \in Task : Info[u].weight \in 0..2
  BY ClusterAssumption
<1>a. \A u \in Task : Contains(m.queue, u) =>
         m.status[u] = "QUEUED" /\ \E j \in 1..k - 1 : b.queue[j] = u
  BY DEF Passed
<1>b. \A u \in Task : m.status[u] = "QUEUED" =>
         Contains(m.queue, u) \/ \E j \in (k - 1) + 1..Len(b.queue) : b.queue[j] = u
  BY DEF Passed
<1>c. \A u \in Task : m.status[u] # b.status[u] =>
         /\ b.status[u] = "QUEUED" /\ m.status[u] \in {"ACCEPTED", "EXPIRED"}
         /\ \E j \in 1..k - 1 : b.queue[j] = u
  BY DEF Passed
<1> HIDE DEF t
<1>10. ASSUME Cardinality(m.running) >= MaxActive \/ ~\E n \in Node : Fits(m, t, n)
       PROVE  Passed(b, k, [m EXCEPT !.queue = Append(@, t)])
  <2> DEFINE a == [m EXCEPT !.queue = Append(@, t)]
  <2>1. /\ a \in State /\ a.queue = Append(m.queue, t) /\ a.status = m.status
        /\ a.place = m.place /\ a.running = m.running /\ a.load = m.load /\ a.child = m.child
    <3>1. Append(m.queue, t) \in Seq(Task)
      BY <1>1, <1>2
    <3> DEFINE q == Append(m.queue, t)
    <3>2. a = [m EXCEPT !.queue = q]
      OBVIOUS
    <3> HIDE DEF a, q
    <3>3. /\ a.queue = q /\ a.status = m.status /\ a.child = m.child
          /\ a.place = m.place /\ a.running = m.running /\ a.load = m.load /\ a.child = m.child
          /\ a = [status |-> a.status, queue |-> a.queue, place |-> a.place,
                  running |-> a.running, load |-> a.load, child |-> a.child]
      BY <1>2, <3>2 DEF State
    <3> QED
      BY <1>2, <3>1, <3>3 DEF State, q
  <2> HIDE DEF a
  <2>2. Balanced(a)
    <3>1. \A x, n : OnNode(a, x, n) = OnNode(m, x, n)
      BY <2>1 DEF OnNode
    <3> QED
      BY <2>1, <3>1 DEF Passed, Balanced
  <2>3. \A u : Contains(a.queue, u) <=> Contains(m.queue, u) \/ u = t
    BY <1>1, <1>2, <2>1, Appended
  <2>4. InOrder(a.queue)
    <3>1. \A i \in 1..Len(m.queue) : m.queue[i] # t /\ Info[m.queue[i]].weight <= Info[t].weight
      <4> SUFFICES ASSUME NEW i \in 1..Len(m.queue)
                   PROVE  m.queue[i] # t /\ Info[m.queue[i]].weight <= Info[t].weight
        OBVIOUS
      <4>1. m.queue[i] \in Task /\ Contains(m.queue, m.queue[i])
        BY <1>2 DEF Contains
      <4>2. PICK j \in 1..k - 1 : b.queue[j] = m.queue[i]
        BY <4>1 DEF Passed
      <4> QED
        BY <1>4, <4>2
    <3> QED
      BY <1>1, <1>2, <2>1, <3>1 DEF Passed, InOrder
  <2>5. \A u \in Task : Contains(a.queue, u) =>
           a.status[u] = "QUEUED" /\ \E j \in 1..k : b.queue[j] = u
    BY <1>7, <1>8, <1>a, <2>1, <2>3
  <2>6. \A u \in Task : a.status[u] = "QUEUED" =>
           Contains(a.queue, u) \/ \E j \in k + 1..Len(b.queue) : b.queue[j] = u
    BY <1>8, <1>b, <2>1, <2>3
  <2>7. \A u \in Task : a.status[u] # b.status[u] =>
           /\ b.status[u] = "QUEUED" /\ a.status[u] \in {"ACCEPTED", "EXPIRED"}
           /\ \E j \in 1..k : b.queue[j] = u
    BY <1>8, <1>c, <2>1
  <2>8. Cardinality(a.running) < MaxActive =>
           \A u \in Task, n \in Node : Contains(a.queue, u) => ~Fits(a, u, n)
    <3>1. \A u, n : Fits(a, u, n) <=> Fits(m, u, n)
      BY <2>1 DEF Fits
    <3>2. Cardinality(m.running) \in Nat /\ MaxActive \in Nat
      BY ClusterAssumption, FS_CardinalityType DEF Passed, Balanced
    <3> QED
      BY <1>10, <2>1, <2>3, <3>1, <3>2 DEF Passed
  <2>9. ASSUME NEW v \in Task, NEW u \in Task, v \in a.running, b.status[v] = "QUEUED",
               Contains(a.queue, u), TenantOf(u) = TenantOf(v), Info[u].weight < Info[v].weight
        PROVE  ~(Info[u].needs \subseteq Capabilities[a.place[v]])
    <3>1. CASE u = t
      <4>1. m.status[v] = "ACCEPTED"
        BY <2>1, <2>9 DEF Passed, Balanced
      <4>2. \E j \in 1..k - 1 : b.queue[j] = v
        BY <2>9, <4>1 DEF Passed
      <4>3. Info[v].weight <= Info[t].weight
        BY <1>4, <4>2
      <4> QED
        BY <1>1, <1>9, <2>9, <3>1, <4>3
    <3>2. CASE u # t
      BY <2>1, <2>3, <2>9, <3>2 DEF Passed
    <3> QED
      BY <3>1, <3>2
  <2> QED
    BY <2>2, <2>4, <2>5, <2>6, <2>7, <2>8, <2>9 DEF Passed, a
<1>11. ASSUME Cardinality(m.running) < MaxActive, late[t]
       PROVE  Passed(b, k, [m EXCEPT !.status[t] = "EXPIRED"])
  <2> DEFINE a == [m EXCEPT !.status[t] = "EXPIRED"]
  <2>1. /\ a \in State /\ a.queue = m.queue /\ a.status = [m.status EXCEPT ![t] = "EXPIRED"]
        /\ a.place = m.place /\ a.running = m.running /\ a.load = m.load /\ a.child = m.child
    BY <1>1, <1>2 DEF State, Status, Terminal
  <2> HIDE DEF a
  <2>2. Balanced(a)
    <3>1. \A x, n : OnNode(a, x, n) = OnNode(m, x, n)
      BY <2>1 DEF OnNode
    <3>2. \A u \in Task : a.status[u] = "ACCEPTED" <=> u \in a.running
      BY <1>1, <1>2, <1>7, <2>1 DEF Passed, Balanced
    <3> QED
      BY <2>1, <3>1, <3>2 DEF Passed, Balanced
  <2>3. \A u \in Task : a.status[u] = IF u = t THEN "EXPIRED" ELSE m.status[u]
    BY <1>2, <2>1
  <2>4. \A u \in Task : Contains(a.queue, u) =>
           a.status[u] = "QUEUED" /\ \E j \in 1..k : b.queue[j] = u
    BY <1>6, <1>8, <1>a, <2>1, <2>3
  <2>5. \A u \in Task : a.status[u] = "QUEUED" =>
           Contains(a.queue, u) \/ \E j \in k + 1..Len(b.queue) : b.queue[j] = u
    BY <1>8, <1>b, <2>1, <2>3
  <2>6. \A u \in Task : a.status[u] # b.status[u] =>
           /\ b.status[u] = "QUEUED" /\ a.status[u] \in {"ACCEPTED", "EXPIRED"}
           /\ \E j \in 1..k : b.queue[j] = u
    BY <1>3, <1>8, <1>c, <2>3
  <2>7. \A u, n : Fits(a, u, n) <=> Fits(m, u, n)
    BY <2>1 DEF Fits
  <2> QED
    BY <2>1, <2>2, <2>4, <2>5, <2>6, <2>7 DEF Passed, a
<1>12. ASSUME Cardinality(m.running) < MaxActive, \E n \in Node : Fits(m, t, n)
       PROVE  Passed(b, k, Started(m, t))
  <2> DEFINE a == Started(m, t)
             s == Selected(m, t)
  <2>1. /\ a \in State /\ a.queue = m.queue /\ a.status = [m.status EXCEPT ![t] = "ACCEPTED"]
        /\ a.place = [m.place EXCEPT ![t] = s] /\ a.running = m.running \cup {t}
        /\ a.load = [m.load EXCEPT ![TenantOf(t)][s] = @ + 1]
        /\ s \in Node /\ TenantOf(t) \in Tenant /\ Fits(m, t, s)
    BY <1>1, <1>2, <1>12, StartedParts
  <2>2. Balanced(a)
    BY <1>1, <1>7, <1>12, StartedBalanced DEF Passed
  <2> HIDE DEF a, s
  <2>3. \A u \in Task : a.status[u] = IF u = t THEN "ACCEPTED" ELSE m.status[u]
    BY <1>2, <2>1
  <2>4. \A u \in Task : Contains(a.queue, u) =>
           a.status[u] = "QUEUED" /\ \E j \in 1..k : b.queue[j] = u
    BY <1>6, <1>8, <1>a, <2>1, <2>3
  <2>5. \A u \in Task : a.status[u] = "QUEUED" =>
           Contains(a.queue, u) \/ \E j \in k + 1..Len(b.queue) : b.queue[j] = u
    BY <1>8, <1>b, <2>1, <2>3
  <2>6. \A u \in Task : a.status[u] # b.status[u] =>
           /\ b.status[u] = "QUEUED" /\ a.status[u] \in {"ACCEPTED", "EXPIRED"}
           /\ \E j \in 1..k : b.queue[j] = u
    BY <1>3, <1>8, <1>c, <2>3
  <2>7. \A u \in Task, n \in Node : Fits(a, u, n) => Fits(m, u, n)
    <3> SUFFICES ASSUME NEW u \in Task, NEW n \in Node, a.load[TenantOf(u)][n] < Capacity[n]
                 PROVE  m.load[TenantOf(u)][n] < Capacity[n]
      BY DEF Fits
    <3>1. TenantOf(u) \in Tenant /\ Capacity[n] \in Nat
      BY ClusterAssumption DEF TenantOf
    <3>2. m.load[TenantOf(u)][n] \in Nat
      BY <1>2, <3>1
    <3>3. a.load[TenantOf(u)][n] \in {m.load[TenantOf(u)][n], m.load[TenantOf(u)][n] + 1}
      BY <1>2, <2>1, <3>1
    <3> QED
      BY <3>1, <3>2, <3>3
  <2>8. \A u \in Task, n \in Node : Contains(m.queue, u) => ~Fits(m, u, n)
    BY <1>12 DEF Passed
  <2>9. ASSUME NEW v \in Task, NEW u \in Task, v \in a.running, b.status[v] = "QUEUED",
               Contains(a.queue, u), TenantOf(u) = TenantOf(v), Info[u].weight < Info[v].weight
        PROVE  ~(Info[u].needs \subseteq Capabilities[a.place[v]])
    <3>1. CASE v = t
      <4>1. a.place[v] = s
        BY <1>1, <1>2, <2>1, <3>1
      <4>2. ~Fits(m, u, s)
        BY <2>1, <2>8, <2>9
      <4>3. m.load[TenantOf(u)][s] < Capacity[s]
        BY <2>1, <2>9, <3>1 DEF Fits
      <4> QED
        BY <4>1, <4>2, <4>3 DEF Fits
    <3>2. CASE v # t
      <4>1. v \in m.running /\ a.place[v] = m.place[v]
        BY <1>2, <2>1, <2>9, <3>2
      <4> QED
        BY <2>1, <2>9, <4>1 DEF Passed
    <3> QED
      BY <3>1, <3>2
  <2> QED
    BY <2>1, <2>2, <2>4, <2>5, <2>6, <2>7, <2>8, <2>9 DEF Passed, a
<1>13. Cardinality(m.running) \in Nat /\ MaxActive \in Nat
  BY ClusterAssumption, FS_CardinalityType DEF Passed, Balanced
<1> QED
  BY <1>10, <1>11, <1>12, <1>13 DEF Examine, t

(* The pass ends with the queue examined.                                  *)
LEMMA PassEnds ==
    ASSUME NEW b, Ordered(b)
    PROVE  Passed(b, Len(b.queue), Schedule(b))
<1>1. b \in State /\ b.queue \in Seq(Task) /\ Len(b.queue) \in Nat
  BY DEF Ordered, Balanced, State
<1>2. PICK f : /\ f[0] = [b EXCEPT !.queue = <<>>]
               /\ \A k \in 1..Len(b.queue) : f[k] = Examine(f[k - 1], b.queue[k])
               /\ Schedule(b) = f[Len(b.queue)]
  BY <1>1, ExaminedInTurn
<1>3. Passed(b, 0, f[0])
  <2>1. /\ f[0].queue = <<>> /\ f[0].status = b.status /\ f[0].place = b.place
        /\ f[0].running = b.running /\ f[0].load = b.load /\ f[0].child = b.child
        /\ f[0] = [status |-> b.status, queue |-> <<>>, place |-> b.place,
                   running |-> b.running, load |-> b.load, child |-> b.child]
    BY <1>1, <1>2 DEF State
  <2>2. f[0] \in State
    BY <1>1, <2>1 DEF State
  <2>3. \A x, n : OnNode(f[0], x, n) = OnNode(b, x, n)
    BY <2>1 DEF OnNode
  <2>4. Balanced(f[0])
    BY <2>1, <2>2, <2>3 DEF Ordered, Balanced
  <2>5. InOrder(f[0].queue) /\ \A t : ~Contains(f[0].queue, t)
    BY <2>1 DEF InOrder, Contains
  <2>6. \A t \in Task : b.status[t] = "QUEUED" => \E j \in 0 + 1..Len(b.queue) : b.queue[j] = t
    BY <1>1 DEF Ordered, Contains
  <2> QED
    BY <2>1, <2>4, <2>5, <2>6 DEF Passed
<1> DEFINE Bad == {k \in 0..Len(b.queue) : ~Passed(b, k, f[k])}
<1>4. ASSUME Bad # {} PROVE FALSE
  <2>1. PICK k \in Bad : \A j \in Bad : k <= j
    <3>1. Bad \subseteq Nat
      BY <1>1
    <3> HIDE DEF Bad
    <3> QED
      BY <1>4, <3>1, LeastNatural
  <2>2. k \in 0..Len(b.queue) /\ ~Passed(b, k, f[k])
    OBVIOUS
  <2>3. k # 0
    BY <1>3, <2>2
  <2>4. /\ k \in 1..Len(b.queue) /\ k - 1 \in 0..Len(b.queue) /\ ~(k <= k - 1)
    BY <1>1, <2>2, <2>3
  <2>5. Passed(b, k - 1, f[k - 1])
    BY <2>1, <2>4
  <2>6. f[k] = Examine(f[k - 1], b.queue[k])
    BY <1>2, <2>4
  <2> QED
    BY <2>2, <2>4, <2>5, <2>6, ExaminePasses
<1>5. Len(b.queue) \in 0..Len(b.queue)
  BY <1>1
<1> QED
  BY <1>2, <1>4, <1>5

-----------------------------------------------------------------------------
(* The queue and the history.                                              *)

(* A sequence with one element put in.                                     *)
LEMMA Inserted ==
    ASSUME NEW s \in Seq(Task), NEW e \in Task, NEW at \in 1..Len(s) + 1
    PROVE  /\ InsertAt(s, at, e) \in Seq(Task) /\ Len(InsertAt(s, at, e)) = Len(s) + 1
           /\ \A i \in 1..Len(s) + 1 :
                 InsertAt(s, at, e)[i] = IF i < at THEN s[i] ELSE IF i = at THEN e ELSE s[i - 1]
<1>1. Len(s) \in Nat /\ at \in Nat
  OBVIOUS
<1> DEFINE l == SubSeq(s, 1, at - 1)
           r == SubSeq(s, at, Len(s))
<1>2. /\ l \in Seq(Task) /\ Len(l) = at - 1
      /\ \A i \in 1..at - 1 : l[i] = s[i]
  BY <1>1, SubSeqProperties
<1>3. /\ r \in Seq(Task) /\ Len(r) = Len(s) - at + 1
      /\ \A i \in 1..Len(s) - at + 1 : r[i] = s[at + i - 1]
  BY <1>1, SubSeqProperties
<1> HIDE DEF l, r
<1>4. InsertAt(s, at, e) = (l \o <<e>>) \o r
  BY DEF InsertAt, l, r
<1> DEFINE p == l \o <<e>>
<1>5. /\ p \in Seq(Task) /\ Len(p) = at
      /\ \A i \in 1..at - 1 : p[i] = s[i]
      /\ p[at] = e
  BY <1>1, <1>2
<1> HIDE DEF p
<1>6. /\ InsertAt(s, at, e) = p \o r
      /\ InsertAt(s, at, e) \in Seq(Task) /\ Len(InsertAt(s, at, e)) = Len(s) + 1
      /\ \A i \in 1..at : (p \o r)[i] = p[i]
      /\ \A i \in at + 1..Len(s) + 1 : (p \o r)[i] = r[i - at]
  <2>1. InsertAt(s, at, e) = p \o r
    BY <1>4 DEF p
  <2>0. p \in Seq(Task) /\ r \in Seq(Task)
    BY <1>3, <1>5
  <2>2. p \o r \in Seq(Task) /\ Len(p \o r) = Len(p) + Len(r)
    BY <2>0, ConcatProperties
  <2>3. \A i \in 1..Len(p) + Len(r) : (p \o r)[i] = IF i <= Len(p) THEN p[i] ELSE r[i - Len(p)]
    BY <2>0, ConcatProperties
  <2>4. Len(p) + Len(r) = Len(s) + 1
    BY <1>1, <1>3, <1>5
  <2>5. \A i \in 1..Len(s) + 1 : (p \o r)[i] = IF i <= at THEN p[i] ELSE r[i - at]
    BY <1>5, <2>3, <2>4
  <2> HIDE DEF p
  <2> QED
    BY <1>1, <1>5, <2>1, <2>2, <2>4, <2>5
<1> DEFINE ins == InsertAt(s, at, e)
<1> HIDE DEF ins
<1>7. /\ ins = p \o r
      /\ \A i \in 1..at : ins[i] = p[i]
      /\ \A i \in at + 1..Len(s) + 1 : ins[i] = r[i - at]
  <2>1. ins = p \o r
    BY <1>6 DEF ins
  <2> QED
    BY <1>6, <2>1
<1>8. ASSUME NEW i \in 1..Len(s) + 1
      PROVE  ins[i] = IF i < at THEN s[i] ELSE IF i = at THEN e ELSE s[i - 1]
  <2>1. CASE i < at
    <3>1. i \in 1..at /\ i \in 1..at - 1
      BY <1>1, <2>1
    <3>2. ins[i] = p[i] /\ p[i] = s[i]
      BY <1>5, <1>7, <3>1
    <3> QED
      BY <2>1, <3>2
  <2>2. CASE i = at
    <3>1. at \in 1..at
      BY <1>1
    <3>2. ins[at] = p[at] /\ p[at] = e
      BY <1>5, <1>7, <3>1
    <3> QED
      BY <1>1, <2>2, <3>2
  <2>3. CASE i > at
    <3>1. ins[i] = r[i - at]
      <4>1. i \in at + 1..Len(s) + 1
        BY <1>1, <2>3
      <4> QED
        BY <1>7, <4>1
    <3>2. i - at \in 1..Len(s) - at + 1 /\ at + (i - at) - 1 = i - 1
      BY <1>1, <2>3
    <3>3. r[i - at] = s[i - 1]
      BY <1>3, <3>2
    <3> QED
      BY <1>1, <2>3, <3>1, <3>3
  <2> QED
    BY <1>1, <2>1, <2>2, <2>3
<1> QED
  BY <1>6, <1>8 DEF ins

(* A new task is put where it belongs.                                     *)
LEMMA EnqueuedInOrder ==
    ASSUME queue \in Seq(Task), InOrder(queue), NEW t \in Task, ~Contains(queue, t)
    PROVE  /\ Enqueued(t) \in Seq(Task) /\ InOrder(Enqueued(t))
           /\ \A u \in Task : Contains(Enqueued(t), u) <=> Contains(queue, u) \/ u = t
<1> DEFINE ahead(i) == Info[queue[i]].weight <= Info[t].weight
           Place(i) == \A j \in 1..Len(queue) : ahead(j) <=> j < i
           at == CHOOSE i \in 1..Len(queue) + 1 : Place(i)
           Later == {j \in 1..Len(queue) : ~ahead(j)}
<1>1. Len(queue) \in Nat
  OBVIOUS
<1>2. /\ \A i \in 1..Len(queue) : queue[i] \in Task /\ Info[queue[i]].weight \in 0..2
      /\ Info[t].weight \in 0..2
  BY ClusterAssumption
<1>3. \E i \in 1..Len(queue) + 1 : Place(i)
  <2>1. CASE Later = {}
    <3>1. Place(Len(queue) + 1)
      BY <1>1, <2>1
    <3> QED
      BY <1>1, <3>1
  <2>2. CASE Later # {}
    <3>1. PICK l \in Later : \A j \in Later : l <= j
      <4>1. Later \subseteq Nat
        BY <1>1
      <4> HIDE DEF Later
      <4> QED
        BY <2>2, <4>1, LeastNatural
    <3>2. l \in 1..Len(queue) /\ ~ahead(l)
      OBVIOUS
    <3>3. \A j \in 1..Len(queue) : j < l => ahead(j)
      BY <1>1, <3>1
    <3>4. \A j \in 1..Len(queue) : j > l => ~ahead(j)
      BY <1>1, <1>2, <3>2 DEF InOrder
    <3>5. Place(l)
      <4> HIDE DEF ahead
      <4> QED
        BY <1>1, <3>2, <3>3, <3>4
    <3> QED
      BY <1>1, <3>2, <3>5
  <2> QED
    BY <2>1, <2>2
<1>4. at \in 1..Len(queue) + 1 /\ Place(at)
  <2> HIDE DEF Place
  <2> QED
    BY <1>3
<1>5. Enqueued(t) = InsertAt(queue, at, t)
  BY DEF Enqueued
<1> HIDE DEF at
<1> DEFINE q == Enqueued(t)
<1>6. /\ q \in Seq(Task) /\ Len(q) = Len(queue) + 1
      /\ \A i \in 1..Len(queue) + 1 :
            q[i] = IF i < at THEN queue[i] ELSE IF i = at THEN t ELSE queue[i - 1]
  <2> HIDE DEF Place
  <2>1. t \in Task /\ queue \in Seq(Task) /\ at \in 1..Len(queue) + 1
    BY <1>4
  <2>2. /\ InsertAt(queue, at, t) \in Seq(Task) /\ Len(InsertAt(queue, at, t)) = Len(queue) + 1
        /\ \A i \in 1..Len(queue) + 1 :
              InsertAt(queue, at, t)[i] = IF i < at THEN queue[i] ELSE IF i = at THEN t ELSE queue[i - 1]
    <3> HIDE DEF q
    <3> QED
      BY <2>1, Inserted
  <2> QED
    BY <1>5, <2>2
<1> HIDE DEF q
<1>7. \A i \in 1..Len(queue) : queue[i] # t
  BY DEF Contains
<1>8. \A i \in 1..Len(queue) : /\ i < at => Info[queue[i]].weight <= Info[t].weight
                              /\ i >= at => Info[t].weight <= Info[queue[i]].weight
  BY <1>1, <1>2, <1>4
<1>9. InOrder(q)
  <2> SUFFICES ASSUME NEW i \in 1..Len(q), NEW j \in 1..Len(q), i < j
               PROVE  q[i] # q[j] /\ Info[q[i]].weight <= Info[q[j]].weight
    BY DEF InOrder
  <2>1. CASE i # at /\ j # at
    <3>1. PICK k \in 1..Len(queue), l \in 1..Len(queue) : k < l /\ q[i] = queue[k] /\ q[j] = queue[l]
      <4>1. CASE j < at
        <5>1. q[i] = queue[i] /\ q[j] = queue[j] /\ i \in 1..Len(queue) /\ j \in 1..Len(queue)
          BY <1>1, <1>4, <1>6, <4>1
        <5> QED
          BY <5>1
      <4>2. CASE i < at /\ j > at
        <5>1. q[i] = queue[i] /\ q[j] = queue[j - 1] /\ i \in 1..Len(queue) /\ j - 1 \in 1..Len(queue) /\ i < j - 1
          BY <1>1, <1>4, <1>6, <2>1, <4>2
        <5> QED
          BY <5>1
      <4>3. CASE i > at
        <5>1. q[i] = queue[i - 1] /\ q[j] = queue[j - 1] /\ i - 1 \in 1..Len(queue) /\ j - 1 \in 1..Len(queue) /\ i - 1 < j - 1
          BY <1>1, <1>4, <1>6, <2>1, <4>3
        <5> QED
          BY <5>1
      <4> QED
        BY <1>1, <1>4, <1>6, <2>1, <4>1, <4>2, <4>3
    <3> QED
      BY <3>1 DEF InOrder
  <2>2. CASE i = at
    <3>1. q[i] = t /\ q[j] = queue[j - 1] /\ j - 1 \in 1..Len(queue) /\ j - 1 >= at
      BY <1>1, <1>4, <1>6, <2>2
    <3>2. queue[j - 1] # t /\ Info[t].weight <= Info[queue[j - 1]].weight
      BY <1>1, <1>4, <1>7, <1>8, <3>1
    <3> QED
      BY <3>1, <3>2
  <2>3. CASE j = at
    <3>1. q[j] = t /\ q[i] = queue[i] /\ i \in 1..Len(queue) /\ i < at
      BY <1>1, <1>4, <1>6, <2>3
    <3>2. queue[i] # t /\ Info[queue[i]].weight <= Info[t].weight
      BY <1>1, <1>4, <1>7, <1>8, <3>1
    <3> QED
      BY <3>1, <3>2
  <2> QED
    BY <2>1, <2>2, <2>3
<1>10. ASSUME NEW u \in Task PROVE Contains(q, u) <=> Contains(queue, u) \/ u = t
  <2>1. ASSUME Contains(q, u) PROVE Contains(queue, u) \/ u = t
    <3>1. PICK i \in 1..Len(q) : q[i] = u
      BY <2>1 DEF Contains
    <3>2. CASE i < at
      BY <1>1, <1>4, <1>6, <3>1, <3>2 DEF Contains
    <3>3. CASE i = at
      BY <1>1, <1>4, <1>6, <3>1, <3>3
    <3>4. CASE i > at
      <4>1. i - 1 \in 1..Len(queue) /\ queue[i - 1] = u
        BY <1>1, <1>4, <1>6, <3>1, <3>4
      <4> QED
        BY <4>1 DEF Contains
    <3> QED
      BY <1>1, <1>4, <1>6, <3>2, <3>3, <3>4
  <2>2. ASSUME Contains(queue, u) PROVE Contains(q, u)
    <3>1. PICK i \in 1..Len(queue) : queue[i] = u
      BY <2>2 DEF Contains
    <3>2. CASE i < at
      BY <1>1, <1>4, <1>6, <3>1, <3>2 DEF Contains
    <3>3. CASE i >= at
      <4>1. i + 1 \in 1..Len(q) /\ q[i + 1] = queue[i]
        BY <1>1, <1>4, <1>6, <3>3
      <4> QED
        BY <3>1, <4>1 DEF Contains
    <3> QED
      BY <1>1, <1>4, <3>2, <3>3
  <2>3. Contains(q, t)
    BY <1>1, <1>4, <1>6 DEF Contains
  <2> QED
    BY <2>1, <2>2, <2>3
<1> QED
  BY <1>6, <1>9, <1>10 DEF q

(* Trimming keeps what is not finished.                                    *)
LEMMA TrimmedKeepsUnfinished ==
    ASSUME NEW h \in Seq(Task), NEW st \in [Task -> Status]
    PROVE  /\ Trimmed(h, st) \in Seq(Task)
           /\ \A t \in Task : Contains(h, t) /\ Unfinished(st, t) => Contains(Trimmed(h, st), t)
<1> DEFINE open == {t \in Task : Unfinished(st, t)}
           active == Those(h, open)
           done == Those(h, Task \ open)
           k == MaxHistory - Len(active)
           from == IF k > 0 THEN Len(done) - k + 1 ELSE 1 - k
           low == IF from < 1 THEN 1 ELSE from
           old == SubSeq(done, low, Len(done))
<1>1. /\ active \in Seq(Task) /\ done \in Seq(Task)
      /\ \A t \in Task : Contains(active, t) <=> Contains(h, t) /\ t \in open
  BY ThoseKept
<1>2. Trimmed(h, st) = IF Len(h) <= MaxHistory THEN h ELSE old \o active
  BY DEF Trimmed
<1> HIDE DEF active, done
<1>3. low \in Nat \ {0} /\ Len(done) \in Nat /\ Len(active) \in Nat
  BY <1>1, ClusterAssumption
<1> HIDE DEF low
<1>4. old \in Seq(Task)
  <2>1. CASE low <= Len(done) + 1
    BY <1>1, <1>3, <2>1, SubSeqProperties
  <2>2. CASE low > Len(done) + 1
    BY <1>1, <1>3, <2>2
  <2> QED
    BY <1>3, <2>1, <2>2
<1> HIDE DEF old
<1>5. old \o active \in Seq(Task)
  BY <1>1, <1>4
<1>6. ASSUME NEW t \in Task, Contains(active, t) PROVE Contains(old \o active, t)
  <2>1. PICK i \in 1..Len(active) : active[i] = t
    BY <1>6 DEF Contains
  <2>2. /\ Len(old) + i \in 1..Len(old \o active)
        /\ (old \o active)[Len(old) + i] = active[i]
    BY <1>1, <1>4, <2>1
  <2> QED
    BY <2>1, <2>2 DEF Contains
<1> QED
  BY <1>1, <1>2, <1>5, <1>6

-----------------------------------------------------------------------------
(* The inductive invariant: no wake-up is lost because every place that    *)
(* becomes free is offered to the whole queue, which is in order.          *)
ClusterInd ==
    /\ ClusterInv /\ NobodyWaitsInVain
    /\ IsFiniteSet(running) /\ \A t \in running : place[t] \in Node
    /\ InOrder(queue)

(* Nothing waits, runs or is remembered at first.                          *)
LEMMA ClusterInitially == ClusterInit => ClusterInd
<1> SUFFICES ASSUME ClusterInit PROVE ClusterInd
  OBVIOUS
<1> USE DEF ClusterInit
<1>1. ClusterTypeOK
  BY DEF ClusterTypeOK, Status, Terminal
<1>2. SlotsMatch
  <2>1. \A x \in Tenant, n \in Node : On(x, n) = {}
    BY DEF On
  <2>2. \A x \in Tenant, n \in Node : load[x][n] = 0 /\ Capacity[n] \in Nat
    BY ClusterAssumption
  <2> QED
    <3>1. Cardinality({}) = 0 /\ MaxActive \in Nat /\ running = {}
      BY FS_EmptySet, ClusterAssumption
    <3>2. Cardinality(running) <= MaxActive
      BY <3>1
    <3>3. \A x \in Tenant, n \in Node :
             load[x][n] = Cardinality(On(x, n)) /\ load[x][n] <= Capacity[n]
      <4> HIDE DEF ClusterInit
      <4> QED
        BY <2>1, <2>2, <3>1
    <3> HIDE DEF ClusterInit
    <3> QED
      BY <3>1, <3>2, <3>3 DEF SlotsMatch
<1>3. QueueMatches
  BY DEF QueueMatches, Contains, Unfinished
<1>4. NobodyWaitsInVain /\ IsFiniteSet(running) /\ InOrder(queue)
  BY FS_EmptySet DEF NobodyWaitsInVain, InOrder
<1> QED
  BY <1>1, <1>2, <1>3, <1>4 DEF ClusterInd, ClusterInv

(* What is current is a state a pass may begin in.                         *)
LEMMA CurrentOrdered ==
    ASSUME ClusterInd
    PROVE  /\ Ordered(Current)
           /\ Current.status = status /\ Current.queue = queue /\ Current.place = place
           /\ Current.running = running /\ Current.load = load /\ Current.child = child
<1>1. /\ Current.status = status /\ Current.queue = queue /\ Current.place = place
      /\ Current.running = running /\ Current.load = load /\ Current.child = child
  BY DEF Current
<1>2. Current \in State
  BY DEF Current, State, ClusterInd, ClusterInv, ClusterTypeOK
<1>3. \A x, n : OnNode(Current, x, n) = On(x, n)
  BY <1>1 DEF OnNode, On
<1>4. Balanced(Current)
  BY <1>1, <1>2, <1>3 DEF Balanced, ClusterInd, ClusterInv, SlotsMatch, QueueMatches
<1> QED
  BY <1>1, <1>4 DEF Ordered, ClusterInd, ClusterInv, QueueMatches

(* A step of the manager, as the action properties see it.                 *)
Steady ==
    /\ \A t \in Task : status[t] \in Terminal => status'[t] = status[t]
    /\ \A t, u \in Task :
          (/\ status'[t] = "ACCEPTED" /\ status[t] = "QUEUED" /\ u # t
           /\ status'[u] = "QUEUED" /\ TenantOf(u) = TenantOf(t)
           /\ Info[u].weight < Info[t].weight)
          => ~(Info[u].needs \subseteq Capabilities[place'[t]])

(* Clocks and processes that nobody waits for change nothing of it.        *)
LEMMA ClusterFrame ==
    ASSUME ClusterInd, UNCHANGED <<status, queue, history, place, running, load>>,
           late' \in [Task -> BOOLEAN], child' \in [Task -> {"none", "live", "killed"}],
           \A t \in running : child'[t] = child[t]
    PROVE  ClusterInd' /\ Steady
<1>1. ClusterTypeOK'
  BY DEF ClusterInd, ClusterInv, ClusterTypeOK
<1>2. \A x, n : On(x, n)' = On(x, n)
  BY DEF On
<1>3. SlotsMatch'
  BY <1>2 DEF ClusterInd, ClusterInv, SlotsMatch
<1>4. QueueMatches'
  BY DEF ClusterInd, ClusterInv, QueueMatches, Unfinished
<1>5. \A t, n : Fits(Current, t, n)' <=> Fits(Current, t, n)
  BY DEF Fits, Current
<1>6. NobodyWaitsInVain'
  BY <1>5 DEF ClusterInd, NobodyWaitsInVain
<1>7. IsFiniteSet(running') /\ (\A t \in running' : place'[t] \in Node) /\ InOrder(queue')
  BY DEF ClusterInd
<1>8. Steady
  BY DEF Steady
<1> QED
  BY <1>1, <1>3, <1>4, <1>6, <1>7, <1>8 DEF ClusterInd, ClusterInv, InOrder

(* What every pass over an ordered state leads to: b is the state after    *)
(* the message or the callback has been dealt with, before the schedule.   *)
LEMMA ScheduleKeeps ==
    ASSUME NEW STATE b, Ordered(b), Become(Schedule(b)),
           late' \in [Task -> BOOLEAN], history' \in [Tenant -> Seq(Task)],
           \A t \in Task : Unfinished(b.status, t) => Contains(history'[TenantOf(t)], t)
    PROVE  /\ ClusterInd'
           /\ \A t \in Task : status'[t] # b.status[t] =>
                 b.status[t] = "QUEUED" /\ status'[t] \in {"ACCEPTED", "EXPIRED"}
           /\ \A t, u \in Task :
                 (/\ status'[t] = "ACCEPTED" /\ b.status[t] = "QUEUED" /\ status'[u] = "QUEUED"
                  /\ TenantOf(u) = TenantOf(t) /\ Info[u].weight < Info[t].weight)
                 => ~(Info[u].needs \subseteq Capabilities[place'[t]])
<1> DEFINE m == Schedule(b)
<1>1. Passed(b, Len(b.queue), m)
  BY PassEnds
<1>2. /\ status' = m.status /\ queue' = m.queue /\ place' = m.place
      /\ running' = m.running /\ load' = m.load /\ child' = m.child
  BY DEF Become
<1> HIDE DEF m
<1>3. m \in State /\ Len(b.queue) \in Nat /\ b.status \in [Task -> Status]
  BY <1>1 DEF Passed, Balanced, Ordered, State
<1>4. ClusterTypeOK'
  BY <1>2, <1>3 DEF ClusterTypeOK, State
<1>5. \A x, n : On(x, n)' = OnNode(m, x, n)
  BY <1>2 DEF On, OnNode
<1>6. SlotsMatch'
  BY <1>1, <1>2, <1>5 DEF SlotsMatch, Passed, Balanced
<1>7. \A t \in Task : status'[t] = "QUEUED" <=> Contains(queue', t)
  <2>1. ~\E j \in Len(b.queue) + 1..Len(b.queue) : TRUE
    BY <1>3
  <2> QED
    BY <1>1, <1>2, <2>1 DEF Passed
<1>8. \A t \in Task : status'[t] # b.status[t] =>
         b.status[t] = "QUEUED" /\ status'[t] \in {"ACCEPTED", "EXPIRED"}
  BY <1>1, <1>2 DEF Passed
<1>9. QueueMatches'
  <2>1. \A t \in Task : status'[t] = "ACCEPTED" <=> t \in running'
    BY <1>1, <1>2 DEF Passed, Balanced
  <2>2. ASSUME NEW t \in Task, Unfinished(status', t)
        PROVE  Contains(history'[TenantOf(t)], t)
    BY <1>8, <2>2 DEF Unfinished
  <2>3. \A i, j \in DOMAIN queue' : queue'[i] = queue'[j] => i = j
    <3>1. queue' \in Seq(Task) /\ InOrder(queue')
      BY <1>1, <1>2, <1>4 DEF Passed, ClusterTypeOK
    <3>2. DOMAIN queue' = 1..Len(queue') /\ Len(queue') \in Nat
      BY <3>1
    <3> QED
      BY <3>1, <3>2 DEF InOrder
  <2> QED
    BY <1>7, <2>1, <2>2, <2>3 DEF QueueMatches, Unfinished
<1>10. NobodyWaitsInVain'
  <2>1. \A t, n : Fits(Current, t, n)' <=> Fits(m, t, n)
    BY <1>2 DEF Fits, Current, TenantOf
  <2> QED
    BY <1>1, <1>2, <1>7, <2>1 DEF NobodyWaitsInVain, Passed
<1>11. IsFiniteSet(running') /\ InOrder(queue') /\ \A t \in running' : place'[t] \in Node
  BY <1>1, <1>2 DEF Passed, Balanced
<1>12. ASSUME NEW t \in Task, NEW u \in Task, status'[t] = "ACCEPTED", b.status[t] = "QUEUED",
              status'[u] = "QUEUED", TenantOf(u) = TenantOf(t), Info[u].weight < Info[t].weight
       PROVE  ~(Info[u].needs \subseteq Capabilities[place'[t]])
  <2>1. t \in m.running /\ Contains(m.queue, u)
    BY <1>1, <1>2, <1>7, <1>12 DEF Passed, Balanced
  <2> QED
    BY <1>1, <1>2, <1>12, <2>1 DEF Passed
<1>13. ClusterInd'
  BY <1>4, <1>6, <1>9, <1>10, <1>11 DEF ClusterInd, ClusterInv, InOrder
<1> QED
  BY <1>8, <1>12, <1>13

(* A message is put into its place in the queue.                           *)
LEMMA DispatchKeeps ==
    ASSUME ClusterInd, NEW t \in Task, Dispatch(t)
    PROVE  ClusterInd' /\ Steady
<1> DEFINE queued == [status EXCEPT ![t] = "QUEUED"]
           b == [Current EXCEPT !.status = queued, !.queue = Enqueued(t)]
           h == Append(history[TenantOf(t)], t)
<1>1. /\ status[t] = "CREATED" /\ UNCHANGED late
      /\ history' = [history EXCEPT ![TenantOf(t)] = Trimmed(h, queued)]
      /\ Become(Schedule(b))
  BY DEF Dispatch
<1>2. /\ status \in [Task -> Status] /\ queue \in Seq(Task) /\ late \in [Task -> BOOLEAN]
      /\ history \in [Tenant -> Seq(Task)] /\ InOrder(queue)
      /\ \A u \in Task : TenantOf(u) \in Tenant
  BY ClusterAssumption DEF ClusterInd, ClusterInv, ClusterTypeOK, TenantOf
<1>3. queued \in [Task -> Status]
  BY <1>2 DEF Status
<1>4. ~Contains(queue, t) /\ t \notin running
  BY <1>1 DEF ClusterInd, ClusterInv, QueueMatches
<1>5. /\ Enqueued(t) \in Seq(Task) /\ InOrder(Enqueued(t))
      /\ \A u \in Task : Contains(Enqueued(t), u) <=> Contains(queue, u) \/ u = t
  BY <1>2, <1>4, EnqueuedInOrder
<1>6. h \in Seq(Task) /\ \A u : Contains(h, u) <=> Contains(history[TenantOf(t)], u) \/ u = t
  <2> DEFINE g == history[TenantOf(t)]
  <2>1. g \in Seq(Task) /\ h = Append(g, t)
    BY <1>2
  <2> HIDE DEF g, h
  <2>2. h \in Seq(Task) /\ \A u : Contains(h, u) <=> Contains(g, u) \/ u = t
    BY <2>1, Appended
  <2> QED
    BY <2>2 DEF g
<1>7. /\ Trimmed(h, queued) \in Seq(Task)
      /\ \A u \in Task : Contains(h, u) /\ Unfinished(queued, u) => Contains(Trimmed(h, queued), u)
  <2> HIDE DEF h, queued
  <2> QED
    BY <1>3, <1>6, TrimmedKeepsUnfinished
<1>8. history' \in [Tenant -> Seq(Task)] /\ late' \in [Task -> BOOLEAN]
  BY <1>1, <1>2, <1>7
<1>9. \A u \in Task : Unfinished(queued, u) => Contains(history'[TenantOf(u)], u)
  <2> SUFFICES ASSUME NEW u \in Task, Unfinished(queued, u)
               PROVE  Contains(history'[TenantOf(u)], u)
    OBVIOUS
  <2>1. u = t \/ Contains(history[TenantOf(u)], u)
    BY <1>2 DEF ClusterInd, ClusterInv, QueueMatches, Unfinished
  <2> HIDE DEF h, queued
  <2>2. CASE TenantOf(u) = TenantOf(t)
    BY <1>1, <1>2, <1>6, <1>7, <2>1, <2>2
  <2>3. CASE TenantOf(u) # TenantOf(t)
    BY <1>1, <1>2, <2>1, <2>3
  <2> QED
    BY <2>2, <2>3
<1>10. /\ b.status = queued /\ b.queue = Enqueued(t) /\ b.place = place /\ b.running = running
       /\ b.load = load /\ b.child = child
       /\ b = [status |-> queued, queue |-> Enqueued(t), place |-> place, running |-> running,
               load |-> load, child |-> child]
  <2> DEFINE e == Enqueued(t)
  <2>1. b = [Current EXCEPT !.status = queued, !.queue = e]
    OBVIOUS
  <2> HIDE DEF b, queued, e
  <2>2. b = [status |-> queued, queue |-> e, place |-> place, running |-> running,
             load |-> load, child |-> child]
    BY <2>1 DEF Current
  <2> QED
    BY <2>2 DEF e
<1> HIDE DEF b
<1>11. \A u \in Task : queued[u] = IF u = t THEN "QUEUED" ELSE status[u]
  BY <1>2
<1> HIDE DEF queued
<1>12. Ordered(b)
  <2>1. /\ Balanced(Current) /\ Current.running = running /\ Current.place = place
        /\ Current.load = load /\ Current.child = child
    BY CurrentOrdered DEF Ordered
  <2>2. b \in State
    BY <1>3, <1>5, <1>10 DEF State, ClusterInd, ClusterInv, ClusterTypeOK
  <2>3. \A x, n : OnNode(b, x, n) = OnNode(Current, x, n)
    BY <1>10, <2>1 DEF OnNode
  <2>4. \A u \in Task : b.status[u] = "ACCEPTED" <=> u \in b.running
    BY <1>4, <1>10, <1>11 DEF ClusterInd, ClusterInv, QueueMatches
  <2>5. Balanced(b)
    BY <1>10, <2>1, <2>2, <2>3, <2>4 DEF Balanced
  <2>6. \A u \in Task : b.status[u] = "QUEUED" <=> Contains(b.queue, u)
    BY <1>5, <1>10, <1>11 DEF ClusterInd, ClusterInv, QueueMatches
  <2> QED
    BY <1>5, <1>10, <2>5, <2>6 DEF Ordered
<1>13. /\ ClusterInd'
       /\ \A u \in Task : status'[u] # b.status[u] =>
             b.status[u] = "QUEUED" /\ status'[u] \in {"ACCEPTED", "EXPIRED"}
       /\ \A v, u \in Task :
             (/\ status'[v] = "ACCEPTED" /\ b.status[v] = "QUEUED" /\ status'[u] = "QUEUED"
              /\ TenantOf(u) = TenantOf(v) /\ Info[u].weight < Info[v].weight)
             => ~(Info[u].needs \subseteq Capabilities[place'[v]])
  BY <1>1, <1>8, <1>9, <1>10, <1>12, ScheduleKeeps
<1>14. Steady
  <2>1. \A u \in Task : status[u] \in Terminal \cup {"QUEUED"} => b.status[u] = status[u]
    BY <1>1, <1>10, <1>11 DEF Terminal
  <2> QED
    BY <1>13, <2>1 DEF Steady, Terminal
<1> QED
  BY <1>13, <1>14

(* A place is given back.                                                  *)
LEMMA VacatedOrdered ==
    ASSUME ClusterInd, NEW t \in running, NEW outcome \in {"EXECUTED", "FAILED"},
           NEW process \in {"none", "killed"}
    PROVE  LET b == [Vacate(Current, t) EXCEPT !.status[t] = outcome, !.child[t] = process]
           IN  /\ Ordered(b) /\ b.status = [status EXCEPT ![t] = outcome]
<1> DEFINE x == TenantOf(t)
           n == place[t]
           l == [load EXCEPT ![x][n] = IF @ = 0 THEN 0 ELSE @ - 1]
           s == [status EXCEPT ![t] = outcome]
           c == [child EXCEPT ![t] = process]
           b == [Vacate(Current, t) EXCEPT !.status[t] = outcome, !.child[t] = process]
<1>1. /\ status \in [Task -> Status] /\ queue \in Seq(Task) /\ running \subseteq Task
      /\ place \in [Task -> Node \cup {NoNode}] /\ load \in [Tenant -> [Node -> Nat]]
      /\ child \in [Task -> {"none", "live", "killed"}]
      /\ IsFiniteSet(running) /\ InOrder(queue) /\ n \in Node
  BY DEF ClusterInd, ClusterInv, ClusterTypeOK
<1>2. t \in Task /\ x \in Tenant
  BY <1>1, ClusterAssumption DEF TenantOf
<1>3. b = [status |-> s, queue |-> queue, place |-> place, running |-> running \ {t},
           load |-> l, child |-> c]
  <2> DEFINE v == Vacate(Current, t)
  <2>1. v = [Current EXCEPT !.running = running \ {t}, !.load = l]
    BY DEF Vacate, Current
  <2> HIDE DEF l
  <2>2. v = [status |-> status, queue |-> queue, place |-> place, running |-> running \ {t},
             load |-> l, child |-> child]
    <3> HIDE DEF v
    <3> QED
      BY <2>1 DEF Current
  <2>3. b = [v EXCEPT !.status[t] = outcome, !.child[t] = process]
    OBVIOUS
  <2> HIDE DEF v, b
  <2>4. b = [v EXCEPT !.status = s, !.child = c]
    BY <2>2, <2>3
  <2> HIDE DEF s, c
  <2> QED
    BY <2>2, <2>4
<1> HIDE DEF b
<1>4. load[x][n] = Cardinality(On(x, n)) /\ load[x][n] \in Nat
  BY <1>1, <1>2 DEF ClusterInd, ClusterInv, SlotsMatch
<1>5. /\ IsFiniteSet(On(x, n)) /\ t \in On(x, n)
      /\ Cardinality(On(x, n) \ {t}) = Cardinality(On(x, n)) - 1
  <2>1. t \in On(x, n) /\ On(x, n) \subseteq running
    BY <1>1 DEF On
  <2> QED
    BY <1>1, <2>1, FS_Subset, FS_RemoveElement
<1>6. /\ load[x][n] # 0
      /\ l = [load EXCEPT ![x][n] = @ - 1] /\ load[x][n] - 1 \in Nat
  <2>1. Cardinality(On(x, n) \ {t}) \in Nat
    BY <1>5, FS_RemoveElement, FS_CardinalityType
  <2>2. load[x][n] # 0 /\ load[x][n] - 1 \in Nat
    BY <1>4, <1>5, <2>1
  <2> QED
    BY <1>1, <1>2, <2>2
<1> HIDE DEF l
<1>7. l \in [Tenant -> [Node -> Nat]]
  BY <1>1, <1>2, <1>6
<1>8. s \in [Task -> Status] /\ c \in [Task -> {"none", "live", "killed"}]
  BY <1>1, <1>2 DEF Status, Terminal
<1> HIDE DEF s, c
<1>9. b \in State
  BY <1>1, <1>3, <1>7, <1>8 DEF State
<1>10. IsFiniteSet(b.running) /\ Cardinality(b.running) <= MaxActive
  <2>1. IsFiniteSet(running \ {t}) /\ Cardinality(running \ {t}) = Cardinality(running) - 1
    BY <1>1, FS_RemoveElement
  <2>2. Cardinality(running) \in Nat /\ Cardinality(running) <= MaxActive /\ MaxActive \in Nat
    BY <1>1, FS_CardinalityType, ClusterAssumption DEF ClusterInd, ClusterInv, SlotsMatch
  <2> QED
    BY <1>3, <2>1, <2>2
<1>11. ASSUME NEW y \in Tenant, NEW o \in Node
       PROVE  b.load[y][o] = Cardinality(OnNode(b, y, o)) /\ b.load[y][o] <= Capacity[o]
  <2>1. load[y][o] = Cardinality(On(y, o)) /\ load[y][o] <= Capacity[o]
    BY DEF ClusterInd, ClusterInv, SlotsMatch
  <2>2. CASE y = x /\ o = n
    <3>1. b.load[y][o] = load[x][n] - 1
      BY <1>1, <1>2, <1>3, <1>6, <2>2
    <3>2. OnNode(b, y, o) = On(x, n) \ {t}
      BY <1>3, <2>2 DEF OnNode, On
    <3>3. Capacity[o] \in Nat
      BY ClusterAssumption
    <3> QED
      BY <1>4, <1>5, <2>1, <2>2, <3>1, <3>2, <3>3
  <2>3. CASE ~(y = x /\ o = n)
    <3>1. b.load[y][o] = load[y][o]
      BY <1>1, <1>2, <1>3, <1>6, <2>3
    <3>2. OnNode(b, y, o) = On(y, o)
      BY <1>3, <2>3 DEF OnNode, On
    <3> QED
      BY <2>1, <3>1, <3>2
  <2> QED
    BY <2>2, <2>3
<1>12. \A u \in Task : s[u] = IF u = t THEN outcome ELSE status[u]
  BY <1>1 DEF s
<1>13. /\ \A u \in Task : b.status[u] = "ACCEPTED" <=> u \in b.running
       /\ \A u \in Task : b.status[u] = "QUEUED" <=> Contains(b.queue, u)
  <2>1. status[t] = "ACCEPTED"
    BY <1>2 DEF ClusterInd, ClusterInv, QueueMatches
  <2> QED
    BY <1>3, <1>12, <2>1 DEF ClusterInd, ClusterInv, QueueMatches
<1>14. \A u \in b.running : b.place[u] \in Node /\ b.child[u] = "live"
  BY <1>1, <1>3 DEF ClusterInd, ClusterInv, SlotsMatch, c
<1>15. Ordered(b) /\ b.status = s
  BY <1>1, <1>3, <1>9, <1>10, <1>11, <1>13, <1>14 DEF Ordered, Balanced
<1> QED
  BY <1>15 DEF b, s

(* The end of an execution is counted once, and its place offered.         *)
LEMMA FinishKeeps ==
    ASSUME ClusterInd, NEW t \in Task, NEW outcome \in {"EXECUTED", "FAILED"},
           NEW process \in {"none", "killed"}, Finish(t, outcome, process)
    PROVE  ClusterInd' /\ Steady
<1>1. CASE t \in running
  <2> DEFINE b == [Vacate(Current, t) EXCEPT !.status[t] = outcome, !.child[t] = process]
  <2>1. Ordered(b) /\ b.status = [status EXCEPT ![t] = outcome]
    BY <1>1, VacatedOrdered
  <2>2. Become(Schedule(b)) /\ UNCHANGED <<late, history>>
    BY <1>1 DEF Finish
  <2>3. /\ late' \in [Task -> BOOLEAN] /\ history' \in [Tenant -> Seq(Task)]
        /\ status \in [Task -> Status] /\ status[t] = "ACCEPTED"
    BY <1>1, <2>2 DEF ClusterInd, ClusterInv, ClusterTypeOK, QueueMatches
  <2> HIDE DEF b
  <2>4. \A u \in Task : b.status[u] = IF u = t THEN outcome ELSE status[u]
    BY <2>1, <2>3
  <2>5. \A u \in Task : Unfinished(b.status, u) => Contains(history'[TenantOf(u)], u)
    BY <2>2, <2>4 DEF ClusterInd, ClusterInv, QueueMatches, Unfinished
  <2>6. /\ ClusterInd'
        /\ \A u \in Task : status'[u] # b.status[u] =>
              b.status[u] = "QUEUED" /\ status'[u] \in {"ACCEPTED", "EXPIRED"}
        /\ \A v, u \in Task :
              (/\ status'[v] = "ACCEPTED" /\ b.status[v] = "QUEUED" /\ status'[u] = "QUEUED"
               /\ TenantOf(u) = TenantOf(v) /\ Info[u].weight < Info[v].weight)
              => ~(Info[u].needs \subseteq Capabilities[place'[v]])
    BY <2>1, <2>2, <2>3, <2>5, ScheduleKeeps
  <2>7. Steady
    <3>1. \A u \in Task : status[u] \in Terminal \cup {"QUEUED"} => b.status[u] = status[u]
      BY <2>3, <2>4 DEF Terminal
    <3> QED
      BY <2>6, <3>1 DEF Steady, Terminal
  <2> QED
    BY <2>6, <2>7
<1>2. CASE t \notin running
  <2>1. /\ child' = [child EXCEPT ![t] = process]
        /\ UNCHANGED <<status, late, queue, history, place, running, load>>
    BY <1>2 DEF Finish, Become, Current
  <2>2. /\ late' \in [Task -> BOOLEAN] /\ child' \in [Task -> {"none", "live", "killed"}]
        /\ \A u \in running : child'[u] = child[u]
    BY <1>2, <2>1 DEF ClusterInd, ClusterInv, ClusterTypeOK
  <2> QED
    BY <2>1, <2>2, ClusterFrame
<1> QED
  BY <1>1, <1>2

(* A stop empties everything at once.                                      *)
LEMMA StopAllKeeps ==
    ASSUME ClusterInd, StopAll
    PROVE  ClusterInd' /\ Steady
<1>1. /\ status \in [Task -> Status] /\ history \in [Tenant -> Seq(Task)]
      /\ late \in [Task -> BOOLEAN] /\ place \in [Task -> Node \cup {NoNode}]
      /\ child \in [Task -> {"none", "live", "killed"}]
  BY DEF ClusterInd, ClusterInv, ClusterTypeOK
<1>2. /\ queue' = <<>> /\ running' = {} /\ UNCHANGED <<late, history, place>>
      /\ load' = [x \in Tenant |-> [n \in Node |-> 0]]
      /\ child' = [t \in Task |-> IF t \in running THEN "killed" ELSE child[t]]
      /\ status' = [t \in Task |->
                      IF t \in running \/ (status[t] = "QUEUED" /\ Contains(history[TenantOf(t)], t))
                      THEN "FAILED" ELSE status[t]]
  BY DEF StopAll
<1>3. \A t \in Task : status'[t] = IF Unfinished(status, t) THEN "FAILED" ELSE status[t]
  BY <1>2 DEF ClusterInd, ClusterInv, QueueMatches, Unfinished
<1>4. \A t \in Task : ~Unfinished(status', t)
  BY <1>3 DEF Unfinished
<1>5. ClusterTypeOK'
  <2>1. status' \in [Task -> Status]
    BY <1>1, <1>2 DEF Status, Terminal
  <2>2. child' \in [Task -> {"none", "live", "killed"}]
    BY <1>1, <1>2
  <2> QED
    BY <1>1, <1>2, <2>1, <2>2 DEF ClusterTypeOK
<1>6. SlotsMatch'
  <2>1. \A x \in Tenant, n \in Node : On(x, n)' = {}
    BY <1>2 DEF On
  <2>2. \A x \in Tenant, n \in Node : load'[x][n] = 0 /\ Capacity[n] \in Nat
    BY <1>2, ClusterAssumption
  <2> QED
    <3>1. Cardinality({}) = 0 /\ MaxActive \in Nat
      BY FS_EmptySet, ClusterAssumption
    <3>2. Cardinality(running') <= MaxActive
      BY <1>2, <3>1
    <3>3. \A x \in Tenant, n \in Node :
             load'[x][n] = Cardinality(On(x, n)') /\ load'[x][n] <= Capacity[n]
      BY <2>1, <2>2, <3>1
    <3> QED
      BY <1>2, <3>2, <3>3 DEF SlotsMatch
<1>7. QueueMatches'
  <2>1. \A t : ~Contains(<<>>, t)
    BY DEF Contains
  <2> QED
    BY <1>2, <1>4, <2>1 DEF QueueMatches, Unfinished
<1>8. NobodyWaitsInVain' /\ IsFiniteSet(running') /\ InOrder(queue')
  BY <1>2, <1>4, FS_EmptySet DEF NobodyWaitsInVain, InOrder, Unfinished
<1>9. Steady
  BY <1>3, <1>4 DEF Steady, Unfinished, Terminal
<1> QED
  BY <1>2, <1>5, <1>6, <1>7, <1>8, <1>9 DEF ClusterInd, ClusterInv, InOrder

(* Every step keeps the invariant, settles nothing twice and lets nobody   *)
(* overtake.                                                               *)
LEMMA ClusterKept == ASSUME ClusterInd, [ClusterNext]_clusterVars PROVE ClusterInd' /\ Steady
<1>1. ASSUME NEW t \in Task, Dispatch(t) PROVE ClusterInd' /\ Steady
  BY <1>1, DispatchKeeps
<1>2. ASSUME NEW t \in Task, TimeToLiveEnds(t) PROVE ClusterInd' /\ Steady
  <2>1. /\ late' = [late EXCEPT ![t] = TRUE]
        /\ UNCHANGED <<status, queue, history, place, running, load, child>>
    BY <1>2 DEF TimeToLiveEnds
  <2>2. late' \in [Task -> BOOLEAN] /\ child' \in [Task -> {"none", "live", "killed"}]
    BY <2>1 DEF ClusterInd, ClusterInv, ClusterTypeOK
  <2> QED
    BY <2>1, <2>2, ClusterFrame
<1>3. ASSUME NEW t \in Task, Close(t) PROVE ClusterInd' /\ Steady
  BY <1>3, FinishKeeps DEF Close
<1>4. ASSUME NEW t \in Task, Kill(t) PROVE ClusterInd' /\ Steady
  BY <1>4, FinishKeeps DEF Kill
<1>5. CASE UNCHANGED clusterVars
  <2>1. UNCHANGED <<status, late, queue, history, place, running, load, child>>
    BY <1>5 DEF clusterVars
  <2>2. late' \in [Task -> BOOLEAN] /\ child' \in [Task -> {"none", "live", "killed"}]
    BY <2>1 DEF ClusterInd, ClusterInv, ClusterTypeOK
  <2> QED
    BY <2>1, <2>2, ClusterFrame
<1> QED
  BY <1>1, <1>2, <1>3, <1>4, <1>5, StopAllKeeps DEF ClusterNext

-----------------------------------------------------------------------------
(* Counters of nodes are the executions on them, within their capacities   *)
(* and the limit of all tenants, and status, queue and history agree       *)
(* (NodeClusterManager), in any order of limits, errors, exits and stops.  *)
THEOREM ClusterInvariant == ClusterSpec => []ClusterInv
<1>1. ClusterInd => ClusterInv
  BY DEF ClusterInd
<1>2. ClusterInd /\ [ClusterNext]_clusterVars => ClusterInd'
  BY ClusterKept
<1> QED
  BY <1>1, <1>2, ClusterInitially, PTL DEF ClusterSpec

(* No task waits while a child may be started and a node fits it, although *)
(* nothing but the end of a child looks at the queue (finishExecution).    *)
THEOREM NobodyIsLeftWaiting == ClusterSpec => []NobodyWaitsInVain
<1>1. ClusterInd => NobodyWaitsInVain
  BY DEF ClusterInd
<1>2. ClusterInd /\ [ClusterNext]_clusterVars => ClusterInd'
  BY ClusterKept
<1> QED
  BY <1>1, <1>2, ClusterInitially, PTL DEF ClusterSpec

(* The cluster never hangs: while a message is unfinished, a child runs    *)
(* that has not been killed, whose close or time limit will be news and    *)
(* look at the queue.  It needs a node that serves all, which createNodes  *)
(* makes.                                                                  *)
SomeChildRuns ==
    \A t \in Task : Unfinished(status, t) => \E u \in running : child[u] = "live"

THEOREM UnfinishedMeansRunning == ClusterSpec => []SomeChildRuns
<1>1. ClusterInv /\ NobodyWaitsInVain => SomeChildRuns
  <2> SUFFICES ASSUME ClusterInv, NobodyWaitsInVain, NEW t \in Task, Unfinished(status, t), running = {}
               PROVE  FALSE
    BY DEF SomeChildRuns, ClusterInv, SlotsMatch
  <2>1. status[t] = "QUEUED"
    BY DEF Unfinished, ClusterInv, QueueMatches
  <2>2. Cardinality(running) < MaxActive
    BY FS_EmptySet, ClusterAssumption
  <2>3. PICK n \in Node : Capabilities[n] = Capability
    BY SomeNodeServesAll
  <2>4. TenantOf(t) \in Tenant /\ Info[t].needs \subseteq Capabilities[n] /\ Capacity[n] \in Nat \ {0}
    BY <2>3, ClusterAssumption DEF TenantOf
  <2>5. On(TenantOf(t), n) = {}
    BY DEF On
  <2>6. load[TenantOf(t)][n] = 0
    BY <2>4, <2>5, FS_EmptySet DEF ClusterInv, SlotsMatch
  <2>7. Fits(Current, t, n)
    BY <2>4, <2>6 DEF Fits, Current
  <2> QED
    BY <2>1, <2>2, <2>7 DEF NobodyWaitsInVain
<1> QED
  BY <1>1, ClusterInvariant, NobodyIsLeftWaiting, PTL

(* A task passed over for want of a fitting node (takeNextEligibleTask)    *)
(* loses no node it could have used to one of a lower priority.            *)
THEOREM NobodyIsOvertaken == ClusterSpec => NoOvertaking
<1>1. ClusterInd /\ [ClusterNext]_clusterVars => ClusterInd'
  BY ClusterKept
<1>2. ClusterInd /\ [ClusterNext]_clusterVars => Steady
  BY ClusterKept
<1>3. Steady => \A t, u \in Task :
          (/\ status'[t] = "ACCEPTED" /\ status[t] = "QUEUED" /\ u # t
           /\ status'[u] = "QUEUED" /\ TenantOf(u) = TenantOf(t)
           /\ Info[u].weight < Info[t].weight)
          => ~(Info[u].needs \subseteq Capabilities[place'[t]])
  BY DEF Steady
<1> QED
  BY <1>1, <1>2, <1>3, ClusterInitially, PTL DEF ClusterSpec, NoOvertaking

(* What was reported of a message is never changed by a child that closes  *)
(* late or by stopAll.                                                     *)
THEOREM SettledIsFinal == ClusterSpec => SettledStays
<1>1. ClusterInd /\ [ClusterNext]_clusterVars => ClusterInd'
  BY ClusterKept
<1>2. ClusterInd /\ [ClusterNext]_clusterVars =>
         \A t \in Task : status[t] \in Terminal => status'[t] = status[t]
  BY ClusterKept DEF Steady
<1> QED
  BY <1>1, <1>2, ClusterInitially, PTL DEF ClusterSpec, SettledStays
=============================================================================
