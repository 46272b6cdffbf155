-------------------------- MODULE NodeExchangeProofs --------------------------
(* Theorems about NodeExchange, for any nodes, keys, envelopes and clients *)
(* and any bounds.                                                         *)
EXTENDS NodeExchange, FiniteSetTheorems, WellFoundedInduction, TLAPS

(* Which fields a request has.                                             *)
LEMMA Requests ==
    ASSUME NEW r \in Request
    PROVE  /\ r.kind \in {"register", "status", "accept", "route", "health", "verify"}
           /\ r.kind = "register" => r.key \in KeyId
           /\ r.kind = "status" => r.key \in KeyId /\ r.to \in Status
           /\ r.kind = "accept" => r.env \in Submitted /\ r.env \in Envelope /\ r.after \in Nat
                                   /\ KeyOf(r.env) \in KeyId
BY ExchangeAssumption DEF Request

(* What a submitted envelope is made of.                                   *)
LEMMA Envelopes ==
    ASSUME NEW e \in Submitted
    PROVE  /\ e.message \in Message /\ e.hop \in Nat /\ e.recipient \in Node
           /\ e.sequence \in 0..MaxSequence /\ KeyOf(e) \in KeyId
BY ExchangeAssumption DEF Envelope

(* A transaction's request is typed, its key is one of the keys, and the   *)
(* advisory lock of a key request is the key's node.                       *)
LEMMA InFlight ==
    ASSUME TypeOK, LocksHeld, NEW c \in Client, InTransaction(c)
    PROVE  /\ call[c].req \in Request /\ call[c].req.kind \in {"register", "status", "accept"}
           /\ MyKey(c) \in KeyId
           /\ call[c].req.kind # "accept" =>
                 MyKey(c) = call[c].req.key /\ LockOf(call[c].req) = MyKey(c)[1]
           /\ call[c].req.kind = "accept" =>
                 MyKey(c) = KeyOf(call[c].req.env) /\ LockOf(call[c].req) = Scope
<1>1. call[c].req \in Request /\ call[c].req.kind \in {"register", "status", "accept"}
  BY DEF LocksHeld, StageFits, Writes
<1> QED
  BY <1>1, Requests DEF MyKey, KeyFor, LockOf

(* The nodes' keys and the ledger's scope are different locks, so one      *)
(* envelope at a time is being accepted.                                   *)
LEMMA OneAccepts ==
    ASSUME TypeOK, LocksHeld, NEW c \in Client, NEW d \in Client \ {c},
           InTransaction(c), InTransaction(d), call[c].req.kind = "accept"
    PROVE  call[d].req.kind # "accept"
BY DEF LocksHeld, Apart, LockOf

(* A link put at the end of a chain of hashes.                             *)
LEMMA Linking ==
    ASSUME NEW S, NEW h \in HeadOver(S), NEW x \in S
    PROVE  /\ After(h, x) \in RowOver(S) /\ HeadAt(After(h, x)) \in HeadOver(S)
           /\ After(h, x).seq = h.seq + 1 /\ After(h, x).prev = h.hash /\ After(h, x).content = x
           /\ HeadAt(After(h, x)).seq = h.seq + 1
BY DEF After, HeadAt, Hash, HeadOver, RowOver

(* At first there are no blocks, no records and no requests.               *)
LEMMA ExchangeInitially == Init => ExchangeInv
<1> SUFFICES ASSUME Init PROVE ExchangeInv
  OBVIOUS
<1> USE DEF Init
<1>1. Idle \in Call /\ Genesis \in HeadOver(Contents) /\ Genesis \in HeadOver(Nat)
  BY DEF Idle, Call, Genesis, HeadOver
<1>2. TypeOK
  BY <1>1, ExchangeAssumption DEF TypeOK, Status, Answer
<1>3. \A c \in Client : call[c].stage = "idle" /\ ~InTransaction(c) /\ ~HoldsAudit(c) /\ Rows(c) = {}
  BY DEF Idle, InTransaction, HoldsAudit, Rows
<1>4. LocksHeld
  BY <1>3 DEF LocksHeld, StageFits, Apart
<1>5. ReadsHold
  BY <1>3 DEF ReadsHold, KeyJudged, EnvelopeJudged
<1>6. OneActiveKey /\ SequencesIncrease /\ RoutesContinue /\ BlocksRecorded
  BY DEF OneActiveKey, SequencesIncrease, RoutesContinue, BlocksRecorded
<1> QED
  BY <1>2, <1>4, <1>5, <1>6 DEF ExchangeInv

(* Exclusion is mutual.                                                    *)
LEMMA ApartBothWays == \A c, d \in Client : Apart(c, d) <=> Apart(d, c)
BY DEF Apart

(* A request whose own state and whose surroundings stay keeps its locks   *)
(* and its judgements.                                                     *)
LEMMA OthersKept ==
    ASSUME ExchangeInv, NEW d \in Client, call'[d] = call[d], UNCHANGED <<keys, ledger, audit>>
    PROVE  /\ StageFits(d)' /\ KeyJudged(d)' /\ EnvelopeJudged(d)'
           /\ (call[d].stage = "audit" => call[d].auditBase = auditHead)'
           /\ Rows(d)' = Rows(d) /\ InTransaction(d)' = InTransaction(d)
           /\ HoldsAudit(d)' = HoldsAudit(d)
<1> USE DEF ledger, audit, MyKey, InTransaction, HoldsAudit
<1>1. StageFits(d)' /\ Rows(d)' = Rows(d) /\ InTransaction(d)' = InTransaction(d) /\ HoldsAudit(d)' = HoldsAudit(d)
  BY DEF ExchangeInv, LocksHeld, StageFits, Rows
<1>2. KeyJudged(d)'
  <2>1. Suspended(call[d].req)' = Suspended(call[d].req)
    BY DEF Suspended, OtherActive
  <2> QED
    BY <2>1 DEF ExchangeInv, ReadsHold, KeyJudged, MayBecome
<1>3. EnvelopeJudged(d)'
  BY DEF ExchangeInv, ReadsHold, EnvelopeJudged, Admissible, Continues, SameHop, Used
<1> QED
  BY <1>1, <1>2, <1>3 DEF ExchangeInv, ReadsHold

(* A step that moves one request and changes no table keeps the invariant  *)
(* when the request it moves is as it should be afterwards.                *)
LEMMA OneMoves ==
    ASSUME ExchangeInv, NEW c \in Client, NEW x \in Call,
           call' = [call EXCEPT ![c] = x], answer' \in [Client -> Answer],
           UNCHANGED <<keys, ledger, audit>>,
           StageFits(c)', KeyJudged(c)', EnvelopeJudged(c)',
           x.stage = "audit" => x.auditBase = auditHead,
           \A d \in Client \ {c} : Apart(c, d)'
    PROVE  ExchangeInv'
<1>1. call \in [Client -> Call] /\ call'[c] = x /\ \A d \in Client \ {c} : call'[d] = call[d]
  BY DEF ExchangeInv, TypeOK
<1>2. TypeOK'
  BY DEF ExchangeInv, TypeOK, ledger, audit
<1>3. LocksHeld'
  <2>1. \A d \in Client : StageFits(d)'
    BY <1>1, OthersKept
  <2>2. ASSUME NEW a \in Client, NEW d \in Client \ {a} PROVE Apart(a, d)'
    <3>1. CASE a = c
      BY <3>1
    <3>2. CASE d = c
      BY <3>2 DEF Apart
    <3>3. CASE a # c /\ d # c
      <4>1. Apart(a, d)
        BY DEF ExchangeInv, LocksHeld
      <4> QED
        BY <1>1, <3>3, <4>1, OthersKept DEF Apart
    <3> QED
      BY <3>1, <3>2, <3>3
  <2> QED
    BY <2>1, <2>2 DEF LocksHeld
<1>4. ReadsHold'
  <2>1. \A d \in Client \ {c} :
           KeyJudged(d)' /\ EnvelopeJudged(d)' /\ (call[d].stage = "audit" => call[d].auditBase = auditHead)'
    BY <1>1, OthersKept
  <2> QED
    BY <1>1, <2>1 DEF ReadsHold, audit
<1>5. OneActiveKey' /\ SequencesIncrease' /\ RoutesContinue' /\ BlocksRecorded'
  BY DEF ExchangeInv, OneActiveKey, OtherActive, SequencesIncrease, RoutesContinue, BlocksRecorded, ledger, audit
<1> QED
  BY <1>2, <1>3, <1>4, <1>5 DEF ExchangeInv

(* A request that ends without having changed anything.                    *)
LEMMA Ending ==
    ASSUME ExchangeInv, NEW c \in Client, call' = [call EXCEPT ![c] = Idle],
           answer' \in [Client -> Answer], UNCHANGED <<keys, ledger, audit>>
    PROVE  ExchangeInv'
<1>1. Idle \in Call /\ call'[c] = Idle /\ Idle.stage = "idle"
  BY DEF ExchangeInv, TypeOK, Idle, Call, Genesis, HeadOver
<1>2. StageFits(c)' /\ KeyJudged(c)' /\ EnvelopeJudged(c)'
  BY <1>1 DEF StageFits, KeyJudged, EnvelopeJudged, InTransaction
<1>3. \A d \in Client \ {c} : Apart(c, d)'
  BY <1>1 DEF Apart, InTransaction, Rows, HoldsAudit
<1> QED
  BY <1>1, <1>2, <1>3, OneMoves

(* A transaction that goes on keeps its advisory lock; it may add rows that*)
(* nobody has locked, or the audit head when nobody has it.                *)
LEMMA StillApart ==
    ASSUME ExchangeInv, NEW c \in Client, InTransaction(c), NEW x \in Call,
           call' = [call EXCEPT ![c] = x], UNCHANGED <<keys, ledger, audit>>,
           x.req = call[c].req, NEW K, RowsFree(c, K), Rows(c)' \subseteq Rows(c) \cup K,
           x.stage = "audit" => \A d \in Client \ {c} : ~HoldsAudit(d)
    PROVE  \A d \in Client \ {c} : Apart(c, d)'
<1> SUFFICES ASSUME NEW d \in Client \ {c} PROVE Apart(c, d)'
  OBVIOUS
<1>1. call'[c] = x /\ call'[d] = call[d]
  BY DEF ExchangeInv, TypeOK
<1>2. Rows(d)' = Rows(d) /\ InTransaction(d)' = InTransaction(d) /\ HoldsAudit(d)' = HoldsAudit(d)
  BY <1>1, OthersKept
<1>3. Apart(c, d)
  BY DEF ExchangeInv, LocksHeld
<1>4. InTransaction(d) => LockOf(call[c].req) # LockOf(call[d].req)
  BY <1>3 DEF Apart
<1>5. Rows(c)' \cap Rows(d)' = {}
  BY <1>2, <1>3 DEF Apart, RowsFree
<1>6. ~(HoldsAudit(c)' /\ HoldsAudit(d)')
  BY <1>1, <1>2 DEF HoldsAudit
<1> QED
  BY <1>1, <1>2, <1>4, <1>5, <1>6 DEF Apart

(* A transaction begins: nobody in a transaction has its advisory lock.    *)
LEMMA OpenKeeps == ASSUME ExchangeInv, NEW c \in Client, Open(c) PROVE ExchangeInv'
<1>1. PICK r \in Request :
         /\ Writes(r) /\ LockFree(r) /\ Begin(c, [Idle EXCEPT !.stage = "open", !.req = r])
  BY DEF Open
<1> DEFINE x == [Idle EXCEPT !.stage = "open", !.req = r]
<1>2. x \in Call /\ x.stage = "open" /\ x.req = r
  <2>1. Genesis \in HeadOver(Contents) /\ Genesis \in HeadOver(Nat)
    BY DEF Genesis, HeadOver
  <2> QED
    BY <2>1 DEF Idle, Call, Stage
<1> HIDE DEF x
<1>3. call' = [call EXCEPT ![c] = x] /\ UNCHANGED <<keys, ledger, audit>> /\ answer' \in [Client -> Answer]
  BY <1>1 DEF Begin, x, ExchangeInv, TypeOK, Answer
<1>4. call'[c] = x /\ \A d \in Client \ {c} : call'[d] = call[d]
  BY <1>3 DEF ExchangeInv, TypeOK
<1>5. StageFits(c)' /\ KeyJudged(c)' /\ EnvelopeJudged(c)'
  BY <1>1, <1>2, <1>4 DEF StageFits, KeyJudged, EnvelopeJudged, InTransaction
<1>6. Rows(c)' = {} /\ ~HoldsAudit(c)'
  BY <1>2, <1>4 DEF Rows, HoldsAudit
<1>7. \A d \in Client \ {c} : InTransaction(d) => LockOf(r) # LockOf(call[d].req)
  BY <1>1 DEF LockFree
<1>8. \A d \in Client \ {c} : Apart(c, d)'
  BY <1>2, <1>4, <1>6, <1>7 DEF Apart, InTransaction
<1> QED
  BY <1>2, <1>3, <1>5, <1>8, OneMoves

(* A reader holds nothing.                                                 *)
LEMMA ReadFirstKeeps == ASSUME ExchangeInv, NEW c \in Client, ReadFirst(c) PROVE ExchangeInv'
<1>1. PICK x \in Call : x.stage = "read" /\ Begin(c, x)
  <2>1. PICK r \in Request :
           IF r.kind = "verify"
           THEN Begin(c, [Idle EXCEPT !.stage = "read", !.req = r, !.auditBase = auditHead])
           ELSE Begin(c, [Idle EXCEPT !.stage = "read", !.req = r, !.base = head])
    BY DEF ReadFirst
  <2>2. /\ Genesis \in HeadOver(Contents) /\ head \in HeadOver(Contents)
        /\ Genesis \in HeadOver(Nat) /\ auditHead \in HeadOver(Nat)
    BY DEF ExchangeInv, TypeOK, Genesis, HeadOver
  <2> DEFINE v == [Idle EXCEPT !.stage = "read", !.req = r, !.auditBase = auditHead]
             l == [Idle EXCEPT !.stage = "read", !.req = r, !.base = head]
  <2>3. v \in Call /\ v.stage = "read" /\ l \in Call /\ l.stage = "read"
    BY <2>2 DEF Idle, Call, Stage
  <2> QED
    BY <2>1, <2>3
<1>2. x \in Call /\ x.stage = "read"
  BY <1>1
<1>3. call' = [call EXCEPT ![c] = x] /\ UNCHANGED <<keys, ledger, audit>> /\ answer' \in [Client -> Answer]
  BY <1>1 DEF Begin, ExchangeInv, TypeOK, Answer
<1>4. call'[c] = x
  BY <1>3 DEF ExchangeInv, TypeOK
<1>5. StageFits(c)' /\ KeyJudged(c)' /\ EnvelopeJudged(c)'
  BY <1>2, <1>4 DEF StageFits, KeyJudged, EnvelopeJudged, InTransaction
<1>6. \A d \in Client \ {c} : Apart(c, d)'
  BY <1>2, <1>4 DEF Apart, InTransaction, Rows, HoldsAudit
<1> QED
  BY <1>2, <1>3, <1>5, <1>6, OneMoves

(* The other active keys are locked, and are exactly those suspended.      *)
LEMMA SuspendKeeps ==
    ASSUME ExchangeInv, NEW c \in Client, Suspend(c),
           (At(c, "register", "open") /\ keys[MyKey(c)].status = "NONE") \/ At(c, "status", "row")
    PROVE  ExchangeInv'
<1> DEFINE x == [call[c] EXCEPT !.stage = "ready", !.others = Suspended(call[c].req)]
<1>1. call[c] \in Call /\ answer \in [Client -> Answer] /\ InTransaction(c) /\ TypeOK /\ LocksHeld /\ ReadsHold
  BY DEF ExchangeInv, TypeOK, At, InTransaction
<1>2. Suspended(call[c].req) \subseteq KeyId
  BY DEF Suspended, OtherActive
<1>3. /\ x \in Call /\ x.stage = "ready" /\ x.req = call[c].req /\ x.others = Suspended(call[c].req)
      /\ x.auditBase = call[c].auditBase
  BY <1>1, <1>2 DEF Call, Stage
<1> HIDE DEF x
<1>4. /\ call' = [call EXCEPT ![c] = x] /\ UNCHANGED <<keys, ledger, audit>> /\ answer' \in [Client -> Answer]
      /\ RowsFree(c, Suspended(call[c].req))
  BY <1>1 DEF Suspend, NothingElse, x
<1>5. call'[c] = x
  BY <1>4 DEF ExchangeInv, TypeOK
<1>6. MyKey(c)' = MyKey(c) /\ Suspended(call[c].req)' = Suspended(call[c].req)
  BY <1>3, <1>4, <1>5 DEF MyKey, Suspended, OtherActive
<1>7. StageFits(c)' /\ EnvelopeJudged(c)'
  BY <1>1, <1>3, <1>5, InFlight DEF StageFits, EnvelopeJudged, InTransaction, Writes, At
<1>8. KeyJudged(c)'
  BY <1>1, <1>3, <1>4, <1>5, <1>6 DEF ReadsHold, KeyJudged, MayBecome, At
<1>9. Rows(c)' \subseteq Rows(c) \cup Suspended(call[c].req)
  BY <1>1, <1>3, <1>5, <1>6 DEF Rows, InTransaction, At
<1>10. \A d \in Client \ {c} : Apart(c, d)'
  BY <1>1, <1>3, <1>4, <1>9, StillApart
<1> QED
  BY <1>3, <1>4, <1>7, <1>8, <1>10, OneMoves

(* A key's or a sender's row is locked, and what is read there suits.      *)
LEMMA RowLocked ==
    ASSUME ExchangeInv, NEW c \in Client, call[c].stage = "open", RowsFree(c, {MyKey(c)}),
           GoTo(c, "row"), NothingElse,
           \/ call[c].req.kind = "status" /\ MayBecome(MyKey(c), call[c].req.to)
           \/ /\ call[c].req.kind = "accept"
              /\ Admissible(call[c].req) /\ SameHop(call[c].req.env) = {}
    PROVE  ExchangeInv'
<1> DEFINE x == [call[c] EXCEPT !.stage = "row"]
<1>1. call[c] \in Call /\ answer \in [Client -> Answer] /\ InTransaction(c) /\ TypeOK /\ LocksHeld
  BY DEF ExchangeInv, TypeOK, InTransaction
<1>2. x \in Call /\ x.stage = "row" /\ x.req = call[c].req /\ x.others = call[c].others
  BY <1>1 DEF Call, Stage
<1> HIDE DEF x
<1>3. call' = [call EXCEPT ![c] = x] /\ UNCHANGED <<keys, ledger, audit>> /\ answer' \in [Client -> Answer]
  BY <1>1 DEF GoTo, NothingElse, x
<1>4. call'[c] = x /\ MyKey(c)' = MyKey(c)
  BY <1>2, <1>3 DEF ExchangeInv, TypeOK, MyKey
<1>5. StageFits(c)'
  BY <1>1, <1>2, <1>4, InFlight DEF StageFits, InTransaction, Writes
<1>6. KeyJudged(c)'
  BY <1>2, <1>3, <1>4 DEF KeyJudged, MayBecome
<1>7. EnvelopeJudged(c)'
  BY <1>2, <1>3, <1>4 DEF EnvelopeJudged, Admissible, Continues, SameHop, ledger
<1>8. Rows(c)' \subseteq Rows(c) \cup {MyKey(c)}
  BY <1>2, <1>4 DEF Rows
<1>9. \A d \in Client \ {c} : Apart(c, d)'
  BY <1>1, <1>2, <1>3, <1>8, StillApart
<1> QED
  BY <1>2, <1>3, <1>5, <1>6, <1>7, <1>9, OneMoves

(* The ledger's head is read under the scope's lock.                       *)
LEMMA HeadLocked ==
    ASSUME ExchangeInv, NEW c \in Client, At(c, "accept", "row"), ~Used(call[c].req.env),
           call' = [call EXCEPT ![c] = [@ EXCEPT !.stage = "head", !.base = head]], NothingElse
    PROVE  ExchangeInv'
<1> DEFINE x == [call[c] EXCEPT !.stage = "head", !.base = head]
<1>1. call[c] \in Call /\ answer \in [Client -> Answer] /\ InTransaction(c) /\ TypeOK /\ LocksHeld /\ ReadsHold
  BY DEF ExchangeInv, TypeOK, InTransaction, At
<1>2. x \in Call /\ x.stage = "head" /\ x.req = call[c].req /\ x.others = call[c].others /\ x.base = head
  BY <1>1 DEF Call, Stage, TypeOK
<1> HIDE DEF x
<1>3. call' = [call EXCEPT ![c] = x] /\ UNCHANGED <<keys, ledger, audit>> /\ answer' \in [Client -> Answer]
  BY <1>1 DEF NothingElse, x
<1>4. call'[c] = x /\ MyKey(c)' = MyKey(c)
  BY <1>2, <1>3 DEF ExchangeInv, TypeOK, MyKey
<1>5. StageFits(c)'
  BY <1>1, <1>2, <1>4, InFlight DEF StageFits, InTransaction, Writes, At
<1>6. KeyJudged(c)'
  BY <1>2, <1>4 DEF KeyJudged, At
<1>7. EnvelopeJudged(c)'
  <2>1. /\ call[c].req.kind = "accept" /\ Admissible(call[c].req) /\ SameHop(call[c].req.env) = {}
        /\ ~Used(call[c].req.env)
    BY <1>1 DEF ReadsHold, EnvelopeJudged, At
  <2>2. call'[c].req = call[c].req /\ keys' = keys /\ blocks' = blocks /\ hops' = hops /\ head' = head
    BY <1>2, <1>3, <1>4 DEF ledger
  <2>3. Admissible(call[c].req)'
    BY <2>1, <2>2 DEF Admissible, Continues
  <2>4. (SameHop(call[c].req.env) = {})'
    BY <2>1, <2>2 DEF SameHop
  <2>5. ~Used(call[c].req.env)'
    BY <2>1, <2>2 DEF Used
  <2> QED
    BY <1>2, <1>4, <2>2, <2>3, <2>4, <2>5 DEF EnvelopeJudged
<1>8. Rows(c)' \subseteq Rows(c) \cup {} /\ RowsFree(c, {})
  BY <1>1, <1>2, <1>4 DEF Rows, RowsFree, At
<1>9. \A d \in Client \ {c} : Apart(c, d)'
  BY <1>1, <1>2, <1>3, <1>8, StillApart
<1> QED
  BY <1>2, <1>3, <1>5, <1>6, <1>7, <1>9, OneMoves

(* The audit head is read by its only holder.                              *)
LEMMA LockAuditKeeps == ASSUME ExchangeInv, NEW c \in Client, LockAudit(c) PROVE ExchangeInv'
<1> DEFINE x == [call[c] EXCEPT !.stage = "audit", !.auditBase = auditHead]
<1>1. call[c] \in Call /\ answer \in [Client -> Answer] /\ InTransaction(c) /\ TypeOK /\ LocksHeld /\ ReadsHold
  BY DEF ExchangeInv, TypeOK, InTransaction, LockAudit, At
<1>2. /\ x \in Call /\ x.stage = "audit" /\ x.req = call[c].req /\ x.others = call[c].others
      /\ x.base = call[c].base /\ x.auditBase = auditHead
  BY <1>1 DEF Call, Stage, TypeOK
<1> HIDE DEF x
<1>3. /\ call' = [call EXCEPT ![c] = x] /\ UNCHANGED <<keys, ledger, audit>> /\ answer' \in [Client -> Answer]
      /\ \A d \in Client \ {c} : ~HoldsAudit(d)
  BY <1>1 DEF LockAudit, NothingElse, x
<1>4. call'[c] = x /\ MyKey(c)' = MyKey(c) /\ Suspended(call[c].req)' = Suspended(call[c].req)
  BY <1>2, <1>3 DEF ExchangeInv, TypeOK, MyKey, Suspended, OtherActive
<1>5. StageFits(c)'
  BY <1>1, <1>2, <1>4, InFlight DEF StageFits, InTransaction, Writes
<1>6. KeyJudged(c)'
  BY <1>1, <1>2, <1>3, <1>4 DEF ReadsHold, KeyJudged, MayBecome, LockAudit, At
<1>7. EnvelopeJudged(c)'
  <2>1. call[c].req.kind = "accept" => call[c].stage = "head"
    BY <1>1 DEF LockAudit, At, LocksHeld, StageFits
  <2> QED
    BY <1>1, <1>2, <1>3, <1>4, <2>1 DEF ReadsHold, EnvelopeJudged, Admissible, Continues, SameHop, Used, ledger
<1>8. Rows(c)' \subseteq Rows(c) \cup {} /\ RowsFree(c, {})
  BY <1>1, <1>2, <1>4 DEF Rows, RowsFree, LockAudit, At, InTransaction
<1>9. \A d \in Client \ {c} : Apart(c, d)'
  BY <1>1, <1>2, <1>3, <1>8, StillApart
<1> QED
  BY <1>2, <1>3, <1>5, <1>6, <1>7, <1>9, OneMoves

(* A commit gives up all locks of its transaction and none of the others.  *)
LEMMA CommitUnlocks ==
    ASSUME ExchangeInv, NEW c \in Client, call' = [call EXCEPT ![c] = Idle]
    PROVE  LocksHeld' /\ call' \in [Client -> Call] /\ call'[c].stage = "idle"
           /\ \A d \in Client \ {c} : call'[d] = call[d]
<1>1. /\ call' \in [Client -> Call] /\ call'[c].stage = "idle"
      /\ \A d \in Client \ {c} : call'[d] = call[d]
  BY DEF ExchangeInv, TypeOK, Idle, Call, Genesis, HeadOver
<1>2. StageFits(c)' /\ Rows(c)' = {} /\ ~InTransaction(c)' /\ ~HoldsAudit(c)'
  BY <1>1 DEF StageFits, Rows, InTransaction, HoldsAudit
<1>3. ASSUME NEW d \in Client \ {c}
      PROVE  /\ StageFits(d)' /\ Rows(d)' = Rows(d) /\ InTransaction(d)' = InTransaction(d)
             /\ HoldsAudit(d)' = HoldsAudit(d)
  BY <1>1 DEF StageFits, Rows, InTransaction, HoldsAudit, MyKey, ExchangeInv, LocksHeld
<1>4. ASSUME NEW a \in Client, NEW d \in Client \ {a} PROVE Apart(a, d)'
  <2>1. CASE a = c \/ d = c
    BY <1>2, <2>1 DEF Apart
  <2>2. CASE a # c /\ d # c
    <3>1. Apart(a, d)
      BY DEF ExchangeInv, LocksHeld
    <3> QED
      BY <1>1, <1>3, <2>2, <3>1 DEF Apart
  <2> QED
    BY <2>1, <2>2
<1> QED
  BY <1>1, <1>2, <1>3, <1>4 DEF LocksHeld

(* The audit record of a commit goes behind the head.                      *)
LEMMA RecordAdded ==
    ASSUME ExchangeInv, NEW c \in Client, call[c].stage = "audit", NEW n \in Nat, AddRecord(c, n)
    PROVE  /\ auditHead' \in HeadOver(Nat) /\ auditHead'.seq = auditHead.seq + 1
           /\ \E r \in RowOver(Nat) : /\ r = After(auditHead, n) /\ r.content = n
                                      /\ r.seq = auditHead.seq + 1 /\ auditHead' = HeadAt(r)
                                      /\ records' = records \cup {r}
<1>1. call[c].auditBase = auditHead /\ auditHead \in HeadOver(Nat)
  BY DEF ExchangeInv, ReadsHold, TypeOK
<1> QED
  BY <1>1, Linking DEF AddRecord

(* What a request for a key is about to write when it commits.             *)
LEMMA KeysWritten ==
    ASSUME ExchangeInv, NEW c \in Client, CommitKeys(c)
    PROVE  /\ MyKey(c) \in KeyId /\ MyKey(c) = call[c].req.key
           /\ call[c].others = Suspended(call[c].req)
           /\ keys' \in [KeyId -> [status : Status \cup {"NONE"}, last : -1..MaxSequence]]
           /\ \A o \in KeyId : keys'[o].last = keys[o].last
           /\ \A o \in KeyId : o # MyKey(c) /\ o \notin call[c].others => keys'[o] = keys[o]
           /\ \A o \in call[c].others : /\ o # MyKey(c) /\ o[1] = MyKey(c)[1]
                                        /\ keys[o].status = "ACTIVE" /\ keys'[o].status = "SUSPENDED"
           /\ keys'[MyKey(c)].status = IF Activates(call[c].req) THEN "ACTIVE" ELSE call[c].req.to
<1> DEFINE k == MyKey(c)
           to == IF Activates(call[c].req) THEN "ACTIVE" ELSE call[c].req.to
<1>1. call[c].stage = "audit" /\ call[c].req.kind # "accept" /\ InTransaction(c)
  BY DEF CommitKeys, InTransaction
<1>2. k \in KeyId /\ k = call[c].req.key /\ call[c].req \in Request /\ call[c].req.kind \in {"register", "status"}
  BY <1>1, InFlight DEF ExchangeInv
<1>3. call[c].others = Suspended(call[c].req)
  BY <1>1 DEF ExchangeInv, ReadsHold, KeyJudged
<1>4. \A o \in call[c].others : o \in KeyId /\ o # k /\ o[1] = k[1] /\ keys[o].status = "ACTIVE"
  BY <1>2, <1>3 DEF Suspended, OtherActive
<1>5. to \in Status
  BY <1>2, Requests DEF Activates, Status
<1>6. keys \in [KeyId -> [status : Status \cup {"NONE"}, last : -1..MaxSequence]]
  BY DEF ExchangeInv, TypeOK
<1>7. keys' = [o \in KeyId |->
               IF o = k THEN [keys[o] EXCEPT !.status = to]
               ELSE IF o \in call[c].others THEN [keys[o] EXCEPT !.status = "SUSPENDED"]
               ELSE keys[o]]
  BY DEF CommitKeys
<1> HIDE DEF k, to
<1>8. /\ keys' \in [KeyId -> [status : Status \cup {"NONE"}, last : -1..MaxSequence]]
      /\ \A o \in KeyId : keys'[o].last = keys[o].last
      /\ \A o \in KeyId : o # k /\ o \notin call[c].others => keys'[o] = keys[o]
      /\ \A o \in call[c].others : keys'[o].status = "SUSPENDED"
      /\ keys'[k].status = to
  BY <1>2, <1>4, <1>5, <1>6, <1>7 DEF Status
<1> QED
  BY <1>2, <1>3, <1>4, <1>8 DEF k, to

(* The commit of a registration or a change of status.  Requests for keys  *)
(* of the node wait for the node's lock, and a sender whose key is about to*)
(* change would hold a row this request has locked.                        *)
LEMMA CommitKeysKeeps == ASSUME ExchangeInv, NEW c \in Client, CommitKeys(c) PROVE ExchangeInv'
<1> DEFINE k == MyKey(c)
<1>1. /\ call[c].stage = "audit" /\ call[c].req.kind # "accept" /\ InTransaction(c)
      /\ call' = [call EXCEPT ![c] = Idle] /\ answer' = [answer EXCEPT ![c] = "done"]
      /\ UNCHANGED ledger /\ AddRecord(c, 0)
  BY DEF CommitKeys, InTransaction, Tell
<1>2. TypeOK /\ LocksHeld /\ ReadsHold /\ call[c].req.kind \in {"register", "status"}
  BY <1>1, InFlight DEF ExchangeInv
<1>3. LocksHeld' /\ call' \in [Client -> Call] /\ call'[c].stage = "idle"
           /\ \A d \in Client \ {c} : call'[d] = call[d]
  BY <1>1, CommitUnlocks
<1>4. PICK r \in RowOver(Nat) : /\ r.content = 0 /\ r.seq = auditHead.seq + 1 /\ auditHead' = HeadAt(r)
                                /\ records' = records \cup {r}
                                /\ auditHead' \in HeadOver(Nat) /\ auditHead'.seq = auditHead.seq + 1
  BY <1>1, RecordAdded
<1>5. TypeOK'
  <2>1. keys' \in [KeyId -> [status : Status \cup {"NONE"}, last : -1..MaxSequence]]
    BY KeysWritten
  <2>2. answer' \in [Client -> Answer]
    BY <1>1 DEF ExchangeInv, TypeOK, Answer
  <2>3. \A o \in records' : o \in RowOver(Nat) /\ o.content <= head'.seq /\ o.seq \in 1..auditHead'.seq
    BY <1>1, <1>2, <1>4 DEF TypeOK, ledger, RowOver, HeadOver
  <2> QED
    BY <1>1, <1>2, <1>3, <1>4, <2>1, <2>2, <2>3 DEF TypeOK, ledger
<1>6. ASSUME NEW d \in Client \ {c}
      PROVE  KeyJudged(d)' /\ EnvelopeJudged(d)' /\ call[d].stage # "audit"
  <2>1. Apart(c, d) /\ call'[d] = call[d]
    BY <1>2, <1>3 DEF LocksHeld
  <2>2. call[d].stage # "audit"
    BY <1>1, <2>1 DEF Apart, HoldsAudit
  <2>3. ASSUME InTransaction(d), call[d].req.kind # "accept"
        PROVE  \A o \in KeyId : o[1] = MyKey(d)[1] => keys'[o] = keys[o]
    <3>1. MyKey(d)[1] # k[1]
      BY <1>1, <1>2, <2>1, <2>3, InFlight DEF Apart
    <3> QED
      BY <3>1, KeysWritten
  <2>4. KeyJudged(d)'
    <3>1. ASSUME InTransaction(d), call[d].req.kind # "accept"
          PROVE  /\ MyKey(d)' = MyKey(d) /\ keys'[MyKey(d)] = keys[MyKey(d)]
                 /\ Suspended(call[d].req)' = Suspended(call[d].req)
      <4>1. MyKey(d) \in KeyId /\ MyKey(d) = call[d].req.key
        BY <1>2, <3>1, InFlight
      <4>2. OtherActive(call[d].req.key)' = OtherActive(call[d].req.key)
        BY <2>3, <3>1, <4>1, <2>1 DEF OtherActive
      <4> QED
        BY <2>1, <2>3, <3>1, <4>1, <4>2 DEF Suspended, MyKey
    <3> QED
      BY <1>2, <2>1, <3>1 DEF ReadsHold, KeyJudged, MayBecome, InTransaction
  <2>5. EnvelopeJudged(d)'
    <3>1. ASSUME call[d].req.kind = "accept", call[d].stage \in {"row", "head", "audit"}
          PROVE  keys'[KeyOf(call[d].req.env)] = keys[KeyOf(call[d].req.env)]
      <4>1. InTransaction(d) /\ MyKey(d) = KeyOf(call[d].req.env) /\ MyKey(d) \in KeyId
        BY <1>2, <3>1, InFlight DEF InTransaction
      <4>2. MyKey(d) \in Rows(d)
        BY <3>1, <4>1 DEF Rows
      <4>3. MyKey(d) \notin Rows(c)
        BY <2>1, <4>2 DEF Apart
      <4>4. MyKey(d) \notin call[c].others
        BY <1>1, <4>1, <4>3 DEF Rows
      <4>5. call[c].req.kind # "register" => MyKey(d) # k
        BY <1>1, <4>1, <4>3 DEF Rows
      <4>6. call[c].req.kind = "register" => MyKey(d) # k
        BY <1>1, <1>2, <3>1, <4>1 DEF ReadsHold, KeyJudged, EnvelopeJudged, Admissible
      <4> QED
        BY <4>1, <4>4, <4>5, <4>6, KeysWritten
    <3> QED
      BY <1>1, <1>2, <2>1, <3>1
      DEF ReadsHold, EnvelopeJudged, Admissible, Continues, SameHop, Used, ledger
  <2> QED
    BY <2>2, <2>4, <2>5
<1>7. ReadsHold'
  <2>1. KeyJudged(c)' /\ EnvelopeJudged(c)'
    BY <1>3 DEF KeyJudged, EnvelopeJudged
  <2> QED
    BY <1>3, <1>6, <2>1 DEF ReadsHold
<1>8. OneActiveKey'
  <2> SUFFICES ASSUME NEW p \in KeyId, keys'[p].status = "ACTIVE",
                      NEW o \in KeyId, o # p, o[1] = p[1], keys'[o].status = "ACTIVE"
               PROVE  FALSE
    BY DEF OneActiveKey, OtherActive
  <2>1. keys[p].status = "ACTIVE" => keys[o].status # "ACTIVE"
    BY DEF ExchangeInv, OneActiveKey, OtherActive
  <2>2. p \notin call[c].others /\ o \notin call[c].others
    BY KeysWritten
  <2>3. CASE Activates(call[c].req)
    <3>1. \A q \in KeyId : q # k /\ q[1] = k[1] => q \in call[c].others \/ keys[q].status # "ACTIVE"
      <4>1. call[c].others = OtherActive(k)
        BY <2>3, KeysWritten DEF Suspended
      <4> QED
        BY <4>1 DEF OtherActive
    <3>2. \A q \in {p, o} : q = k \/ (keys'[q] = keys[q] /\ q[1] # k[1])
      BY <2>2, <3>1, KeysWritten
    <3> QED
      BY <2>1, <3>2
  <2>4. CASE ~Activates(call[c].req)
    <3>1. keys'[k].status # "ACTIVE"
      BY <1>2, <2>4, KeysWritten DEF Activates
    <3>2. keys'[p] = keys[p] /\ keys'[o] = keys[o]
      BY <2>2, <3>1, KeysWritten
    <3> QED
      BY <2>1, <3>2
  <2> QED
    BY <2>3, <2>4
<1>9. SequencesIncrease' /\ RoutesContinue'
  <2>1. blocks' = blocks /\ \A b \in blocks : KeyOf(b.content.env) \in KeyId
    BY <1>1, <1>2, Envelopes DEF ledger, TypeOK, RowOver, Contents
  <2>2. \A o \in KeyId : keys'[o].last = keys[o].last
    BY KeysWritten
  <2> QED
    BY <2>1, <2>2 DEF ExchangeInv, SequencesIncrease, RoutesContinue
<1>10. BlocksRecorded'
  <2>1. blocks' = blocks /\ hops' = hops
    BY <1>1 DEF ledger
  <2>2. ASSUME NEW b \in blocks
        PROVE  \E q \in records' : {o \in records' : o.content = b.seq} = {q}
    <3>1. PICK q \in records : {o \in records : o.content = b.seq} = {q}
      BY DEF ExchangeInv, BlocksRecorded
    <3>2. b.seq # 0
      BY <1>2 DEF TypeOK
    <3>3. {o \in records' : o.content = b.seq} = {o \in records : o.content = b.seq}
      BY <1>4, <3>2
    <3> QED
      BY <1>4, <3>1, <3>3
  <2> QED
    BY <2>1, <2>2 DEF ExchangeInv, BlocksRecorded, HopFor
<1> QED
  BY <1>3, <1>5, <1>7, <1>8, <1>9, <1>10 DEF ExchangeInv

(* What the commit of an envelope writes: a block behind the head, its hop,*)
(* its audit record and the key's last sequence number.                    *)
LEMMA EnvelopeWritten ==
    ASSUME ExchangeInv, NEW c \in Client, CommitAccept(c)
    PROVE  LET e == call[c].req.env
               b == NewBlock(c)
           IN  /\ e \in Submitted /\ KeyOf(e) \in KeyId
               /\ b \in RowOver(Contents) /\ b = After(head, b.content)
               /\ b.content.env = e /\ b.content.after = call[c].req.after
               /\ b.seq = head.seq + 1 /\ b \notin blocks
               /\ blocks' = blocks \cup {b} /\ head' = HeadAt(b)
               /\ head' \in HeadOver(Contents) /\ head'.seq = head.seq + 1
               /\ hops' = hops \cup {HopFor(b)} /\ HopFor(b) \in Hop
               /\ keys' = [keys EXCEPT ![KeyOf(e)].last = e.sequence]
               /\ AddRecord(c, b.seq) /\ b.seq \in Nat
               /\ Admissible(call[c].req) /\ SameHop(e) = {}
<1> DEFINE e == call[c].req.env
           b == NewBlock(c)
<1>1. call[c].stage = "audit" /\ call[c].req.kind = "accept" /\ InTransaction(c)
  BY DEF CommitAccept, At, InTransaction
<1>2. e \in Submitted /\ KeyOf(e) \in KeyId /\ call[c].req.after \in Nat
  BY <1>1, InFlight, Requests DEF ExchangeInv
<1>3. call[c].base = head /\ head \in HeadOver(Contents) /\ Admissible(call[c].req) /\ SameHop(e) = {}
  BY <1>1 DEF ExchangeInv, ReadsHold, EnvelopeJudged, TypeOK
<1>4. [env |-> e, after |-> call[c].req.after] \in Contents
  BY <1>2 DEF Contents
<1>5. /\ b \in RowOver(Contents) /\ HeadAt(b) \in HeadOver(Contents)
      /\ b.seq = head.seq + 1 /\ HeadAt(b).seq = head.seq + 1
      /\ b.content = [env |-> e, after |-> call[c].req.after] /\ b = After(head, b.content)
  BY <1>3, <1>4, Linking DEF NewBlock
<1>6. head.seq \in Nat /\ b.seq \in Nat
  BY <1>3, <1>5 DEF HeadOver, RowOver
<1>7. b \notin blocks
  BY <1>5, <1>6 DEF ExchangeInv, TypeOK
<1>8. /\ blocks' = blocks \cup {b} /\ head' = HeadAt(b) /\ AddRecord(c, b.seq)
      /\ keys' = [keys EXCEPT ![KeyOf(e)].last = e.sequence]
      /\ hops' = hops \cup {[message |-> e.message, hop |-> e.hop, destination |-> e.recipient, block |-> b.seq]}
  BY DEF CommitAccept, AddBlock, MoveLast, AddHop
<1>9. HopFor(b) = [message |-> e.message, hop |-> e.hop, destination |-> e.recipient, block |-> b.seq]
  BY <1>5 DEF HopFor
<1>10. HopFor(b) \in Hop
  BY <1>2, <1>6, <1>9, Envelopes DEF Hop
<1> HIDE DEF b, e
<1>11. b.content.env = e /\ b.content.after = call[c].req.after
  BY <1>5
<1> QED
  BY <1>2, <1>3, <1>5, <1>6, <1>7, <1>8, <1>9, <1>10, <1>11 DEF b, e

(* The commit of an envelope.  No other request is accepting one, and the  *)
(* status of no key changes.                                               *)
LEMMA CommitAcceptKeeps == ASSUME ExchangeInv, NEW c \in Client, CommitAccept(c) PROVE ExchangeInv'
<1> DEFINE e == call[c].req.env
           b == NewBlock(c)
<1>1. /\ call[c].stage = "audit" /\ call[c].req.kind = "accept" /\ InTransaction(c)
      /\ call' = [call EXCEPT ![c] = Idle] /\ answer' = [answer EXCEPT ![c] = "accepted"]
  BY DEF CommitAccept, At, InTransaction, Tell
<1>2. TypeOK /\ LocksHeld /\ ReadsHold
  BY DEF ExchangeInv
<1>3. LocksHeld' /\ call' \in [Client -> Call] /\ call'[c].stage = "idle"
           /\ \A d \in Client \ {c} : call'[d] = call[d]
  BY <1>1, CommitUnlocks
<1>4. /\ e \in Submitted /\ KeyOf(e) \in KeyId
      /\ b \in RowOver(Contents)
      /\ b.content.env = e /\ b.content.after = call[c].req.after
      /\ b.seq = head.seq + 1 /\ b \notin blocks /\ b.seq \in Nat
      /\ blocks' = blocks \cup {b}
      /\ head' \in HeadOver(Contents) /\ head'.seq = head.seq + 1
      /\ hops' = hops \cup {HopFor(b)} /\ HopFor(b) \in Hop
      /\ keys' = [keys EXCEPT ![KeyOf(e)].last = e.sequence]
      /\ AddRecord(c, b.seq)
      /\ Admissible(call[c].req) /\ SameHop(e) = {}
  BY EnvelopeWritten
<1> HIDE DEF b, e
<1>5. PICK r \in RowOver(Nat) : /\ r.content = b.seq /\ r.seq = auditHead.seq + 1
                                /\ records' = records \cup {r}
                                /\ auditHead' \in HeadOver(Nat) /\ auditHead'.seq = auditHead.seq + 1
  BY <1>1, <1>4, RecordAdded
<1>6. keys \in [KeyId -> [status : Status \cup {"NONE"}, last : -1..MaxSequence]]
      /\ head.seq \in Nat /\ auditHead.seq \in Nat /\ e.sequence \in 0..MaxSequence
  BY <1>2, <1>4, Envelopes DEF TypeOK, HeadOver
<1>7. /\ keys' \in [KeyId -> [status : Status \cup {"NONE"}, last : -1..MaxSequence]]
      /\ \A o \in KeyId : keys'[o].status = keys[o].status
      /\ \A o \in KeyId : keys'[o].last = IF o = KeyOf(e) THEN e.sequence ELSE keys[o].last
  BY <1>4, <1>6, ExchangeAssumption
<1>8. TypeOK'
  <2>1. answer' \in [Client -> Answer]
    BY <1>1, <1>2 DEF TypeOK, Answer
  <2>2. \A o \in records' : o \in RowOver(Nat) /\ o.content <= head'.seq /\ o.seq \in 1..auditHead'.seq
    BY <1>2, <1>4, <1>5, <1>6 DEF TypeOK, RowOver
  <2>3. \A o \in blocks' : o \in RowOver(Contents) /\ o.seq \in 1..head'.seq
    BY <1>2, <1>4, <1>6 DEF TypeOK
  <2> QED
    BY <1>2, <1>3, <1>4, <1>5, <1>7, <2>1, <2>2, <2>3 DEF TypeOK
<1>9. ASSUME NEW d \in Client \ {c}
      PROVE  KeyJudged(d)' /\ EnvelopeJudged(d)' /\ call[d].stage # "audit"
  <2>1. Apart(c, d) /\ call'[d] = call[d]
    BY <1>2, <1>3 DEF LocksHeld
  <2>2. call[d].stage # "audit"
    BY <1>1, <2>1 DEF Apart, HoldsAudit
  <2>3. InTransaction(d) => call[d].req.kind # "accept"
    BY <1>1, <1>2, OneAccepts
  <2>4. EnvelopeJudged(d)'
    BY <2>1, <2>3 DEF EnvelopeJudged, InTransaction
  <2>5. KeyJudged(d)'
    <3>1. ASSUME InTransaction(d)
          PROVE  MyKey(d)' = MyKey(d) /\ MyKey(d) \in KeyId
                 /\ Suspended(call[d].req)' = Suspended(call[d].req)
      BY <1>2, <1>7, <2>1, <3>1, InFlight DEF MyKey, Suspended, OtherActive
    <3> QED
      BY <1>2, <1>7, <2>1, <3>1 DEF ReadsHold, KeyJudged, MayBecome, InTransaction
  <2> QED
    BY <2>2, <2>4, <2>5
<1>10. ReadsHold'
  <2>1. KeyJudged(c)' /\ EnvelopeJudged(c)'
    BY <1>3 DEF KeyJudged, EnvelopeJudged
  <2> QED
    BY <1>3, <1>9, <2>1 DEF ReadsHold
<1>11. OneActiveKey'
  BY <1>7 DEF ExchangeInv, OneActiveKey, OtherActive
<1>12. SequencesIncrease'
  <2>1. keys[KeyOf(e)].last < e.sequence
    BY <1>4, <1>6, Envelopes DEF Admissible, e
  <2>2. ASSUME NEW o \in blocks
        PROVE  /\ o.content.env \in Submitted /\ KeyOf(o.content.env) \in KeyId /\ o.seq < b.seq
               /\ o.content.env.sequence \in 0..MaxSequence
               /\ o.content.env.sequence <= keys[KeyOf(o.content.env)].last
    BY <1>2, <1>4, <1>6, Envelopes DEF ExchangeInv, SequencesIncrease, TypeOK, RowOver, Contents
  <2>3. ASSUME NEW o \in blocks'
        PROVE  o.content.env.sequence <= keys'[KeyOf(o.content.env)].last
    BY <1>4, <1>6, <1>7, <2>1, <2>2
  <2>4. ASSUME NEW o \in blocks', NEW p \in blocks', KeyOf(p.content.env) = KeyOf(o.content.env), p.seq < o.seq
        PROVE  p.content.env.sequence < o.content.env.sequence
    <3>1. p \in blocks
      BY <1>2, <1>4, <1>6, <2>2, <2>4 DEF TypeOK
    <3>2. CASE o \in blocks
      BY <2>4, <3>1, <3>2 DEF ExchangeInv, SequencesIncrease
    <3>3. CASE o = b
      BY <1>4, <1>6, <2>1, <2>2, <2>4, <3>1, <3>3
    <3> QED
      BY <1>4, <3>2, <3>3
  <2> QED
    BY <2>3, <2>4 DEF SequencesIncrease
<1>13. RoutesContinue'
  <2>1. ASSUME e.hop > 0
        PROVE  \E p \in blocks : /\ p.seq = b.content.after /\ p.seq < b.seq
                                 /\ p.content.env.message = e.message
                                 /\ p.content.env.hop = e.hop - 1
                                 /\ p.content.env.recipient = e.sender
    <3>1. PICK h \in hops : /\ h.message = e.message /\ h.hop = e.hop - 1
                            /\ h.destination = e.sender /\ h.block = call[c].req.after
      BY <1>4, <2>1 DEF Admissible, Continues, e
    <3>2. PICK p \in blocks : h = HopFor(p)
      BY DEF ExchangeInv, BlocksRecorded
    <3> QED
      BY <1>2, <1>4, <1>6, <3>1, <3>2 DEF TypeOK, HopFor
  <2> QED
    BY <1>4, <2>1 DEF ExchangeInv, RoutesContinue
<1>14. BlocksRecorded'
  <2>1. \A o \in blocks : o.seq # b.seq /\ o.seq \in 1..head.seq /\ HopOf(o.content.env) # HopOf(e)
    BY <1>2, <1>4, <1>6 DEF TypeOK, SameHop
  <2>2. \A p, o \in blocks' : p.seq = o.seq \/ HopOf(p.content.env) = HopOf(o.content.env) => p = o
    BY <1>4, <2>1 DEF ExchangeInv, BlocksRecorded
  <2>3. hops' = {HopFor(o) : o \in blocks'}
    BY <1>4 DEF ExchangeInv, BlocksRecorded
  <2>4. ASSUME NEW o \in blocks'
        PROVE  \E q \in records' : {p \in records' : p.content = o.seq} = {q}
    <3>1. CASE o = b
      <4>1. \A p \in records : p.content # b.seq
        BY <1>2, <1>4, <1>6 DEF TypeOK, RowOver
      <4> QED
        BY <1>5, <3>1, <4>1
    <3>2. CASE o \in blocks
      <4>1. PICK q \in records : {p \in records : p.content = o.seq} = {q}
        BY <3>2 DEF ExchangeInv, BlocksRecorded
      <4>2. {p \in records' : p.content = o.seq} = {p \in records : p.content = o.seq}
        BY <1>5, <2>1, <3>2
      <4> QED
        BY <1>5, <4>1, <4>2
    <3> QED
      BY <1>4, <3>1, <3>2
  <2>5. \A o : HopFor(o)' = HopFor(o)
    BY DEF HopFor
  <2> QED
    BY <2>2, <2>3, <2>4 DEF BlocksRecorded, HopFor
<1> QED
  BY <1>3, <1>8, <1>10, <1>11, <1>12, <1>13, <1>14 DEF ExchangeInv

(* Every other step of a request is one of those above, or ends it without *)
(* a change.                                                               *)
LEMMA StepKeeps == ASSUME ExchangeInv, NEW c \in Client, Step(c) PROVE ExchangeInv'
<1>1. ASSUME NEW a \in Answer, Tell(c, a), UNCHANGED <<keys, ledger, audit>> PROVE ExchangeInv'
  BY <1>1, Ending DEF Tell, ExchangeInv, TypeOK
<1>2. RollBack(c) => ExchangeInv'
  BY <1>1 DEF RollBack, Refuse, Answer
<1>3. CASE Register(c)
  BY <1>2, <1>3, SuspendKeeps DEF Register
<1>4. CASE LockKey(c)
  BY <1>2, <1>4, RowLocked DEF LockKey, At
<1>5. CASE UpdateStatus(c)
  BY <1>5, SuspendKeeps DEF UpdateStatus
<1>6. CASE CommitKeys(c)
  BY <1>6, CommitKeysKeeps
<1>7. CASE Replay(c)
  BY <1>1, <1>7 DEF Replay, Answer
<1>8. CASE LockSender(c)
  BY <1>2, <1>8, RowLocked DEF LockSender, At
<1>9. CASE LockHead(c)
  BY <1>2, <1>9, HeadLocked DEF LockHead
<1>10. CASE LockAudit(c)
  BY <1>10, LockAuditKeeps
<1>11. CASE CommitAccept(c)
  BY <1>11, CommitAcceptKeeps
<1>12. CASE ReadRoute(c)
  BY <1>1, <1>12 DEF ReadRoute, Answer
<1>13. CASE ReadHealth(c)
  BY <1>1, <1>13 DEF ReadHealth, Answer
<1>14. CASE Verify(c)
  BY <1>1, <1>14 DEF Verify, Answer
<1> QED
  BY <1>3, <1>4, <1>5, <1>6, <1>7, <1>8, <1>9, <1>10, <1>11, <1>12, <1>13, <1>14 DEF Step

(* Nothing happens.                                                        *)
LEMMA StutterKeeps == ASSUME ExchangeInv, UNCHANGED vars PROVE ExchangeInv'
<1> USE DEF vars, ledger, audit
<1>1. TypeOK' /\ OneActiveKey' /\ SequencesIncrease' /\ RoutesContinue' /\ BlocksRecorded'
  BY DEF ExchangeInv, TypeOK, OneActiveKey, OtherActive, SequencesIncrease, RoutesContinue, BlocksRecorded
<1>2. \A c \in Client : /\ StageFits(c)' /\ KeyJudged(c)' /\ EnvelopeJudged(c)'
                        /\ (call[c].stage = "audit" => call[c].auditBase = auditHead)'
                        /\ Rows(c)' = Rows(c) /\ InTransaction(c)' = InTransaction(c)
                        /\ HoldsAudit(c)' = HoldsAudit(c)
  BY OthersKept
<1>3. ASSUME NEW a \in Client, NEW d \in Client \ {a} PROVE Apart(a, d)'
  <2>1. Apart(a, d)
    BY DEF ExchangeInv, LocksHeld
  <2> QED
    BY <1>2, <2>1 DEF Apart
<1> QED
  BY <1>1, <1>2, <1>3 DEF ExchangeInv, LocksHeld, ReadsHold

LEMMA ExchangeKept == ASSUME ExchangeInv, [Next]_vars PROVE ExchangeInv'
<1>1. ASSUME NEW c \in Client, Crash(c) PROVE ExchangeInv'
  BY <1>1, Ending DEF Crash, NothingElse, ExchangeInv, TypeOK
<1> QED
  BY <1>1, OpenKeeps, ReadFirstKeeps, StepKeeps, StutterKeeps DEF Next

(* The locks keep what a request has judged true until it commits, and the *)
(* keys, blocks, hops and audit records stay in order.                     *)
THEOREM ExchangeInvariant == Spec => []ExchangeInv
BY ExchangeInitially, ExchangeKept, PTL DEF Spec

-----------------------------------------------------------------------------
(* Who writes the tables: the two commits.                                 *)
LEMMA OnlyCommitsWrite ==
    ASSUME [Next]_vars
    PROVE  \/ \E c \in Client : CommitKeys(c) \/ CommitAccept(c)
           \/ UNCHANGED <<keys, ledger, audit>>
<1>1. ASSUME NEW c \in Client, Step(c), ~CommitKeys(c), ~CommitAccept(c)
      PROVE  UNCHANGED <<keys, ledger, audit>>
  BY <1>1 DEF Step, Register, Suspend, LockKey, UpdateStatus, Replay, LockSender, LockHead, LockAudit,
              ReadRoute, ReadHealth, Verify, NothingElse, RollBack
<1>2. ASSUME NEW c \in Client, Open(c) \/ ReadFirst(c) \/ Crash(c)
      PROVE  UNCHANGED <<keys, ledger, audit>>
  BY <1>2 DEF Open, ReadFirst, Crash, Begin, NothingElse
<1>3. CASE UNCHANGED vars
  BY <1>3 DEF vars, ledger, audit
<1> QED
  BY <1>1, <1>2, <1>3 DEF Next

(* At most one key of a node is active, in spite of concurrent rotations   *)
(* and reactivations.                                                      *)
THEOREM KeysExclude == Spec => []OneActiveKey
<1>1. ExchangeInv => OneActiveKey
  BY DEF ExchangeInv
<1> QED
  BY <1>1, ExchangeInvariant, PTL

(* The sequence numbers of a key grow along the ledger: the lock on the    *)
(* sender's row keeps its last number until the commit moves it.           *)
THEOREM SequencesGrow == Spec => []SequencesIncrease
<1>1. ExchangeInv => SequencesIncrease
  BY DEF ExchangeInv
<1> QED
  BY <1>1, ExchangeInvariant, PTL

(* Routes continue where the message went.                                 *)
THEOREM RoutesGoOn == Spec => []RoutesContinue
<1>1. ExchangeInv => RoutesContinue
  BY DEF ExchangeInv
<1> QED
  BY <1>1, ExchangeInvariant, PTL

(* A status request only writes what the key may become, a registration    *)
(* only writes a key that did not exist, suspended keys were active; and an*)
(* envelope's key is still active at the commit.                           *)
LEMMA RevokedStays ==
    ASSUME ExchangeInv, [Next]_vars
    PROVE  /\ \A k \in KeyId : keys[k].status = "REVOKED" => keys'[k].status = "REVOKED"
           /\ \A b \in blocks' \ blocks : keys[KeyOf(b.content.env)].status = "ACTIVE"
<1>1. ASSUME NEW c \in Client, CommitKeys(c)
      PROVE  /\ \A k \in KeyId : keys[k].status = "REVOKED" => keys'[k].status = "REVOKED"
             /\ blocks' = blocks
  <2>1. blocks' = blocks /\ call[c].stage = "audit" /\ call[c].req.kind # "accept" /\ InTransaction(c)
    BY <1>1 DEF CommitKeys, ledger, InTransaction
  <2>2. call[c].req.kind \in {"register", "status"}
    BY <2>1, InFlight DEF ExchangeInv
  <2>3. call[c].req.kind = "register" => keys[MyKey(c)].status = "NONE"
    BY <2>1 DEF ExchangeInv, ReadsHold, KeyJudged
  <2>4. call[c].req.kind = "status" => MayBecome(MyKey(c), call[c].req.to)
    BY <2>1 DEF ExchangeInv, ReadsHold, KeyJudged
  <2>5. ASSUME NEW k \in KeyId, keys[k].status = "REVOKED" PROVE keys'[k].status = "REVOKED"
    <3>1. k \notin call[c].others
      BY <1>1, <2>5, KeysWritten
    <3>2. CASE k # MyKey(c)
      BY <1>1, <2>5, <3>1, <3>2, KeysWritten
    <3>3. CASE k = MyKey(c)
      <4>1. call[c].req.kind = "status" /\ call[c].req.to = "REVOKED"
        BY <2>2, <2>3, <2>4, <2>5, <3>3 DEF MayBecome
      <4> QED
        BY <1>1, <3>3, <4>1, KeysWritten DEF Activates
    <3> QED
      BY <3>2, <3>3
  <2> QED
    BY <2>1, <2>5
<1>2. ASSUME NEW c \in Client, CommitAccept(c)
      PROVE  /\ \A k \in KeyId : keys'[k].status = keys[k].status
             /\ \A b \in blocks' \ blocks : keys[KeyOf(b.content.env)].status = "ACTIVE"
  <2>1. keys \in [KeyId -> [status : Status \cup {"NONE"}, last : -1..MaxSequence]]
    BY DEF ExchangeInv, TypeOK
  <2> DEFINE e == call[c].req.env
             b == NewBlock(c)
  <2>2. /\ keys' = [keys EXCEPT ![KeyOf(e)].last = e.sequence] /\ KeyOf(e) \in KeyId
        /\ blocks' = blocks \cup {b} /\ b.content.env = e /\ Admissible(call[c].req)
    BY <1>2, EnvelopeWritten
  <2>3. keys[KeyOf(e)].status = "ACTIVE"
    BY <2>2 DEF Admissible
  <2> HIDE DEF b, e
  <2> QED
    BY <2>1, <2>2, <2>3
<1>3. CASE UNCHANGED <<keys, ledger, audit>>
  BY <1>3 DEF ledger
<1> QED
  BY <1>1, <1>2, <1>3, OnlyCommitsWrite

(* A revoked key stays revoked, and blocks are committed under active keys.*)
THEOREM RevocationHolds == Spec => RevocationIsFinal
<1>1. ExchangeInv /\ [Next]_vars =>
         [/\ \A k \in KeyId : keys[k].status = "REVOKED" => keys'[k].status = "REVOKED"
          /\ \A b \in blocks' \ blocks : keys[KeyOf(b.content.env)].status = "ACTIVE"]_vars
  BY RevokedStays
<1> QED
  BY <1>1, ExchangeInvariant, PTL DEF Spec, RevocationIsFinal

(* Each commit extends the chains by one row behind their heads.           *)
LEMMA ChainsStep ==
    ASSUME ExchangeInv, [Next]_vars
    PROVE  [Ledger!ChainNext]_<<blocks, head>> /\ [Audit!ChainNext]_<<records, auditHead>>
<1>1. ASSUME NEW c \in Client, call[c].stage = "audit", NEW n \in Nat, AddRecord(c, n)
      PROVE  Audit!ChainNext
  <2>1. PICK r \in RowOver(Nat) : /\ r = After(auditHead, n) /\ r.seq = auditHead.seq + 1
                                  /\ auditHead' = HeadAt(r) /\ records' = records \cup {r}
    BY <1>1, RecordAdded
  <2>2. r \notin records
    BY <2>1 DEF ExchangeInv, TypeOK, HeadOver
  <2>3. Audit!Extend(r)
    BY <2>1 DEF Audit!Extend, Audit!HeadAt, Audit!Hash, HeadAt, Hash, After
  <2> QED
    BY <2>1, <2>2, <2>3 DEF Audit!ChainNext
<1>2. ASSUME NEW c \in Client, CommitKeys(c)
      PROVE  UNCHANGED <<blocks, head>> /\ Audit!ChainNext
  BY <1>1, <1>2 DEF CommitKeys, ledger
<1>3. ASSUME NEW c \in Client, CommitAccept(c)
      PROVE  Ledger!ChainNext /\ Audit!ChainNext
  <2> DEFINE b == NewBlock(c)
  <2>1. /\ b = After(head, b.content) /\ b.seq = head.seq + 1 /\ b \notin blocks
        /\ blocks' = blocks \cup {b} /\ head' = HeadAt(b) /\ AddRecord(c, b.seq) /\ b.seq \in Nat
    BY <1>3, EnvelopeWritten
  <2> HIDE DEF b
  <2>2. b.prev = head.hash
    BY <2>1 DEF After
  <2>3. Ledger!Extend(b)
    BY <2>1, <2>2 DEF Ledger!Extend, Ledger!HeadAt, Ledger!Hash, HeadAt, Hash
  <2>4. call[c].stage = "audit"
    BY <1>3 DEF CommitAccept, At
  <2> QED
    BY <1>1, <2>1, <2>3, <2>4 DEF Ledger!ChainNext
<1>4. CASE UNCHANGED <<keys, ledger, audit>>
  BY <1>4 DEF ledger, audit
<1> QED
  BY <1>2, <1>3, <1>4, OnlyCommitsWrite

(* The ledger and the audit chain are append-only hash chains.             *)
THEOREM ImplementsBothChains == Spec => ImplementsChains
<1>1. Init => Ledger!ChainInit /\ Audit!ChainInit
  BY DEF Init, Ledger!ChainInit, Audit!ChainInit, Ledger!Genesis, Audit!Genesis, Genesis
<1>2. ExchangeInv /\ [Next]_vars =>
         [Ledger!ChainNext]_<<blocks, head>> /\ [Audit!ChainNext]_<<records, auditHead>>
  BY ChainsStep
<1> QED
  BY <1>1, <1>2, ExchangeInvariant, PTL DEF Spec, ImplementsChains, Ledger!ChainSpec, Audit!ChainSpec

-----------------------------------------------------------------------------
(* What follows for the rows of an append-only hash chain.  Every row has a*)
(* number up to the head's and carries the hash of the row before it; no   *)
(* two rows share a number; the head is that of the last row.              *)
Within(rows, h) == \A r \in rows : r.seq \in 1..h.seq
NoFork(rows) == \A r, s \in rows : r.seq = s.seq => r = s
HeadIsLast(rows, h) ==
    /\ h.seq \in Nat
    /\ IF h.seq = 0 THEN rows = {} /\ h = Genesis ELSE \E r \in rows : h = HeadAt(r)

ChainInv(rows, h) == Within(rows, h) /\ NoFork(rows) /\ Linked(rows) /\ HeadIsLast(rows, h)

(* Extending a chain by one row keeps it a chain: the new row is the only  *)
(* one with its number, and the row it names as its predecessor is there.  *)
LEMMA ExtendKeepsChain ==
    ASSUME NEW rows, NEW h, ChainInv(rows, h), NEW n, n.seq = h.seq + 1, n.prev = h.hash
    PROVE  ChainInv(rows \cup {n}, HeadAt(n))
<1> DEFINE more == rows \cup {n}
<1>1. h.seq \in Nat /\ HeadAt(n).seq = h.seq + 1 /\ \A r \in rows : r.seq \in 1..h.seq
  BY DEF ChainInv, Within, HeadIsLast, HeadAt
<1>2. Within(more, HeadAt(n))
  BY <1>1 DEF Within
<1>3. NoFork(more)
  <2>1. \A r \in rows : r.seq # n.seq
    BY <1>1
  <2> QED
    BY <2>1 DEF ChainInv, NoFork
<1>4. Linked(more)
  <2> SUFFICES ASSUME NEW r \in more
               PROVE  IF r.seq = 1 THEN r.prev = <<>>
                      ELSE \E p \in more : p.seq = r.seq - 1 /\ Hash(p) = r.prev
    BY DEF Linked
  <2>1. CASE r \in rows
    BY <2>1 DEF ChainInv, Linked
  <2>2. CASE r = n /\ h.seq = 0
    BY <2>2 DEF ChainInv, HeadIsLast, Genesis
  <2>3. CASE r = n /\ h.seq # 0
    <3>1. PICK p \in rows : h = HeadAt(p)
      BY <2>3 DEF ChainInv, HeadIsLast
    <3>2. h.seq = p.seq /\ h.hash = Hash(p)
      BY <3>1 DEF HeadAt
    <3> QED
      BY <1>1, <2>3, <3>2
  <2> QED
    BY <2>1, <2>2, <2>3
<1>5. HeadIsLast(more, HeadAt(n))
  <2>1. HeadAt(n).seq \in Nat /\ HeadAt(n).seq # 0 /\ n \in more
    BY <1>1
  <2> QED
    BY <2>1 DEF HeadIsLast
<1> QED
  BY <1>2, <1>3, <1>4, <1>5 DEF ChainInv

(* Every reachable chain has no gap and no fork: each row is linked to the *)
(* one before it, down to the first, and the head is that of the last row. *)
(* This holds of any two variables that follow HashChain.                  *)
THEOREM ChainsAreLinked == Ledger!ChainSpec => []ChainInv(blocks, head)
<1>1. Ledger!ChainInit => ChainInv(blocks, head)
  BY DEF Ledger!ChainInit, Ledger!Genesis, ChainInv, Within, NoFork, Linked, HeadIsLast, Genesis
<1>2. ASSUME ChainInv(blocks, head), NEW n \in blocks' \ blocks, Ledger!Extend(n)
      PROVE  ChainInv(blocks, head)'
  <2>1. blocks' = blocks \cup {n} /\ head' = HeadAt(n) /\ n.seq = head.seq + 1 /\ n.prev = head.hash
    BY <1>2 DEF Ledger!Extend, Ledger!HeadAt, Ledger!Hash, HeadAt, Hash
  <2>2. ChainInv(blocks', head')
    BY <1>2, <2>1, ExtendKeepsChain
  <2> QED
    BY <2>2 DEF ChainInv, Within, NoFork, Linked, HeadIsLast, Genesis, HeadAt, Hash
<1>3. ASSUME ChainInv(blocks, head), UNCHANGED <<blocks, head>> PROVE ChainInv(blocks, head)'
  BY <1>3 DEF ChainInv, Within, NoFork, Linked, HeadIsLast, Genesis, HeadAt, Hash
<1>4. ChainInv(blocks, head) /\ [Ledger!ChainNext]_<<blocks, head>> => ChainInv(blocks, head)'
  BY <1>2, <1>3 DEF Ledger!ChainNext
<1> QED
  BY <1>1, <1>4, PTL DEF Ledger!ChainSpec

(* The same of the audit chain.                                            *)
LEMMA AuditIsLinked == Audit!ChainSpec => []ChainInv(records, auditHead)
<1>1. Audit!ChainInit => ChainInv(records, auditHead)
  BY DEF Audit!ChainInit, Audit!Genesis, ChainInv, Within, NoFork, Linked, HeadIsLast, Genesis
<1>2. ASSUME ChainInv(records, auditHead), NEW n \in records' \ records, Audit!Extend(n)
      PROVE  ChainInv(records, auditHead)'
  <2>1. records' = records \cup {n} /\ auditHead' = HeadAt(n) /\ n.seq = auditHead.seq + 1 /\ n.prev = auditHead.hash
    BY <1>2 DEF Audit!Extend, Audit!HeadAt, Audit!Hash, HeadAt, Hash
  <2>2. ChainInv(records', auditHead')
    BY <1>2, <2>1, ExtendKeepsChain
  <2> QED
    BY <2>2 DEF ChainInv, Within, NoFork, Linked, HeadIsLast, Genesis, HeadAt, Hash
<1>3. ASSUME ChainInv(records, auditHead), UNCHANGED <<records, auditHead>> PROVE ChainInv(records, auditHead)'
  BY <1>3 DEF ChainInv, Within, NoFork, Linked, HeadIsLast, Genesis, HeadAt, Hash
<1>4. ChainInv(records, auditHead) /\ [Audit!ChainNext]_<<records, auditHead>> => ChainInv(records, auditHead)'
  BY <1>2, <1>3 DEF Audit!ChainNext
<1> QED
  BY <1>1, <1>4, PTL DEF Audit!ChainSpec

(* The ledger and the audit chain of the exchange are linked without gap or*)
(* fork at every moment.                                                   *)
THEOREM BothChainsLinked == Spec => [](ChainInv(blocks, head) /\ ChainInv(records, auditHead))
BY ImplementsBothChains, ChainsAreLinked, AuditIsLinked, PTL DEF ImplementsChains

(* A block or an audit record that was added once is never changed or      *)
(* removed.                                                                *)
THEOREM RowsStay == Spec => [][blocks \subseteq blocks' /\ records \subseteq records']_vars
<1>1. ASSUME ExchangeInv, [Next]_vars
      PROVE  blocks \subseteq blocks' /\ records \subseteq records'
  BY <1>1, ChainsStep DEF Ledger!ChainNext, Ledger!Extend, Audit!ChainNext, Audit!Extend
<1>2. ExchangeInv /\ [Next]_vars => [blocks \subseteq blocks' /\ records \subseteq records']_vars
  BY <1>1
<1> QED
  BY <1>2, ExchangeInvariant, PTL DEF Spec

-----------------------------------------------------------------------------
(* A request in flight has not been answered.                              *)
Unanswered == \A c \in Client : call[c] = Idle \/ (call[c].stage # "idle" /\ answer[c] = "none")

LEMMA UnansweredKept == ASSUME TypeOK, Unanswered, [Next]_vars PROVE Unanswered'
<1> USE DEF TypeOK
<1>1. ASSUME NEW c \in Client, call' = [call EXCEPT ![c] = Idle],
             \E a : answer' = [answer EXCEPT ![c] = a]
      PROVE  Unanswered'
  BY <1>1 DEF Unanswered
<1>2. ASSUME NEW c \in Client, call[c] # Idle, NEW x, x.stage # "idle",
             call' = [call EXCEPT ![c] = x], answer' = answer
      PROVE  Unanswered'
  BY <1>2 DEF Unanswered
<1>3. ASSUME NEW c \in Client, Open(c) \/ ReadFirst(c) PROVE Unanswered'
  <2>1. \E x : x.stage # "idle" /\ Begin(c, x)
    BY <1>3 DEF Open, ReadFirst, Idle
  <2> QED
    BY <2>1 DEF Begin, Unanswered
<1>4. ASSUME NEW c \in Client, NEW a, Tell(c, a) PROVE Unanswered'
  BY <1>1, <1>4 DEF Tell
<1>5. ASSUME NEW c \in Client, Crash(c) PROVE Unanswered'
  BY <1>5 DEF Crash, NothingElse, Unanswered
<1>6. ASSUME NEW c \in Client, Step(c) PROVE Unanswered'
  <2>1. call[c] # Idle /\ call[c] \in Call
    BY <1>6 DEF Step, Register, LockKey, UpdateStatus, CommitKeys, Replay, LockSender, LockHead, LockAudit,
                CommitAccept, ReadRoute, ReadHealth, Verify, At, Idle
  <2>2. RollBack(c) => Unanswered'
    BY <1>4 DEF RollBack, Refuse
  <2>3. Suspend(c) => Unanswered'
    BY <1>2, <2>1 DEF Suspend, NothingElse, Call
  <2>4. GoTo(c, "row") /\ NothingElse => Unanswered'
    BY <1>2, <2>1 DEF GoTo, NothingElse, Call
  <2>5. LockAudit(c) => Unanswered'
    BY <1>2, <2>1 DEF LockAudit, NothingElse, Call
  <2>6. LockHead(c) => Unanswered'
    BY <1>2, <2>1, <2>2 DEF LockHead, NothingElse, Call
  <2>7. CommitKeys(c) \/ CommitAccept(c) \/ ReadRoute(c) \/ ReadHealth(c) \/ Verify(c) \/ Replay(c) => Unanswered'
    BY <1>4 DEF CommitKeys, CommitAccept, ReadRoute, ReadHealth, Verify, Replay
  <2>8. Register(c) \/ LockKey(c) \/ UpdateStatus(c) \/ LockSender(c) => Unanswered'
    BY <2>2, <2>3, <2>4 DEF Register, LockKey, UpdateStatus, LockSender
  <2> QED
    BY <1>6, <2>5, <2>6, <2>7, <2>8 DEF Step
<1>7. CASE UNCHANGED vars
  BY <1>7 DEF vars, Unanswered
<1> QED
  BY <1>3, <1>5, <1>6, <1>7 DEF Next

LEMMA UnansweredHolds == Spec => []Unanswered
<1>1. Init => Unanswered
  BY DEF Init, Unanswered
<1>2. ExchangeInv /\ Unanswered /\ [Next]_vars => Unanswered'
  BY UnansweredKept DEF ExchangeInv
<1> QED
  BY <1>1, <1>2, ExchangeInvariant, PTL DEF Spec

(* Only a commit or the replay of a block answers "accepted".              *)
LEMMA WhoAccepts ==
    ASSUME ExchangeInv, Unanswered, [Next]_vars,
           NEW c \in Client, call[c] # Idle, answer'[c] = "accepted"
    PROVE  \/ CommitAccept(c)
           \/ /\ UNCHANGED ledger
              /\ \E b \in SameHop(call[c].req.env) : RetryOf(call[c].req, b)
<1> USE DEF ExchangeInv, TypeOK
<1>1. answer[c] = "none"
  BY DEF Unanswered
<1>2. ASSUME NEW d \in Client, NEW a, Tell(d, a) PROVE d = c /\ a = "accepted"
  BY <1>1, <1>2 DEF Tell
<1>3. answer' # answer
  BY <1>1
<1>4. ASSUME NEW d \in Client, Open(d) \/ ReadFirst(d) PROVE FALSE
  BY <1>1, <1>4 DEF Open, ReadFirst, Begin
<1>5. ASSUME NEW d \in Client, Step(d) PROVE d = c /\ (CommitAccept(c) \/ Replay(c))
  <2>1. ~RollBack(d) /\ ~CommitKeys(d) /\ ~ReadRoute(d) /\ ~ReadHealth(d) /\ ~Verify(d)
    BY <1>2 DEF RollBack, Refuse, CommitKeys, ReadRoute, ReadHealth, Verify
  <2>2. ~Register(d) /\ ~LockKey(d) /\ ~UpdateStatus(d) /\ ~LockSender(d) /\ ~LockHead(d) /\ ~LockAudit(d)
    BY <1>3, <2>1 DEF Register, LockKey, UpdateStatus, LockSender, LockHead, LockAudit, Suspend, NothingElse
  <2>3. CommitAccept(d) \/ Replay(d)
    BY <1>5, <2>1, <2>2 DEF Step
  <2> QED
    BY <1>2, <2>3 DEF CommitAccept, Replay
<1>6. \A d \in Client : ~Crash(d)
  BY <1>3 DEF Crash, NothingElse
<1>7. CommitAccept(c) \/ Replay(c)
  BY <1>3, <1>4, <1>5, <1>6 DEF Next, vars
<1>8. ASSUME Replay(c)
      PROVE  UNCHANGED ledger /\ \E b \in SameHop(call[c].req.env) : RetryOf(call[c].req, b)
  <2>1. PICK b \in SameHop(call[c].req.env) :
           Tell(c, IF RetryOf(call[c].req, b) THEN "accepted" ELSE "refused")
    BY <1>8 DEF Replay
  <2>2. RetryOf(call[c].req, b)
    BY <1>2, <2>1
  <2> QED
    BY <1>8, <2>2 DEF Replay
<1> QED
  BY <1>7, <1>8

(* Every block of the ledger is alone with its hop, has one route hop and  *)
(* one audit record.                                                       *)
LEMMA BlockFound ==
    ASSUME BlocksRecorded', NEW b \in blocks'
    PROVE  /\ {o \in blocks' : HopOf(o.content.env) = HopOf(b.content.env)} = {b}
           /\ Cardinality({h \in hops' : h.block = b.seq}) = 1
           /\ Cardinality({r \in records' : r.content = b.seq}) = 1
<1>1. /\ \A o, p \in blocks' : o.seq = p.seq \/ HopOf(o.content.env) = HopOf(p.content.env) => o = p
      /\ hops' = {HopFor(o) : o \in blocks'}
      /\ \E r \in records' : {o \in records' : o.content = b.seq} = {r}
  BY DEF BlocksRecorded, HopFor
<1>2. \A o : HopFor(o).block = o.seq
  BY DEF HopFor
<1>3. {h \in hops' : h.block = b.seq} = {HopFor(b)}
  BY <1>1, <1>2
<1> QED
  BY <1>1, <1>3, FS_Singleton

(* A client is told that its envelope was accepted only when the ledger has*)
(* exactly one block of it, with one hop and one audit record.             *)
THEOREM AcceptanceRecorded == Spec => AcceptedIsRecorded
<1> DEFINE Recorded(c) ==
       \E b \in blocks' :
          /\ {o \in blocks' : HopOf(o.content.env) = HopOf(call[c].req.env)} = {b}
          /\ Unsigned(call[c].req.env) = Unsigned(b.content.env) /\ call[c].req.after = b.content.after
          /\ Cardinality({h \in hops' : h.block = b.seq}) = 1
          /\ Cardinality({r \in records' : r.content = b.seq}) = 1
<1>1. ASSUME ExchangeInv, Unanswered, [Next]_vars,
             NEW c \in Client, call[c] # Idle, answer'[c] = "accepted"
      PROVE  Recorded(c)
  <2>1. BlocksRecorded'
    BY <1>1, ExchangeKept DEF ExchangeInv
  <2>2. \E b \in blocks' : /\ HopOf(b.content.env) = HopOf(call[c].req.env)
                           /\ Unsigned(call[c].req.env) = Unsigned(b.content.env)
                           /\ call[c].req.after = b.content.after
    <3>1. CASE CommitAccept(c)
      <4> DEFINE b == NewBlock(c)
      <4>1. blocks' = blocks \cup {b} /\ b.content.env = call[c].req.env /\ b.content.after = call[c].req.after
        BY <1>1, <3>1, EnvelopeWritten
      <4> HIDE DEF b
      <4> QED
        BY <4>1
    <3>2. ASSUME UNCHANGED ledger, NEW b \in SameHop(call[c].req.env), RetryOf(call[c].req, b)
          PROVE  /\ b \in blocks' /\ HopOf(b.content.env) = HopOf(call[c].req.env)
                 /\ Unsigned(call[c].req.env) = Unsigned(b.content.env)
                 /\ call[c].req.after = b.content.after
      BY <3>2 DEF SameHop, RetryOf, ledger
    <3> QED
      BY <1>1, <3>1, <3>2, WhoAccepts
  <2> QED
    BY <2>1, <2>2, BlockFound
<1>2. ExchangeInv /\ Unanswered /\ [Next]_vars =>
         [\A c \in Client : call[c] # Idle /\ answer'[c] = "accepted" => Recorded(c)]_vars
  BY <1>1
<1> QED
  BY <1>2, ExchangeInvariant, UnansweredHolds, PTL DEF Spec, AcceptedIsRecorded

-----------------------------------------------------------------------------
(* Induction over numbers: a set of them that is not empty has a least one.*)
LEMMA LeastNatural ==
    ASSUME NEW T, T \subseteq Nat, T # {}
    PROVE  \E n \in T : \A m \in T : n <= m
<1> DEFINE R == {ss \in Nat \X Nat : ss[1] < ss[2]}
<1>1. IsWellFoundedOn(R, Nat)
  BY NatLessThanWellFounded DEF OpToRel
<1>2. PICK n \in T : \A m \in T : ~(<<m, n>> \in R)
  <2> HIDE DEF R
  <2> QED
    BY <1>1, WFMin
<1>3. \A m \in T : ~(m < n)
  BY <1>2
<1> QED
  BY <1>3

(* Readers.  A route has no gap: each of a block's earlier hops has its    *)
(* block, and that block comes before it in the ledger.  Otherwise take the*)
(* gap with the fewest hops: its block's predecessor has a smaller one.    *)
LEMMA RouteFromStart ==
    ASSUME TypeOK, RoutesContinue
    PROVE  \A b \in blocks : \A i \in 0..b.content.env.hop - 1 :
              \E o \in blocks : /\ o.content.env.message = b.content.env.message
                                /\ o.content.env.hop = i /\ o.seq < b.seq
<1> DEFINE Gap(b) == \E i \in 0..b.content.env.hop - 1 :
                        \A o \in blocks : ~(/\ o.content.env.message = b.content.env.message
                                            /\ o.content.env.hop = i /\ o.seq < b.seq)
           T == {n \in Nat : \E b \in blocks : b.content.env.hop = n /\ Gap(b)}
<1>1. \A b \in blocks : b.seq \in Nat /\ b.content.env.hop \in Nat
  BY Envelopes DEF TypeOK, RowOver, Contents
<1> SUFFICES ASSUME NEW b0 \in blocks, Gap(b0) PROVE FALSE
  OBVIOUS
<1>2. T \subseteq Nat /\ b0.content.env.hop \in T
  BY <1>1
<1>3. PICK n \in T : \A m \in T : n <= m
  <2> HIDE DEF T
  <2> QED
    BY <1>2, LeastNatural
<1>5. PICK b \in blocks : b.content.env.hop = n /\ Gap(b)
  OBVIOUS
<1>6. PICK i \in 0..n - 1 : \A o \in blocks : ~(/\ o.content.env.message = b.content.env.message
                                                /\ o.content.env.hop = i /\ o.seq < b.seq)
  BY <1>5
<1>7. PICK p \in blocks : /\ p.seq < b.seq /\ p.content.env.message = b.content.env.message
                         /\ p.content.env.hop = n - 1
  BY <1>1, <1>2, <1>5, <1>6 DEF RoutesContinue
<1>8. i \in 0..(n - 1) - 1
  <2>1. i # n - 1 /\ n \in Nat /\ i \in 0..n - 1
    BY <1>2, <1>6, <1>7
  <2> HIDE DEF T, Gap
  <2> QED
    BY <2>1
<1>9. Gap(p)
  <2>1. ASSUME NEW o \in blocks, o.content.env.message = p.content.env.message,
               o.content.env.hop = i, o.seq < p.seq
        PROVE  FALSE
    <3>1. o.seq < b.seq
      BY <1>1, <1>7, <2>1
    <3> QED
      BY <1>6, <1>7, <2>1, <3>1
  <2> QED
    BY <1>7, <1>8, <2>1
<1>10. n - 1 \in T
  BY <1>1, <1>7, <1>9
<1> QED
  BY <1>1, <1>3, <1>5, <1>10

(* A set that a function numbers from 0 to n - 1, once each, has n members.*)
LEMMA Numbered ==
    ASSUME NEW S, NEW n \in Nat, NEW f \in [S -> 0..n - 1],
           \A x, y \in S : f[x] = f[y] => x = y,
           \A i \in 0..n - 1 : \E x \in S : f[x] = i
    PROVE  Cardinality(S) = n
<1>1. IsFiniteSet(0..n - 1) /\ Cardinality(0..n - 1) = n
  BY FS_Interval
<1>2. f \in Injection(S, 0..n - 1) /\ f \in Surjection(S, 0..n - 1)
  BY DEF Injection, IsInjective, Surjection
<1> QED
  BY <1>1, <1>2, FS_Injection

(* So a block's place among the blocks of its message, as a reader who goes*)
(* up to any later block counts it, is its hop; the same among the hops.   *)
LEMMA PlaceOfBlock ==
    ASSUME TypeOK, RoutesContinue, BlocksRecorded, NEW b \in blocks, NEW limit \in Nat, b.seq <= limit
    PROVE  Cardinality({o \in {q \in BlocksOf(b.content.env.message) : q.seq <= limit} :
                           o.content.env.hop < b.content.env.hop}) = b.content.env.hop
<1> DEFINE n == b.content.env.hop
           S == {o \in {q \in BlocksOf(b.content.env.message) : q.seq <= limit} : o.content.env.hop < n}
           f == [o \in S |-> o.content.env.hop]
<1>1. \A o \in blocks : o.seq \in Nat /\ o.content.env.hop \in Nat
  BY Envelopes DEF TypeOK, RowOver, Contents
<1>2. f \in [S -> 0..n - 1]
  BY <1>1 DEF BlocksOf
<1>3. \A x, y \in S : f[x] = f[y] => x = y
  BY DEF BlocksRecorded, BlocksOf, HopOf
<1>4. ASSUME NEW i \in 0..n - 1 PROVE \E x \in S : f[x] = i
  <2>1. PICK o \in blocks : /\ o.content.env.message = b.content.env.message
                            /\ o.content.env.hop = i /\ o.seq < b.seq
    BY RouteFromStart
  <2>2. o \in S
    BY <1>1, <2>1 DEF BlocksOf
  <2> QED
    BY <2>1, <2>2
<1>5. n \in Nat
  BY <1>1
<1> HIDE DEF f, n, S
<1>6. Cardinality(S) = n
  BY <1>2, <1>3, <1>4, <1>5, Numbered
<1> QED
  BY <1>6 DEF S, n

LEMMA PlaceOfHop ==
    ASSUME TypeOK, RoutesContinue, BlocksRecorded, NEW b \in blocks
    PROVE  Cardinality({h \in HopsOf(b.content.env.message) : h.hop < b.content.env.hop})
              = b.content.env.hop
<1> DEFINE n == b.content.env.hop
           S == {h \in HopsOf(b.content.env.message) : h.hop < n}
           f == [h \in S |-> h.hop]
<1>1. \A o \in blocks : o.content.env.hop \in Nat
  BY Envelopes DEF TypeOK, RowOver, Contents
<1>2. \A h \in hops : \E o \in blocks :
         h = HopFor(o) /\ h.hop = o.content.env.hop /\ h.message = o.content.env.message
  BY DEF BlocksRecorded, HopFor
<1>3. f \in [S -> 0..n - 1]
  BY <1>1, <1>2 DEF HopsOf
<1>4. \A x, y \in S : f[x] = f[y] => x = y
  <2> SUFFICES ASSUME NEW x \in S, NEW y \in S, x.hop = y.hop PROVE x = y
    OBVIOUS
  <2>1. PICK o \in blocks : x = HopFor(o) /\ x.hop = o.content.env.hop /\ x.message = o.content.env.message
    BY <1>2 DEF HopsOf
  <2>2. PICK q \in blocks : y = HopFor(q) /\ y.hop = q.content.env.hop /\ y.message = q.content.env.message
    BY <1>2 DEF HopsOf
  <2>3. HopOf(o.content.env) = HopOf(q.content.env)
    BY <2>1, <2>2 DEF HopOf, HopsOf
  <2> QED
    BY <2>1, <2>2, <2>3 DEF BlocksRecorded
<1>5. ASSUME NEW i \in 0..n - 1 PROVE \E x \in S : f[x] = i
  <2>1. PICK o \in blocks : /\ o.content.env.message = b.content.env.message
                            /\ o.content.env.hop = i /\ o.seq < b.seq
    BY RouteFromStart
  <2>2. HopFor(o) \in hops
    BY DEF BlocksRecorded
  <2>3. HopFor(o).hop = i /\ HopFor(o).message = b.content.env.message
    BY <2>1 DEF HopFor
  <2>4. HopFor(o) \in S
    BY <1>1, <2>2, <2>3 DEF HopsOf
  <2> QED
    BY <2>3, <2>4
<1>6. n \in Nat
  BY <1>1
<1> HIDE DEF f, n, S
<1>7. Cardinality(S) = n
  BY <1>3, <1>4, <1>5, <1>6, Numbered
<1> QED
  BY <1>7 DEF S, n

(* A route's first block names no predecessor.                             *)
RoutesStart == \A b \in blocks : b.content.env.hop = 0 => b.content.after = 0

LEMMA RoutesStartKept == ASSUME ExchangeInv, RoutesStart, [Next]_vars PROVE RoutesStart'
<1>1. ASSUME NEW c \in Client, CommitAccept(c) PROVE RoutesStart'
  <2> DEFINE b == NewBlock(c)
  <2>1. /\ blocks' = blocks \cup {b} /\ b.content.env = call[c].req.env
        /\ b.content.after = call[c].req.after /\ Admissible(call[c].req)
    BY <1>1, EnvelopeWritten
  <2> HIDE DEF b
  <2>2. b.content.env.hop = 0 => b.content.after = 0
    BY <2>1 DEF Admissible, Continues
  <2> QED
    BY <2>1, <2>2 DEF RoutesStart
<1>2. (\E c \in Client : CommitKeys(c)) \/ UNCHANGED <<keys, ledger, audit>> => RoutesStart'
  BY DEF CommitKeys, ledger, RoutesStart
<1> QED
  BY <1>1, <1>2, OnlyCommitsWrite

(* Whatever a reader of a route sees holds together.                       *)
LEMMA RoutesHold ==
    ASSUME ExchangeInv, RoutesStart, ChainInv(blocks, head), NEW c \in Client
    PROVE  RouteHolds(RouteRows(c))
<1> DEFINE rows == RouteRows(c)
           message == call[c].req.message
           limit == call[c].base.seq
<1> USE DEF ExchangeInv
<1>1. limit \in Nat
  <2>1. call[c] \in Call
    BY DEF TypeOK
  <2>2. call[c].base \in HeadOver(Contents)
    BY <2>1 DEF Call
  <2> QED
    BY <2>2 DEF HeadOver
<1> SUFFICES ASSUME NEW b \in rows.blocks
             PROVE  LET n == Cardinality({o \in rows.blocks : o.content.env.hop < b.content.env.hop})
                        Nth(i) == {h \in rows.hops : Cardinality({o \in rows.hops : o.hop < h.hop}) = i}
                    IN  /\ \E h \in Nth(n) : h.block = b.seq
                        /\ b.prev = <<>> \/ \E p \in blocks : p.seq = b.seq - 1 /\ Hash(p) = b.prev
                        /\ IF b.content.env.hop = 0 THEN b.content.after = 0
                           ELSE \E h \in Nth(n - 1) : h.block = b.content.after
  BY DEF RouteHolds
<1>2. /\ rows.blocks = {q \in BlocksOf(message) : q.seq <= limit} /\ rows.hops = HopsOf(message)
      /\ b \in blocks /\ b.content.env.message = message /\ b.seq <= limit
  BY DEF RouteRows, BlocksOf
<1> HIDE DEF rows, message, limit
<1>3. Cardinality({o \in rows.blocks : o.content.env.hop < b.content.env.hop}) = b.content.env.hop
  BY <1>1, <1>2, PlaceOfBlock
<1>4. ASSUME NEW o \in blocks, o.content.env.message = message
      PROVE  /\ HopFor(o) \in rows.hops /\ HopFor(o).block = o.seq
             /\ Cardinality({h \in rows.hops : h.hop < HopFor(o).hop}) = o.content.env.hop
  <2>1. HopFor(o) \in rows.hops /\ HopFor(o).block = o.seq /\ HopFor(o).hop = o.content.env.hop
    BY <1>2, <1>4 DEF BlocksRecorded, HopsOf, HopFor
  <2> QED
    BY <1>2, <1>4, <2>1, PlaceOfHop
<1>5. b.prev = <<>> \/ \E p \in blocks : p.seq = b.seq - 1 /\ Hash(p) = b.prev
  BY <1>2 DEF ChainInv, Linked
<1>6. ASSUME b.content.env.hop # 0
      PROVE  \E p \in blocks : /\ p.content.env.message = message /\ p.seq = b.content.after
                               /\ p.content.env.hop = b.content.env.hop - 1
  <2>1. b.content.env.hop > 0
    BY <1>2, <1>6, Envelopes DEF TypeOK, RowOver, Contents
  <2> QED
    BY <1>2, <2>1 DEF RoutesContinue
<1>7. b.content.env.hop = 0 => b.content.after = 0
  BY <1>2 DEF RoutesStart
<1> QED
  BY <1>2, <1>3, <1>4, <1>5, <1>6, <1>7

(* What is only appended links up to any number.                           *)
LEMMA PrefixLinked ==
    ASSUME ExchangeInv, ChainInv(records, auditHead), NEW limit \in Nat
    PROVE  Linked({r \in records : r.seq <= limit})
<1>1. \A r \in records : r.seq \in Nat
  BY DEF ExchangeInv, TypeOK
<1>2. Linked(records)
  BY DEF ChainInv
<1> QED
  BY <1>1, <1>2 DEF Linked

(* The end of a chain's rows is its head.                                  *)
LEMMA EndIsHead ==
    ASSUME NEW rows, NEW h, ChainInv(rows, h)
    PROVE  EndOf(rows) = h
<1>1. CASE h.seq = 0
  BY <1>1 DEF ChainInv, HeadIsLast, EndOf
<1>2. CASE h.seq # 0
  <2>1. PICK r \in rows : h = HeadAt(r)
    BY <1>2 DEF ChainInv, HeadIsLast
  <2>2. h.seq \in Nat /\ r.seq = h.seq /\ \A o \in rows : o.seq \in 1..h.seq
    BY <2>1 DEF ChainInv, Within, HeadIsLast, HeadAt
  <2>3. Latest(rows) \in rows /\ r.seq <= Latest(rows).seq
    BY <2>2 DEF Latest
  <2>4. Latest(rows) = r
    BY <2>2, <2>3 DEF ChainInv, NoFork
  <2> QED
    BY <2>1, <2>4 DEF EndOf
<1> QED
  BY <1>1, <1>2

(* The head that a reader of the audit chain remembers is that of the rows *)
(* it has read, and these stay the rows up to that number.                 *)
Remembered ==
    \A c \in Client : At(c, "verify", "read") =>
        /\ call[c].auditBase.seq <= auditHead.seq
        /\ call[c].auditBase = EndOf({r \in records : r.seq <= call[c].auditBase.seq})

LEMMA ReaderReads ==
    ASSUME TypeOK, [Next]_vars, NEW c \in Client, At(c, "verify", "read")'
    PROVE  call'[c] = call[c] \/ (call'[c].auditBase = auditHead /\ UNCHANGED audit)
<1> USE DEF TypeOK
<1>1. ASSUME NEW d \in Client, NEW x, x.stage # "read", call' = [call EXCEPT ![d] = x]
      PROVE  call'[c] = call[c]
  BY <1>1 DEF At
<1>2. ASSUME NEW d \in Client, NEW a, Tell(d, a) PROVE call'[c] = call[c]
  BY <1>1, <1>2 DEF Tell, Idle
<1>3. ASSUME NEW d \in Client, Open(d) PROVE call'[c] = call[c]
  <2>1. \E x : x.stage # "read" /\ Begin(d, x)
    BY <1>3 DEF Open, Idle
  <2> QED
    BY <1>1, <2>1 DEF Begin
<1>4. ASSUME NEW d \in Client, ReadFirst(d)
      PROVE  call'[c] = call[c] \/ (call'[c].auditBase = auditHead /\ UNCHANGED audit)
  <2>1. PICK r \in Request :
           IF r.kind = "verify"
           THEN Begin(d, [Idle EXCEPT !.stage = "read", !.req = r, !.auditBase = auditHead])
           ELSE Begin(d, [Idle EXCEPT !.stage = "read", !.req = r, !.base = head])
    BY <1>4 DEF ReadFirst
  <2>2. CASE r.kind = "verify"
    BY <2>1, <2>2 DEF Begin, Idle
  <2>3. CASE r.kind # "verify"
    <3>1. call' = [call EXCEPT ![d] = [Idle EXCEPT !.stage = "read", !.req = r, !.base = head]]
      BY <2>1, <2>3 DEF Begin
    <3> QED
      BY <2>3, <3>1 DEF At, Idle
  <2> QED
    BY <2>2, <2>3
<1>5. ASSUME NEW d \in Client, Step(d) PROVE call'[c] = call[c]
  <2>1. call[d] \in Call
    OBVIOUS
  <2>2. RollBack(d) => call'[c] = call[c]
    BY <1>2 DEF RollBack, Refuse
  <2>3. Suspend(d) => call'[c] = call[c]
    BY <1>1, <2>1 DEF Suspend, Call
  <2>4. GoTo(d, "row") => call'[c] = call[c]
    BY <1>1, <2>1 DEF GoTo, Call
  <2>5. LockAudit(d) => call'[c] = call[c]
    BY <1>1, <2>1 DEF LockAudit, Call
  <2>6. LockHead(d) => call'[c] = call[c]
    BY <1>1, <2>1, <2>2 DEF LockHead, Call
  <2>7. CommitKeys(d) \/ CommitAccept(d) \/ ReadRoute(d) \/ ReadHealth(d) \/ Verify(d) \/ Replay(d)
        => call'[c] = call[c]
    BY <1>2 DEF CommitKeys, CommitAccept, ReadRoute, ReadHealth, Verify, Replay
  <2>8. Register(d) \/ LockKey(d) \/ UpdateStatus(d) \/ LockSender(d) => call'[c] = call[c]
    BY <2>2, <2>3, <2>4 DEF Register, LockKey, UpdateStatus, LockSender
  <2> QED
    BY <1>5, <2>5, <2>6, <2>7, <2>8 DEF Step
<1>6. ASSUME NEW d \in Client, Crash(d) PROVE call'[c] = call[c]
  BY <1>1, <1>6 DEF Crash, Idle
<1>7. CASE UNCHANGED vars
  BY <1>7 DEF vars
<1> QED
  BY <1>3, <1>4, <1>5, <1>6, <1>7 DEF Next

LEMMA PrefixStays ==
    ASSUME NEW h \in Nat, NEW k \in Nat, k <= h, NEW rows, NEW n, n.seq = h + 1
    PROVE  {r \in rows \cup {n} : r.seq <= k} = {r \in rows : r.seq <= k}
OBVIOUS

LEMMA RememberedKept ==
    ASSUME ExchangeInv, ChainInv(records, auditHead), Remembered, [Next]_vars
    PROVE  Remembered'
<1> SUFFICES ASSUME NEW c \in Client, At(c, "verify", "read")'
             PROVE  /\ call'[c].auditBase.seq <= auditHead'.seq
                    /\ call'[c].auditBase = EndOf({r \in records' : r.seq <= call'[c].auditBase.seq})
  BY DEF Remembered
<1>1. auditHead.seq \in Nat /\ \A r \in records : r.seq \in 1..auditHead.seq
  BY DEF ChainInv, HeadIsLast, Within
<1>2. CASE call'[c].auditBase = auditHead /\ UNCHANGED audit
  <2>1. {r \in records : r.seq <= auditHead.seq} = records
    BY <1>1
  <2>2. EndOf({r \in records : r.seq <= auditHead.seq}) = auditHead
    BY <2>1, EndIsHead
  <2>3. auditHead.seq <= auditHead.seq
    BY <1>1
  <2>4. auditHead' = auditHead /\ records' = records
    BY <1>2 DEF audit
  <2> QED
    BY <1>2, <2>2, <2>3, <2>4
<1>3. CASE call'[c] = call[c]
  <2>1. call[c].auditBase.seq \in Nat
    BY DEF ExchangeInv, TypeOK, Call, HeadOver
  <2>2. call[c].auditBase.seq <= auditHead.seq
    BY <1>3 DEF Remembered, At
  <2>3. call[c].auditBase = EndOf({r \in records : r.seq <= call[c].auditBase.seq})
    BY <1>3 DEF Remembered, At
  <2>4. CASE UNCHANGED <<records, auditHead>>
    BY <1>3, <2>2, <2>3, <2>4
  <2>5. CASE Audit!ChainNext
    <3>1. PICK n \in records' \ records : n.seq = auditHead.seq + 1 /\ records' = records \cup {n}
                                          /\ auditHead' = Audit!HeadAt(n)
      BY <2>5 DEF Audit!ChainNext, Audit!Extend
    <3>2. auditHead'.seq = auditHead.seq + 1
      BY <3>1 DEF Audit!HeadAt
    <3>3. {r \in records' : r.seq <= call[c].auditBase.seq}
             = {r \in records : r.seq <= call[c].auditBase.seq}
      <4>1. auditHead.seq \in Nat /\ n.seq = auditHead.seq + 1 /\ records' = records \cup {n}
        BY <1>1, <3>1
      <4> QED
        BY <2>1, <2>2, <4>1, PrefixStays
    <3>4. call[c].auditBase.seq <= auditHead'.seq
      <4>1. auditHead.seq \in Nat
        BY <1>1
      <4> QED
        BY <2>1, <2>2, <3>2, <4>1
    <3> QED
      BY <1>3, <2>3, <3>3, <3>4
  <2> QED
    BY <2>4, <2>5, ChainsStep
<1> QED
  BY <1>2, <1>3, ReaderReads DEF ExchangeInv

(* A reader is answered by its own second statement.                       *)
LEMMA WhoReads ==
    ASSUME ExchangeInv, Unanswered, [Next]_vars,
           NEW c \in Client, call[c].stage = "read", answer'[c] # "none"
    PROVE  ReadRoute(c) \/ ReadHealth(c) \/ Verify(c)
<1> USE DEF ExchangeInv, TypeOK
<1>1. answer[c] = "none" /\ call[c] # Idle
  BY DEF Unanswered, Idle
<1>2. ASSUME NEW d \in Client, NEW a, Tell(d, a) PROVE d = c
  BY <1>1, <1>2 DEF Tell
<1>3. answer' # answer
  BY <1>1
<1>4. ASSUME NEW d \in Client, Open(d) \/ ReadFirst(d) PROVE FALSE
  BY <1>1, <1>4 DEF Open, ReadFirst, Begin
<1>5. ASSUME NEW d \in Client, Step(d) PROVE ReadRoute(c) \/ ReadHealth(c) \/ Verify(c)
  <2>1. d = c
    <3>1. CASE \E a : Tell(d, a)
      BY <1>2, <3>1
    <3>2. CASE UNCHANGED answer
      BY <1>3, <3>2
    <3>3. RollBack(d) => \E a : Tell(d, a)
      BY DEF RollBack, Refuse
    <3>4. Suspend(d) \/ NothingElse => UNCHANGED answer
      BY DEF Suspend, NothingElse
    <3>5. CommitKeys(d) \/ CommitAccept(d) \/ ReadRoute(d) \/ ReadHealth(d) \/ Verify(d) \/ Replay(d)
          => \E a : Tell(d, a)
      BY DEF CommitKeys, CommitAccept, ReadRoute, ReadHealth, Verify, Replay
    <3>6. Register(d) \/ LockKey(d) \/ UpdateStatus(d) \/ LockSender(d) \/ LockHead(d) \/ LockAudit(d)
          => (\E a : Tell(d, a)) \/ UNCHANGED answer
      BY <3>3, <3>4 DEF Register, LockKey, UpdateStatus, LockSender, LockHead, LockAudit
    <3> QED
      BY <1>5, <3>1, <3>2, <3>5, <3>6 DEF Step
  <2> QED
    BY <1>5, <2>1 DEF Step, Register, LockKey, UpdateStatus, CommitKeys, Replay, LockSender, LockHead,
                      LockAudit, CommitAccept, At
<1>6. \A d \in Client : ~Crash(d)
  BY <1>3 DEF Crash, NothingElse
<1> QED
  BY <1>3, <1>4, <1>5, <1>6 DEF Next, vars

(* So the answer depends on nothing but what was committed in between.     *)
LEMMA ReaderAnswered ==
    ASSUME ExchangeInv, RoutesStart, ChainInv(blocks, head), ChainInv(records, auditHead),
           Remembered, Unanswered, [Next]_vars,
           NEW c \in Client, call[c].stage = "read", answer'[c] # "none"
    PROVE  answer'[c] = "valid" <=> ~Overtaken(c)
<1>1. ASSUME NEW a, Tell(c, a) PROVE answer'[c] = a
  BY <1>1 DEF Tell, ExchangeInv, TypeOK
<1>2. CASE ReadRoute(c)
  <2>1. Tell(c, "valid") /\ call[c].req.kind = "route"
    BY <1>2, RoutesHold DEF ReadRoute, At
  <2> QED
    BY <1>1, <2>1 DEF Overtaken
<1>3. CASE ReadHealth(c)
  <2>1. Tell(c, IF head = call[c].base THEN "valid" ELSE "lagging") /\ call[c].req.kind = "health"
    BY <1>3, EndIsHead DEF ReadHealth, At
  <2> QED
    BY <1>1, <2>1 DEF Overtaken
<1>4. CASE Verify(c)
  <2> DEFINE rows == {r \in records : r.seq <= call[c].auditBase.seq}
  <2>1. call[c].auditBase.seq \in Nat
    BY DEF ExchangeInv, TypeOK, Call, HeadOver
  <2>2. Linked(rows)
    BY <2>1, PrefixLinked
  <2>3. EndOf(rows) = call[c].auditBase /\ call[c].req.kind = "verify"
    BY <1>4 DEF Verify, Remembered, At
  <2>4. Tell(c, IF Linked(rows) /\ EndOf(rows) = auditHead THEN "valid" ELSE "invalid")
    BY <1>4 DEF Verify
  <2> HIDE DEF rows
  <2>5. Tell(c, IF auditHead = call[c].auditBase THEN "valid" ELSE "invalid")
    BY <2>2, <2>3, <2>4
  <2> QED
    BY <1>1, <2>3, <2>5 DEF Overtaken
<1> QED
  BY <1>2, <1>3, <1>4, WhoReads

(* What a reader is told of its chain depends only on whether a commit came*)
(* between its two statements: then the complete check of the audit chain  *)
(* and the health check report a damage that is not there, otherwise they  *)
(* do not; the reader of a route is never told of one.                     *)
THEOREM ReadersMisledOnlyByCommits == Spec => ValidUnlessOvertaken
<1> DEFINE Readable == RoutesStart /\ Remembered
           Chained == ChainInv(blocks, head) /\ ChainInv(records, auditHead)
<1>1. Init => Readable
  BY DEF Init, RoutesStart, Remembered, At, Idle
<1>2. ExchangeInv /\ Chained /\ Readable /\ [Next]_vars => Readable'
  BY RoutesStartKept, RememberedKept
<1>3. ExchangeInv /\ Chained /\ Readable /\ Unanswered /\ [Next]_vars =>
         [\A c \in Client : call[c].stage = "read" /\ answer'[c] # "none" =>
             (answer'[c] = "valid" <=> ~Overtaken(c))]_vars
  BY ReaderAnswered
<1>4. Spec => []Chained
  BY BothChainsLinked
<1> HIDE DEF Readable, Chained
<1> QED
  BY <1>1, <1>2, <1>3, <1>4, ExchangeInvariant, UnansweredHolds, PTL DEF Spec, ValidUnlessOvertaken

-----------------------------------------------------------------------------
(* Waiting.  The locks are taken in an order: the row of a sender or of the*)
(* key of a request, the rows of the keys it suspends, the head of the     *)
(* ledger, the head of the audit chain.                                    *)
LEMMA LocksInOrder == ASSUME LocksHeld PROVE SomebodyFree
<1> SUFFICES ASSUME NEW e \in Client, call[e] # Idle, \A c \in Client : ~Free(c) PROVE FALSE
  BY DEF SomebodyFree
<1>1. ASSUME NEW c \in Client, call[c].stage \in {"audit", "head", "ready", "row", "open"} PROVE call[c] # Idle
  BY <1>1 DEF Idle
<1>2. ASSUME NEW c \in Client PROVE call[c].stage # "audit"
  BY <1>1, <1>2 DEF Free, WaitsFor, RowsNeeded, At
<1>3. ASSUME NEW c \in Client PROVE call[c].stage \notin {"head", "ready"}
  BY <1>1, <1>2, <1>3 DEF Free, WaitsFor, RowsNeeded, At, HoldsAudit
<1>4. ASSUME NEW c \in Client PROVE ~At(c, "accept", "row")
  BY <1>1, <1>2, <1>3, <1>4 DEF Free, WaitsFor, RowsNeeded, At, HoldsHead
<1>5. ASSUME NEW d \in Client, NEW k \in Rows(d)
      PROVE  At(d, "status", "row") /\ k = MyKey(d) /\ InTransaction(d)
  <2>1. InTransaction(d) /\ call[d].stage = "row"
    BY <1>2, <1>3, <1>5 DEF Rows, InTransaction
  <2>2. call[d].req.kind = "status"
    BY <1>4, <2>1 DEF LocksHeld, StageFits, Writes, At
  <2> QED
    BY <1>5, <2>1, <2>2 DEF Rows, At
<1>6. ASSUME NEW c \in Client PROVE ~At(c, "status", "row")
  <2> SUFFICES ASSUME At(c, "status", "row") PROVE FALSE
    OBVIOUS
  <2>1. PICK d \in Client : c # d /\ Rows(d) \cap Suspended(call[c].req) # {}
    BY <1>1 DEF Free, WaitsFor, RowsNeeded, At
  <2>2. PICK k \in Rows(d) : k \in Suspended(call[c].req)
    BY <2>1
  <2>3. At(d, "status", "row") /\ k = call[d].req.key /\ InTransaction(d)
    BY <1>5 DEF MyKey, KeyFor, At
  <2>4. k[1] = call[c].req.key[1]
    BY <2>2 DEF Suspended, OtherActive
  <2>5. LockOf(call[c].req) = LockOf(call[d].req)
    BY <2>3, <2>4 DEF LockOf, At
  <2> QED
    BY <2>1, <2>3, <2>5 DEF LocksHeld, Apart, InTransaction, At
<1>7. \A d \in Client : Rows(d) = {}
  BY <1>5, <1>6
<1> QED
  BY <1>2, <1>3, <1>4, <1>7 DEF Free, WaitsFor, At

(* Requests never all wait for one another: while some are in flight, one  *)
(* waits for no lock of another.  With the check that such a request can go*)
(* on, this is that nothing is left to the deadlock detector.              *)
THEOREM NobodyWaitsInACircle == Spec => []SomebodyFree
<1>1. ExchangeInv => SomebodyFree
  BY LocksInOrder DEF ExchangeInv
<1> QED
  BY <1>1, ExchangeInvariant, PTL
=============================================================================
