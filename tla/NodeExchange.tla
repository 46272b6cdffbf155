---------------------------- MODULE NodeExchange ----------------------------
(***************************************************************************)
(* The node exchange of one tenant: node keys that are registered, rotated *)
(* and revoked, signed envelopes that become blocks and route hops of a    *)
(* hash-linked ledger, and the tenant's audit chain, to which each of these*)
(* changes adds its record in the same transaction.                        *)
(*                                                                         *)
(* Requests run concurrently, each in a READ COMMITTED transaction: what it*)
(* writes is seen by others at its commit, and it waits where another one  *)
(* holds an advisory lock or a row.  A request that waits for its advisory *)
(* lock has read nothing, so it is the same as one not made yet.  Readers  *)
(* take several statements and no locks.  Other writers of the audit chain *)
(* behave as those modelled here: their record is the last thing they add. *)
(*                                                                         *)
(* A definition marked Mutant is a deliberately wrong variant of the one   *)
(* that follows it; no part of the specification uses it.                  *)
(***************************************************************************)
EXTENDS Integers, Sequences, FiniteSets

CONSTANTS
    Node,
    KeyId,      \* pairs of a node and a key version
    Peers,      \* Peers[k]: nodes the key may send to (never changed)
    Message,
    MaxHops,
    MaxSequence,
    Nonce,
    Submitted,  \* envelopes that clients send
    Client,     \* concurrent requests
    Scope,      \* the ledger's advisory lock
    MaxAudit    \* bound: records of the audit chain

(* What passes validateExchangeEnvelope.  signed tells whether the         *)
(* signature is that of the sender's key; the hash does not cover it.      *)
Envelope == [message : Message, hop : 0..MaxHops - 1, sender : Node, version : Nat,
             recipient : Node, sequence : 0..MaxSequence, nonce : Nonce, signed : BOOLEAN]
KeyOf(e) == <<e.sender, e.version>>

ASSUME ExchangeAssumption ==
    /\ KeyId \subseteq Node \X Nat
    /\ Peers \in [KeyId -> SUBSET Node]
    /\ MaxHops \in Nat \ {0} /\ MaxSequence \in Nat /\ MaxAudit \in Nat
    /\ Submitted \subseteq Envelope /\ \A e \in Submitted : KeyOf(e) \in KeyId
    /\ Scope \notin Node

VARIABLES
    keys,       \* node_exchange_nodes
    blocks,     \* node_exchange_blocks
    hops,       \* node_exchange_route_hops
    head,       \* node_exchange_heads
    records,    \* audit_records
    auditHead,  \* audit_chain_heads
    call,       \* the request of each client and how far it is
    answer      \* what a client was told last

ledger == <<blocks, hops, head>>
audit == <<records, auditHead>>
vars == <<keys, blocks, hops, head, records, auditHead, call, answer>>

Status == {"ACTIVE", "SUSPENDED", "REVOKED"}
Genesis == [seq |-> 0, hash |-> <<>>]
Hash(r) == Append(r.prev, r.content)
HeadAt(r) == [seq |-> r.seq, hash |-> Hash(r)]
After(h, content) == [seq |-> h.seq + 1, prev |-> h.hash, content |-> content]

(* A hop's hash is that of its block, and a block is named by its number:  *)
(* after is the hop an envelope gives as its predecessor, 0 for none.  A   *)
(* record names the block it is about, 0 when it is about a key.           *)
Hop == [message : Message, hop : Nat, destination : Node, block : Nat]
Unsigned(e) == [e EXCEPT !.signed = FALSE]

Request ==
    [kind : {"register"}, key : KeyId]
    \cup [kind : {"status"}, key : KeyId, to : Status]
    \cup [kind : {"accept"}, env : Submitted, after : 0..MaxAudit]
    \cup [kind : {"route"}, message : Message]
    \cup [kind : {"health", "verify"}]
Writes(r) == r.kind \in {"register", "status", "accept"}

(* A request in flight: how far it is, the other keys it suspends, and the *)
(* heads of the two chains as it has read them.                            *)
Stage == {"open", "row", "ready", "head", "audit", "read"}
NoRequest == [kind |-> "none"]
Idle == [stage |-> "idle", req |-> NoRequest, others |-> {}, base |-> Genesis,
         auditBase |-> Genesis]
Answer == {"none", "done", "accepted", "refused", "valid", "broken", "lagging", "invalid"}

Contents == [env : Submitted, after : Nat]
HeadOver(S) == [seq : Nat, hash : Seq(S)]
RowOver(S) == [seq : Nat, prev : Seq(S), content : S]
Call == [stage : Stage \cup {"idle"}, req : Request \cup {NoRequest}, others : SUBSET KeyId,
         base : HeadOver(Contents), auditBase : HeadOver(Nat)]

TypeOK ==
    /\ keys \in [KeyId -> [status : Status \cup {"NONE"}, last : -1..MaxSequence]]
    /\ head \in HeadOver(Contents) /\ auditHead \in HeadOver(Nat)
    /\ \A b \in blocks : b \in RowOver(Contents) /\ b.seq \in 1..head.seq
    /\ \A r \in records : r \in RowOver(Nat) /\ r.content <= head.seq /\ r.seq \in 1..auditHead.seq
    /\ hops \subseteq Hop
    /\ call \in [Client -> Call] /\ answer \in [Client -> Answer]

Init ==
    /\ keys = [k \in KeyId |-> [status |-> "NONE", last |-> -1]]
    /\ blocks = {} /\ hops = {} /\ head = Genesis
    /\ records = {} /\ auditHead = Genesis
    /\ call = [c \in Client |-> Idle]
    /\ answer = [c \in Client |-> "none"]

-----------------------------------------------------------------------------
(* Locks, as far as a request has come.                                    *)

At(c, kind, stage) == call[c].stage = stage /\ call[c].req.kind = kind
InTransaction(c) == call[c].stage \in {"open", "row", "ready", "head", "audit"}
KeyFor(r) == IF r.kind = "accept" THEN KeyOf(r.env) ELSE r.key
MyKey(c) == KeyFor(call[c].req)

LockOf(r) == IF r.kind = "accept" THEN Scope ELSE r.key[1]
(* Mutant: requests for keys of one node do not exclude each other.        *)
LockFreeForKeys(r) ==
    \A d \in Client : InTransaction(d) /\ r.kind = "accept" => LockOf(call[d].req) # LockOf(r)
LockFree(r) == \A d \in Client : InTransaction(d) => LockOf(call[d].req) # LockOf(r)

Activates(r) == r.kind = "register" \/ (r.kind = "status" /\ r.to = "ACTIVE")
OtherActive(k) == {o \in KeyId : o # k /\ o[1] = k[1] /\ keys[o].status = "ACTIVE"}
Suspended(r) == IF Activates(r) THEN OtherActive(r.key) ELSE {}

(* Rows of node_exchange_nodes that a request has locked.                  *)
Rows(c) ==
    {k \in KeyId :
        /\ InTransaction(c) /\ call[c].stage # "open"
        /\ \/ k = MyKey(c) /\ call[c].req.kind # "register"
           \/ call[c].req.kind # "accept" /\ call[c].stage # "row" /\ k \in call[c].others}
(* Mutant: the sender's key is read without FOR UPDATE.                    *)
RowsFreeForReaders(c, K) ==
    call[c].req.kind = "accept" \/ \A d \in Client \ {c} : Rows(d) \cap K = {}
RowsFree(c, K) == \A d \in Client \ {c} : Rows(d) \cap K = {}

(* Mutant: a status request writes its audit record first.                 *)
HoldsAuditEarly(c) == call[c].stage = "audit" \/ (InTransaction(c) /\ call[c].req.kind = "status")
HoldsAudit(c) == call[c].stage = "audit"

HoldsHead(c) == call[c].stage \in {"head", "audit"} /\ call[c].req.kind = "accept"

GoTo(c, stage) == call' = [call EXCEPT ![c].stage = stage]
Tell(c, a) ==
    /\ call' = [call EXCEPT ![c] = Idle]
    /\ answer' = [answer EXCEPT ![c] = a]
Refuse(c) == Tell(c, "refused")
RollBack(c) == Refuse(c) /\ UNCHANGED <<keys, ledger, audit>>
NothingElse == UNCHANGED <<keys, ledger, audit, answer>>

Begin(c, call1) ==
    /\ call[c] = Idle
    /\ call' = [call EXCEPT ![c] = call1]
    /\ answer' = [answer EXCEPT ![c] = "none"]
    /\ UNCHANGED <<keys, ledger, audit>>

(* A transaction has begun and has its advisory lock.  The guard on records*)
(* is the bound.                                                           *)
Open(c) ==
    \E r \in Request :
        /\ Writes(r) /\ (r.kind = "accept" => r.after <= head.seq) /\ LockFree(r)
        /\ Cardinality(records) + Cardinality({d \in Client : InTransaction(d)}) < MaxAudit
        /\ Begin(c, [Idle EXCEPT !.stage = "open", !.req = r])

-----------------------------------------------------------------------------
(* registerExchangeNode and updateExchangeNodeStatus.                      *)

(* The other active keys are suspended, seen by others at the commit.      *)
Suspend(c) ==
    /\ RowsFree(c, Suspended(call[c].req))
    /\ call' = [call EXCEPT ![c] = [@ EXCEPT !.stage = "ready", !.others = Suspended(call[c].req)]]
    /\ NothingElse

Register(c) ==
    /\ At(c, "register", "open")
    /\ \/ keys[MyKey(c)].status = "NONE" /\ Suspend(c)
       \/ keys[MyKey(c)].status # "NONE" /\ RowsFree(c, Suspended(call[c].req)) /\ RollBack(c)

MayBecome(k, to) ==
    keys[k].status # "NONE" /\ (keys[k].status = "REVOKED" => to = "REVOKED")

LockKey(c) ==
    /\ At(c, "status", "open") /\ RowsFree(c, {MyKey(c)})
    /\ IF MayBecome(MyKey(c), call[c].req.to) THEN GoTo(c, "row") /\ NothingElse ELSE RollBack(c)

UpdateStatus(c) == At(c, "status", "row") /\ Suspend(c)

(* appendAudit waits for the chain's head and reads it.                    *)
LockAudit(c) ==
    /\ call[c].stage = "ready" \/ At(c, "accept", "head")
    /\ \A d \in Client \ {c} : ~HoldsAudit(d)
    /\ call' = [call EXCEPT ![c] = [@ EXCEPT !.stage = "audit", !.auditBase = auditHead]]
    /\ NothingElse

AddRecord(c, content) ==
    LET r == After(call[c].auditBase, content)
    IN  records' = records \cup {r} /\ auditHead' = HeadAt(r)

CommitKeys(c) ==
    /\ call[c].stage = "audit" /\ call[c].req.kind # "accept"
    /\ LET k == MyKey(c)
           to == IF Activates(call[c].req) THEN "ACTIVE" ELSE call[c].req.to
       IN  keys' = [o \in KeyId |->
               IF o = k THEN [keys[o] EXCEPT !.status = to]
               ELSE IF o \in call[c].others THEN [keys[o] EXCEPT !.status = "SUSPENDED"]
               ELSE keys[o]]
    /\ AddRecord(c, 0)
    /\ Tell(c, "done")
    /\ UNCHANGED ledger

-----------------------------------------------------------------------------
(* appendExchangeEnvelope.                                                 *)

HopOf(e) == <<e.message, e.hop>>
SameHop(e) == {b \in blocks : HopOf(b.content.env) = HopOf(e)}

(* Mutant: any envelope for a block that exists is taken for a retry.      *)
RetryOfAny(r, b) == TRUE
(* Envelope hashes are equal; they do not cover the signature.             *)
RetryOf(r, b) == Unsigned(r.env) = Unsigned(b.content.env) /\ r.after = b.content.after

Replay(c) ==
    /\ At(c, "accept", "open")
    /\ \E b \in SameHop(call[c].req.env) :
           Tell(c, IF RetryOf(call[c].req, b) THEN "accepted" ELSE "refused")
    /\ UNCHANGED <<keys, ledger, audit>>

(* Mutant: a hop may follow one that went elsewhere.                       *)
ContinuesAnyRoute(e, after) ==
    IF e.hop = 0 THEN after = 0
    ELSE \E h \in hops : h.message = e.message /\ h.hop = e.hop - 1 /\ h.block = after
Continues(e, after) ==
    IF e.hop = 0 THEN after = 0
    ELSE \E h \in hops : /\ h.message = e.message /\ h.hop = e.hop - 1
                         /\ h.destination = e.sender /\ h.block = after

Admissible(r) ==
    LET k == KeyOf(r.env)
    IN  /\ keys[k].status = "ACTIVE"
        /\ r.env.sequence > keys[k].last
        /\ r.env.recipient \in Peers[k]
        /\ r.env.signed
        /\ Continues(r.env, r.after)

LockSender(c) ==
    /\ At(c, "accept", "open") /\ SameHop(call[c].req.env) = {} /\ RowsFree(c, {MyKey(c)})
    /\ IF Admissible(call[c].req) THEN GoTo(c, "row") /\ NothingElse ELSE RollBack(c)

(* The ledger's head is locked and read; then the block is inserted, which *)
(* a unique index refuses when the key has used the nonce or the sequence. *)
Used(e) == \E b \in blocks : /\ KeyOf(b.content.env) = KeyOf(e)
                             /\ b.content.env.nonce = e.nonce \/ b.content.env.sequence = e.sequence
LockHead(c) ==
    /\ At(c, "accept", "row") /\ \A d \in Client \ {c} : ~HoldsHead(d)
    /\ IF Used(call[c].req.env) THEN RollBack(c)
       ELSE /\ call' = [call EXCEPT ![c] = [@ EXCEPT !.stage = "head", !.base = head]]
            /\ NothingElse

NewBlock(c) == After(call[c].base, [env |-> call[c].req.env, after |-> call[c].req.after])

(* Mutant: the ledger's head keeps its hash.                               *)
AddBlockOnly(b) == blocks' = blocks \cup {b} /\ head' = [head EXCEPT !.seq = b.seq]
AddBlock(b) == blocks' = blocks \cup {b} /\ head' = HeadAt(b)

AddHop(e, b) ==
    hops' = hops \cup {[message |-> e.message, hop |-> e.hop, destination |-> e.recipient, block |-> b.seq]}

(* Mutant: the key's last sequence is not moved.                           *)
KeepLast(e) == keys' = keys
MoveLast(e) == keys' = [keys EXCEPT ![KeyOf(e)].last = e.sequence]

CommitAccept(c) ==
    /\ At(c, "accept", "audit")
    /\ LET b == NewBlock(c)
           e == call[c].req.env
       IN  AddBlock(b) /\ MoveLast(e) /\ AddHop(e, b) /\ AddRecord(c, b.seq)
    /\ Tell(c, "accepted")

(* The connection or the process is lost before the commit.                *)
Crash(c) ==
    /\ call[c] # Idle
    /\ call' = [call EXCEPT ![c] = Idle]
    /\ NothingElse

-----------------------------------------------------------------------------
(* Readers: the first statement at the request, the second one later.  What*)
(* is only appended is remembered by how far it had come.                  *)

BlocksOf(message) == {b \in blocks : b.content.env.message = message}
HopsOf(message) == {h \in hops : h.message = message}

ReadFirst(c) ==
    \E r \in Request :
        /\ ~Writes(r) /\ (r.kind = "route" => BlocksOf(r.message) # {})
        /\ IF r.kind = "verify"
           THEN Begin(c, [Idle EXCEPT !.stage = "read", !.req = r, !.auditBase = auditHead])
           ELSE Begin(c, [Idle EXCEPT !.stage = "read", !.req = r, !.base = head])

(* Mutant: the hops of a message are read before its blocks.               *)
RouteRowsHopsFirst(c) ==
    [blocks |-> BlocksOf(call[c].req.message),
     hops |-> {h \in HopsOf(call[c].req.message) : h.block <= call[c].base.seq}]
RouteRows(c) ==
    [blocks |-> {b \in BlocksOf(call[c].req.message) : b.seq <= call[c].base.seq},
     hops |-> HopsOf(call[c].req.message)]

(* The n-th block by hop is matched with the n-th hop, its predecessor in  *)
(* the ledger and the hop before it.                                       *)
RouteHolds(rows) ==
    \A b \in rows.blocks :
        LET n == Cardinality({o \in rows.blocks : o.content.env.hop < b.content.env.hop})
            Nth(i) == {h \in rows.hops : Cardinality({o \in rows.hops : o.hop < h.hop}) = i}
        IN  /\ \E h \in Nth(n) : h.block = b.seq
            /\ b.prev = <<>> \/ \E p \in blocks : p.seq = b.seq - 1 /\ Hash(p) = b.prev
            /\ IF b.content.env.hop = 0 THEN b.content.after = 0
               ELSE \E h \in Nth(n - 1) : h.block = b.content.after

ReadRoute(c) ==
    /\ At(c, "route", "read")
    /\ Tell(c, IF RouteHolds(RouteRows(c)) THEN "valid" ELSE "broken")
    /\ UNCHANGED <<keys, ledger, audit>>

Latest(rows) == CHOOSE r \in rows : \A o \in rows : o.seq <= r.seq
EndOf(rows) == IF rows = {} THEN Genesis ELSE HeadAt(Latest(rows))

(* getExchangeHealth reads the head, then the latest block.                *)
ReadHealth(c) ==
    /\ At(c, "health", "read")
    /\ Tell(c, IF EndOf(blocks) = call[c].base THEN "valid" ELSE "lagging")
    /\ UNCHANGED <<keys, ledger, audit>>

(* verifyAudit of the complete chain reads the records, then the head.  It *)
(* has one answer for whatever does not fit: a gap, a wrong predecessor or *)
(* hash, or a last record that is not the head's.                          *)
Linked(rows) ==
    \A r \in rows : IF r.seq = 1 THEN r.prev = <<>>
                    ELSE \E p \in rows : p.seq = r.seq - 1 /\ Hash(p) = r.prev
Verify(c) ==
    /\ At(c, "verify", "read")
    /\ LET rows == {r \in records : r.seq <= call[c].auditBase.seq}
       IN  Tell(c, IF Linked(rows) /\ EndOf(rows) = auditHead THEN "valid" ELSE "invalid")
    /\ UNCHANGED <<keys, ledger, audit>>

Step(c) ==
    \/ Register(c) \/ LockKey(c) \/ UpdateStatus(c) \/ CommitKeys(c)
    \/ Replay(c) \/ LockSender(c) \/ LockHead(c) \/ LockAudit(c) \/ CommitAccept(c)
    \/ ReadRoute(c) \/ ReadHealth(c) \/ Verify(c)

Next == \E c \in Client : Open(c) \/ ReadFirst(c) \/ Step(c) \/ Crash(c)

Spec == Init /\ [][Next]_vars

-----------------------------------------------------------------------------
(* At most one key of a node is active: what a unique index of the table   *)
(* demands, kept by the advisory lock of the node alone, so that rotation  *)
(* and reactivation never fail on the index.                               *)
OneActiveKey == \A k \in KeyId : keys[k].status = "ACTIVE" => OtherActive(k) = {}

(* A key's blocks carry growing sequence numbers in ledger order, and none *)
(* above the key's last one: an envelope held back is never accepted late. *)
SequencesIncrease ==
    \A b \in blocks :
        LET e == b.content.env
        IN  /\ e.sequence <= keys[KeyOf(e)].last
            /\ \A p \in blocks : KeyOf(p.content.env) = KeyOf(e) /\ p.seq < b.seq
                                 => p.content.env.sequence < e.sequence

(* Every block beyond a route's first follows an earlier block of the same *)
(* message, one hop before it, that went to the node which sent this one.  *)
RoutesContinue ==
    \A b \in blocks : b.content.env.hop > 0 =>
        \E p \in blocks : /\ p.seq = b.content.after /\ p.seq < b.seq
                          /\ p.content.env.message = b.content.env.message
                          /\ p.content.env.hop = b.content.env.hop - 1
                          /\ p.content.env.recipient = b.content.env.sender

(* Who holds what: a stage belongs to its kind of request; the advisory    *)
(* locks of two transactions differ, their row locks exclude each other,   *)
(* and one at a time is behind the audit head.                             *)
StageFits(c) ==
    /\ InTransaction(c) => call[c].req \in Request /\ Writes(call[c].req)
    /\ call[c].stage = "row" => call[c].req.kind # "register"
    /\ call[c].stage = "ready" => call[c].req.kind # "accept"
    /\ call[c].stage = "head" => call[c].req.kind = "accept"
Apart(c, d) ==
    /\ InTransaction(c) /\ InTransaction(d) => LockOf(call[c].req) # LockOf(call[d].req)
    /\ Rows(c) \cap Rows(d) = {}
    /\ ~(HoldsAudit(c) /\ HoldsAudit(d))
LocksHeld ==
    /\ \A c \in Client : StageFits(c)
    /\ \A c \in Client : \A d \in Client \ {c} : Apart(c, d)

(* What a transaction has read and judged is still so when it commits.     *)
KeyJudged(c) ==
    /\ call[c].req.kind = "register" /\ call[c].stage \in {"ready", "audit"} =>
          keys[MyKey(c)].status = "NONE"
    /\ call[c].req.kind = "status" /\ call[c].stage \in {"row", "ready", "audit"} =>
          MayBecome(MyKey(c), call[c].req.to)
    /\ call[c].req.kind # "accept" /\ call[c].stage \in {"ready", "audit"} =>
          call[c].others = Suspended(call[c].req)
EnvelopeJudged(c) ==
    call[c].req.kind = "accept" =>
       /\ call[c].stage \in {"row", "head", "audit"} =>
             Admissible(call[c].req) /\ SameHop(call[c].req.env) = {}
       /\ call[c].stage \in {"head", "audit"} => ~Used(call[c].req.env) /\ call[c].base = head
ReadsHold ==
    \A c \in Client : /\ KeyJudged(c) /\ EnvelopeJudged(c)
                      /\ call[c].stage = "audit" => call[c].auditBase = auditHead

(* A block is the only one of its hop and of its number, and has its own   *)
(* route hop and its own audit record; no route hop lacks its block.       *)
HopFor(b) == [message |-> b.content.env.message, hop |-> b.content.env.hop,
              destination |-> b.content.env.recipient, block |-> b.seq]
BlocksRecorded ==
    /\ \A b, o \in blocks : b.seq = o.seq \/ HopOf(b.content.env) = HopOf(o.content.env) => b = o
    /\ hops = {HopFor(b) : b \in blocks}
    /\ \A b \in blocks : \E r \in records : {o \in records : o.content = b.seq} = {r}

(* Why all of this holds together: the locks keep what was judged true     *)
(* until the commit, and each commit leaves keys and blocks in order.      *)
ExchangeInv ==
    /\ TypeOK /\ LocksHeld /\ ReadsHold
    /\ OneActiveKey /\ SequencesIncrease /\ RoutesContinue /\ BlocksRecorded

(* A client is told that its envelope was accepted, first or again, only   *)
(* when the ledger has exactly one block with that content, the block has  *)
(* its hop, and the audit chain exactly one record of it.                  *)
AcceptedIsRecorded ==
    [][\A c \in Client : call[c] # Idle /\ answer'[c] = "accepted" =>
         \E b \in blocks' :
            /\ {o \in blocks' : HopOf(o.content.env) = HopOf(call[c].req.env)} = {b}
            /\ Unsigned(call[c].req.env) = Unsigned(b.content.env) /\ call[c].req.after = b.content.after
            /\ Cardinality({h \in hops' : h.block = b.seq}) = 1
            /\ Cardinality({r \in records' : r.content = b.seq}) = 1]_vars

(* Something was committed to the chain between a reader's two statements, *)
(* and its answer is about both ends of the chain.                         *)
Overtaken(c) ==
    \/ call[c].req.kind = "verify" /\ auditHead # call[c].auditBase
    \/ call[c].req.kind = "health" /\ head # call[c].base

(* A reader is told that its chain is damaged exactly when it was overtaken*)
(* by a commit, and the reader of a route never.  So the check of the      *)
(* complete audit chain calls an intact chain invalid whenever a record was*)
(* committed between its reads, but no other state of requests in flight   *)
(* makes it do so.                                                         *)
ValidUnlessOvertaken ==
    [][\A c \in Client : call[c].stage = "read" /\ answer'[c] # "none" =>
         (answer'[c] = "valid" <=> ~Overtaken(c))]_vars

(* What the next statement of a request waits for: rows of keys, the head  *)
(* of the ledger, the head of the audit chain.                             *)
RowsNeeded(c) ==
    IF At(c, "register", "open") \/ At(c, "status", "row") THEN Suspended(call[c].req)
    ELSE IF At(c, "status", "open") THEN {MyKey(c)}
    ELSE IF At(c, "accept", "open") /\ SameHop(call[c].req.env) = {} THEN {MyKey(c)}
    ELSE {}
WaitsFor(c, d) ==
    /\ c # d
    /\ \/ Rows(d) \cap RowsNeeded(c) # {}
       \/ At(c, "accept", "row") /\ HoldsHead(d)
       \/ (call[c].stage = "ready" \/ At(c, "accept", "head")) /\ HoldsAudit(d)
Free(c) == call[c] # Idle /\ \A d \in Client : ~WaitsFor(c, d)

(* While requests are in flight, one of them waits for nobody; and who     *)
(* waits for nobody can go on.  The locks are taken in an order without a  *)
(* cycle.                                                                  *)
SomebodyFree == (\E c \in Client : call[c] # Idle) => \E c \in Client : Free(c)
SomebodyProceeds == SomebodyFree /\ \A c \in Client : Free(c) => ENABLED Step(c)

(* A revoked key stays revoked, and a block enters the ledger only while   *)
(* the key that signed it is active, although the key was checked several  *)
(* statements before.                                                      *)
RevocationIsFinal ==
    [][/\ \A k \in KeyId : keys[k].status = "REVOKED" => keys'[k].status = "REVOKED"
       /\ \A b \in blocks' \ blocks : keys[KeyOf(b.content.env)].status = "ACTIVE"]_vars

(* The ledger and the audit chain each are an append-only hash chain.      *)
Ledger == INSTANCE HashChain WITH rows <- blocks
Audit == INSTANCE HashChain WITH rows <- records, head <- auditHead
ImplementsChains == Ledger!ChainSpec /\ Audit!ChainSpec

(* What the plan of the audit chain asks of verification under concurrent  *)
(* load, and what being overtaken refutes: the complete chain, which       *)
(* nothing has damaged, verifies.                                          *)
IntactAuditVerifies == \A c \in Client : answer[c] # "invalid"
=============================================================================
