------------------------------ MODULE HashChain ------------------------------
(***************************************************************************)
(* What an append-only hash chain promises: rows are numbered from 1       *)
(* without a gap or a fork, each carries the hash of the one before, no row*)
(* ever changes, and the head names the last row.  The exchange ledger and *)
(* the audit chain of a tenant are both meant to be such a chain.          *)
(*                                                                         *)
(* A hash that is free of collisions stands for what was hashed, so it is  *)
(* written here as the sequence of contents from the first row on.         *)
(***************************************************************************)
EXTENDS Integers, Sequences

VARIABLES rows, head

Genesis == [seq |-> 0, hash |-> <<>>]
Hash(r) == Append(r.prev, r.content)
HeadAt(r) == [seq |-> r.seq, hash |-> Hash(r)]

ChainInit == rows = {} /\ head = Genesis

(* One row is added behind the head, and the head moves to it.             *)
Extend(r) ==
    /\ r.seq = head.seq + 1 /\ r.prev = head.hash
    /\ rows' = rows \cup {r}
    /\ head' = HeadAt(r)

ChainNext == \E r \in rows' \ rows : Extend(r)

ChainSpec == ChainInit /\ [][ChainNext]_<<rows, head>>
=============================================================================
