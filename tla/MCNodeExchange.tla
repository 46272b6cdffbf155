--------------------------- MODULE MCNodeExchange ---------------------------
(* Two nodes that may send to each other, one of them with a key to rotate *)
(* to.  The envelopes: a first hop, also with a bad signature; the hop back*)
(* from its destination; a hop by a node the message was not sent to; and  *)
(* a second message whose two versions have one nonce new and one used.    *)
EXTENDS NodeExchange

MCKeyId == {<<"a", 1>>, <<"a", 2>>, <<"b", 1>>}
MCPeers == [k \in MCKeyId |-> IF k[1] = "a" THEN {"b"} ELSE {"a"}]

First == [message |-> "m1", hop |-> 0, sender |-> "a", version |-> 1, recipient |-> "b",
          sequence |-> 0, nonce |-> "n1", signed |-> TRUE]
MCSubmitted ==
    {First,
     [First EXCEPT !.signed = FALSE],
     [First EXCEPT !.hop = 1, !.sender = "b", !.recipient = "a"],
     [First EXCEPT !.hop = 1, !.version = 2],
     [First EXCEPT !.message = "m2", !.sequence = 1],
     [First EXCEPT !.message = "m2", !.sequence = 1, !.nonce = "n2"]}
=============================================================================
