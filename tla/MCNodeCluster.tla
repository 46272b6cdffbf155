--------------------------- MODULE MCNodeCluster ---------------------------
(* Two tenants with two nodes each, of which the first has all capabilities*)
(* and the second room for two; four messages for at most two children.    *)
EXTENDS NodeCluster

MCCapabilities == [n \in {1, 2} |-> IF n = 1 THEN {"CPU", "NUMA"} ELSE {"CPU"}]
MCCapacity == [n \in {1, 2} |-> n]
MCHealth == [n \in {1, 2} |-> 96 - n]

Message(x, needs, weight) == [tenant |-> x, needs |-> needs, weight |-> weight]
Messages == <<Message("a", {"NUMA"}, 2), Message("a", {"CPU"}, 1), Message("a", {"NUMA"}, 0),
              Message("b", {"CPU"}, 1)>>
MCInfo == [t \in Task |-> Messages[t]]
=============================================================================
