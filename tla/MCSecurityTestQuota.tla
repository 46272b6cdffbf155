------------------------- MODULE MCSecurityTestQuota -------------------------
(* Three requests of one user; one free test.                              *)
EXTENDS SecurityTestQuota

MCOwner == [r \in Request |-> "u"]
=============================================================================
