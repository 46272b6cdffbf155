---------------------------- MODULE MCCyberRange ----------------------------
(* Two tenants with two loops each share two admissions; one of them may   *)
(* pause or reset its run and start another while the first run's children *)
(* and waiters are left.                                                   *)
EXTENDS CyberRange

MCMaxGen == [t \in Tenant |-> IF t = "a" THEN 3 ELSE 1]

(* For WorkerCap: no run is started twice.                                 *)
MCOneRun == [t \in Tenant |-> 1]
=============================================================================
