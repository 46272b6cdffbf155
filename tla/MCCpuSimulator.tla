--------------------------- MODULE MCCpuSimulator ---------------------------
(* Two instances in production, three forecasts, and faults enough to      *)
(* interrupt a cycle, the recovery of what it left open, and a boot.       *)
EXTENDS CpuSimulator
=============================================================================
