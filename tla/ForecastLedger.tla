---------------------------- MODULE ForecastLedger ----------------------------
(***************************************************************************)
(* What the memory of the CPU simulator promises, however many instances   *)
(* run it: forecasts are made one at a time, each gets exactly one         *)
(* outcome, from its own simulation or from the recovery of an interrupted *)
(* cycle, and none is made while another is open.                          *)
(***************************************************************************)
EXTENDS Integers

CONSTANT Forecast

VARIABLE record

Sources == {"simulation", "recovery"}

Init == record = [p \in Forecast |-> "none"]

NothingOpen == \A p \in Forecast : record[p] # "open"

Make(p) ==
    /\ record[p] = "none" /\ NothingOpen
    /\ record' = [record EXCEPT ![p] = "open"]

Resolve(p) ==
    /\ record[p] = "open"
    /\ \E s \in Sources : record' = [record EXCEPT ![p] = s]

Next == \E p \in Forecast : Make(p) \/ Resolve(p)

Spec == Init /\ [][Next]_record
=============================================================================
