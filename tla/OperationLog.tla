---------------------------- MODULE OperationLog ----------------------------
(***************************************************************************)
(* What the store promises about operator calls: a retry or a recovery     *)
(* changes the status of an execution exactly when it claims its           *)
(* idempotency key, a claimed key is never claimed again, and between      *)
(* operator calls only the engine changes a status.                        *)
(***************************************************************************)
CONSTANTS Exec, Key, Client, NoClaim

VARIABLES status, claimed

Claim == [exec : Exec, op : {"retry", "recover"}, by : Client]
Target(op) == IF op = "retry" THEN "created" ELSE "recovered"

LogInit ==
    /\ status = [e \in Exec |-> "absent"]
    /\ claimed = [k \in Key |-> NoClaim]

(* A call takes effect and is recorded in one step.                        *)
Apply(k, r) ==
    /\ claimed[k] = NoClaim
    /\ r.op = "retry" => status[r.exec] = "dead_letter"
    /\ claimed' = [claimed EXCEPT ![k] = r]
    /\ status' = [status EXCEPT ![r.exec] = Target(r.op)]

(* The engine accepts an execution or brings it to an outcome.             *)
Engine(e) ==
    /\ \/ status[e] = "absent" /\ status' = [status EXCEPT ![e] = "created"]
       \/ /\ status[e] \in {"created", "recovered", "dead_letter"}
          /\ \E to \in {"created", "completed", "dead_letter"} : status' = [status EXCEPT ![e] = to]
    /\ UNCHANGED claimed

LogNext ==
    \/ \E k \in Key, r \in Claim : Apply(k, r)
    \/ \E e \in Exec : Engine(e)

LogSpec == LogInit /\ [][LogNext]_<<status, claimed>>
=============================================================================
