------------------------- MODULE ExecutionLifecycle -------------------------
(***************************************************************************)
(* What META-CUBE promises about one execution, whoever runs it and        *)
(* however often: the life of its durable status.  saved[e] says that some *)
(* step of e has a checkpoint; it is never taken back.                     *)
(***************************************************************************)
CONSTANT Exec

VARIABLES status, saved

lifeVars == <<status, saved>>

Outcome == {"completed", "dead_letter", "failed"}

LifeInit ==
    /\ status = [e \in Exec |-> "absent"]
    /\ saved = [e \in Exec |-> FALSE]

Move(e, to) == status' = [status EXCEPT ![e] = to]

Accepting(e) ==
    /\ status[e] = "absent"
    /\ Move(e, "created")
    /\ UNCHANGED saved

(* Everything short of "completed" may be taken up, failures included.     *)
Workable(e) == status[e] \notin {"absent", "completed"}

Progressing(e) ==
    /\ Workable(e)
    /\ \/ /\ \E to \in {"running", "recovered"} : Move(e, to)
          /\ saved' = [saved EXCEPT ![e] = TRUE]
       \/ /\ Move(e, "retry_wait")
          /\ UNCHANGED saved

Settling(e) ==
    /\ Workable(e)
    /\ \E to \in Outcome : Move(e, to)
    /\ UNCHANGED saved

Retrying(e) ==
    /\ status[e] \in {"failed", "dead_letter"}
    /\ Move(e, "created")
    /\ UNCHANGED saved

Recovering(e) ==
    /\ saved[e]
    /\ Move(e, "recovered")
    /\ UNCHANGED saved

LifeNext ==
    \E e \in Exec :
        Accepting(e) \/ Progressing(e) \/ Settling(e) \/ Retrying(e) \/ Recovering(e)

LifeSpec == LifeInit /\ [][LifeNext]_lifeVars
=============================================================================
