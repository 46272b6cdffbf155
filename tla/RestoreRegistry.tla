---------------------------- MODULE RestoreRegistry ----------------------------
(***************************************************************************)
(* What the self-healing registry promises about one managed resource,     *)
(* however many requests work on it: every operation takes effect as a     *)
(* whole, on the resource as the operation before it has left it, and the  *)
(* audit records are written in that same order.                           *)
(***************************************************************************)
EXTENDS Sequences

CONSTANTS
    Point,     \* restore points
    Location,
    NoOne      \* no point

VARIABLES
    resource,  \* location, state (the point it is equal to) and status
    stored,    \* the restore points there are
    log        \* operations in the order of their audit records

Absent == resource = [status |-> "NONE"]

Recorded(op, p) == log' = Append(log, [op |-> op, point |-> p])

(* A verified state is registered, and is a restore point from then on.    *)
Register(p, l) ==
    /\ p \notin stored
    /\ stored' = stored \cup {p}
    /\ resource' = [location |-> l, state |-> p, status |-> "VERIFIED"]
    /\ Recorded("register", p)

(* The resource gets back the state of a restore point.                    *)
Restore(p) ==
    /\ p \in stored /\ ~Absent
    /\ resource' = [resource EXCEPT !.state = p, !.status = "VERIFIED"]
    /\ Recorded("restore", p)
    /\ UNCHANGED stored

(* What cannot be verified is not restored.                                *)
Reject(p) ==
    /\ p \in stored /\ ~Absent
    /\ resource' = [resource EXCEPT !.status = "DEGRADED"]
    /\ Recorded("reject", p)
    /\ UNCHANGED stored

(* So is what no point was found for; it is not used.                      *)
Quarantine ==
    /\ ~Absent
    /\ resource' = [resource EXCEPT !.status = "QUARANTINED"]
    /\ Recorded("quarantine", NoOne)
    /\ UNCHANGED stored

(* A preview, or an event about a resource nobody has registered.          *)
Note ==
    /\ Recorded("unresolved", NoOne) \/ \E p \in stored : Recorded("preview", p)
    /\ UNCHANGED <<resource, stored>>

Init ==
    /\ Absent
    /\ stored = {} /\ log = <<>>

Next ==
    \/ \E p \in Point :
          \/ \E l \in Location : Register(p, l)
          \/ Restore(p) \/ Reject(p)
    \/ Quarantine \/ Note

Spec == Init /\ [][Next]_<<resource, stored, log>>
=============================================================================
