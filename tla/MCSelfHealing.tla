---------------------------- MODULE MCSelfHealing ----------------------------
(* Two registrations, a restore, a preview and two isolated events.        *)
EXTENDS SelfHealing

MCKind == [r \in Request |->
             CASE r \in {1, 2} -> "register" [] r = 3 -> "apply" [] r = 4 -> "preview" [] OTHER -> "event"]
=============================================================================
