-------------------------- MODULE MCMetaCubeEngine --------------------------
(* A small instance of MetaCubeEngine.                                     *)
EXTENDS MetaCubeEngine

(* chain: 1 then 2, where 2 fails twice and the limit is 2.                *)
(* fork: 2 declared before 1, no dependencies; 1 always fails.             *)
(* bad: 1 is fine, 2 and 3 wait for each other.                            *)
(* raise: 1 raises.                                                        *)
MCPlan ==
    [chain |-> [order |-> <<1, 2>>, deps |-> <<{}, {1}, {}>>,
                kind |-> <<"ok", "ok", "ok">>, failures |-> <<0, 2, 0>>, max |-> 2],
     fork |-> [order |-> <<2, 1>>, deps |-> <<{}, {}, {}>>,
               kind |-> <<"fail", "ok", "ok">>, failures |-> <<0, 0, 0>>, max |-> 2],
     bad |-> [order |-> <<1, 2, 3>>, deps |-> <<{}, {3}, {2}>>,
              kind |-> <<"ok", "ok", "ok">>, failures |-> <<0, 0, 0>>, max |-> 1],
     raise |-> [order |-> <<1>>, deps |-> <<{}, {}, {}>>,
                kind |-> <<"unsupported", "ok", "ok">>, failures |-> <<0, 0, 0>>, max |-> 1]]
=============================================================================
