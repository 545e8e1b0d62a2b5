------------------------------ MODULE NodeTable ------------------------------
(***************************************************************************)
(* What the registry promises a reader of the nodes table about a status:  *)
(* a node is listed "offline" until its registration is complete, is never *)
(* removed or "offline" again, and is "stale" only after it was "online".  *)
(* Registry implements this module, and Dashboard reads it.                *)
(***************************************************************************)
CONSTANT Node

VARIABLE status

Edges == {<<"absent", "offline">>, <<"offline", "online">>,
          <<"online", "stale">>, <<"stale", "online">>}

Init == status = [n \in Node |-> "absent"]

\* One sweep may mark several nodes.
Change(N) ==
    /\ status' \in [Node -> {"absent", "offline", "online", "stale"}]
    /\ \A n \in Node : IF n \in N THEN <<status[n], status'[n]>> \in Edges
                                  ELSE status'[n] = status[n]

Next == \E N \in SUBSET Node : Change(N)

Spec == Init /\ [][Next]_status
=============================================================================
