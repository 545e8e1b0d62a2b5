--------------------------- MODULE CommandService ---------------------------
(***************************************************************************)
(* What POST /api/mesh/run promises a client, with no connection, queue or *)
(* relay in sight: a request names a node, its command is executed there   *)
(* once or never, and it ends in one of three ways.  "done" says that the  *)
(* command was executed, "refused" that it was not and will not be, and    *)
(* "unknown" (a timeout, or the end of the hub's process) says nothing, so *)
(* that the command may even be executed afterwards.  Session implements   *)
(* this module.                                                            *)
(***************************************************************************)
EXTENDS Sequences

CONSTANTS
    Node,     \* the nodes a request may name
    Cmd,      \* the requests
    NoNode    \* the node of a request not made yet

VARIABLES
    request,  \* "new", "open", or how it ended
    target,   \* the node it names
    executed  \* where its command was executed, in order

vars == <<request, target, executed>>

Init ==
    /\ request = [c \in Cmd |-> "new"]
    /\ target = [c \in Cmd |-> NoNode]
    /\ executed = [c \in Cmd |-> <<>>]

\* The request is made; it is refused at once if the node is not connected.
Ask(c, n) ==
    /\ request[c] = "new"
    /\ \E st \in {"open", "refused"} : request' = [request EXCEPT ![c] = st]
    /\ target' = [target EXCEPT ![c] = n]
    /\ UNCHANGED executed

Execute(c) ==
    /\ request[c] \in {"open", "unknown"} /\ executed[c] = <<>>
    /\ executed' = [executed EXCEPT ![c] = <<target[c]>>]
    /\ UNCHANGED <<request, target>>

Answer(c) ==
    /\ request[c] = "open" /\ executed[c] # <<>>
    /\ request' = [request EXCEPT ![c] = "done"]
    /\ UNCHANGED <<target, executed>>

Refuse(c) ==
    /\ request[c] = "open" /\ executed[c] = <<>>
    /\ request' = [request EXCEPT ![c] = "refused"]
    /\ UNCHANGED <<target, executed>>

\* One request times out, or all that are open end with the hub's process.
GiveUp(C) ==
    /\ \A c \in C : request[c] = "open"
    /\ request' = [c \in Cmd |-> IF c \in C THEN "unknown" ELSE request[c]]
    /\ UNCHANGED <<target, executed>>

Next ==
    \/ \E c \in Cmd, n \in Node : Ask(c, n)
    \/ \E c \in Cmd : Execute(c) \/ Answer(c) \/ Refuse(c)
    \/ \E C \in SUBSET Cmd : GiveUp(C)

Spec == Init /\ [][Next]_vars
=============================================================================
