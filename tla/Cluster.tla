------------------------------- MODULE Cluster -------------------------------
(***************************************************************************)
(* The agents, the command path and the registry together: the WebSocket   *)
(* handler that module Session leaves in "storing" is the one that module  *)
(* Registry follows statement by statement, and the clock of the registry  *)
(* is also that of the agents' heartbeat loops, which wait for an interval *)
(* between two heartbeats and for as long as a command runs.               *)
(*                                                                         *)
(* Session alone has no time, and Registry alone takes any sequence of     *)
(* heartbeats: only here does it show when a node is silent.  Messages     *)
(* take no time, nor does a handler that may go on; a statement may take   *)
(* long (MaxDelay).                                                        *)
(***************************************************************************)
EXTENDS Session

CONSTANTS
    Interval,      \* heartbeat_interval
    CommandMax,    \* the 30 s after which an agent kills a command
    StaleInterval,  \* stale_timeout
    MaxDelay, MaxAge, MaxLost, MaxOutage    \* as in Registry

\* The defaults are 10 s and 30 s; the code does not compare what it is given.
ASSUME ClusterAssumption ==
    /\ Interval \in Nat \ {0} /\ CommandMax \in Nat
    /\ MaxDelay \in Nat /\ StaleInterval \in Nat
    /\ Interval + 3 * MaxDelay <= StaleInterval
    /\ MaxLost \in Nat
    /\ MaxOutage \in Nat
    /\ MaxAge \in Nat /\ MaxAge > (2 + MaxLost) * (StaleInterval + MaxDelay) + MaxOutage

VARIABLES
    row, beats, op, known, sweeper, timer, stale_ids, lost, outage,  \* as in Registry
    clock,    \* the ticks since the agent went to sleep or started a command
    steady    \* history: the ticks in which nothing disturbed the agent's cycles

registryVars == <<row, beats, op, known, sweeper, timer, stale_ids, lost, outage>>
clockVars == <<clock, steady>>

R == INSTANCE Registry WITH
    Handler <- Node \X Conn, NodeOf <- [h \in Node \X Conn |-> h[1]],
    Faults <- TRUE

\* More than two cycles at their longest.  In the first, an UPDATE of the sweep may
\* be on its way, with the node among the ids that it selected before; and what
\* takes no time may have been done in any order at the last tick.
Settled == 2 * (Interval + 2 * MaxDelay) + 1

ClusterInit ==
    /\ Init /\ R!Init
    /\ clock = [n \in Node |-> 0]
    /\ steady = [n \in Node |-> 0]

-----------------------------------------------------------------------------
(* The agents *)

Wakes(n, t) == clock' = [clock EXCEPT ![n] = t]
Disturbs(n) == steady' = [steady EXCEPT ![n] = 0]

\* While the hub is down an attempt to connect fails.  The first heartbeat follows at
\* once.
Joins(n) == R!HubRuns /\ Connect(n) /\ Wakes(n, Interval) /\ Disturbs(n)

Beats(n) == clock[n] = Interval /\ SendHeartbeat(n) /\ UNCHANGED clockVars

Sleeps(n) == ReadOk(n) /\ Wakes(n, 0) /\ UNCHANGED steady

Works(n) == ReadCommand(n) /\ Wakes(n, 0) /\ Disturbs(n)

Replies(n) == Reply(n) /\ Wakes(n, 0) /\ Disturbs(n)

Leaves(n) == (Drop(n) \/ Stop(n) \/ Start(n)) /\ Wakes(n, 0) /\ Disturbs(n)

AgentStep(n) ==
    /\ Joins(n) \/ Beats(n) \/ Sleeps(n) \/ Works(n) \/ Replies(n) \/ Leaves(n)
    /\ UNCHANGED registryVars

-----------------------------------------------------------------------------
(* The hub *)

\* The first message of a connection registers the node.
Stores(n, i) ==
    /\ ReceiveHeartbeat(n, i)
    /\ IF first[n][i] THEN R!RegisterNode(<<n, i>>) ELSE R!ProcessHeartbeat(<<n, i>>)

Ends(n, i) ==
    /\ Disconnect(n, i)
    /\ IF <<n, i>> \in known THEN R!Disconnect(<<n, i>>) ELSE UNCHANGED registryVars

HandlerStep(n, i) ==
    /\ \/ Stores(n, i)
       \/ Stored(n, i) /\ R!InsertHeartbeat(<<n, i>>)
       \/ StoreFail(n, i) /\ R!StatementFails(<<n, i>>)
       \/ Ends(n, i)
       \/ (ReceiveResult(n, i) \/ RejectMismatch(n, i)) /\ UNCHANGED registryVars
    /\ UNCHANGED clockVars

\* The statements before the last, and the sweep.
StatementStep ==
    /\ \/ \E h \in Node \X Conn : R!UpsertNode(h) \/ R!SetOnline(h) \/ R!UpdateNode(h)
       \/ R!StartSweep \/ R!MarkStale \/ R!SweepFails
    /\ UNCHANGED <<vars, clockVars>>

\* There is nobody to ask while the hub is down; the calls ended with its process.
CallStep ==
    /\ R!HubRuns
    /\ \E c \in Cmd : CallNext(c)
    /\ UNCHANGED <<registryVars, clockVars>>

\* The process of the hub ends, and is started again some time later.
HubEndStep == Restart /\ R!HubEnds /\ UNCHANGED clockVars
HubStartStep == R!HubStarts /\ UNCHANGED <<vars, clockVars>>

-----------------------------------------------------------------------------
(* Time *)

Undisturbed(n) == ws[n] # NoConn /\ Open(n, ws[n]) /\ pc[n] \in {"idle", "reading"}

Asleep(n) == pc[n] = "idle" /\ ws[n] # NoConn

\* Nothing that takes no time is left to do.
Waits(n) ==
    /\ Asleep(n) => clock[n] < Interval
    /\ pc[n] = "running" => clock[n] < CommandMax
    /\ pc[n] = "reading" => down[n][ws[n]] = <<>>
    /\ \A i \in Conn : handler[n][i] = "receive" => up[n][i] = <<>>

Tick ==
    /\ \A n \in Node : Waits(n)
    /\ R!Tick
    /\ clock' = [n \in Node |-> IF Asleep(n) \/ pc[n] = "running" THEN clock[n] + 1
                                ELSE clock[n]]
    /\ steady' = [n \in Node |-> IF ~Undisturbed(n) THEN 0
                                 ELSE IF steady[n] < Settled THEN steady[n] + 1 ELSE Settled]
    /\ UNCHANGED vars

ClusterNext ==
    \/ \E n \in Node : AgentStep(n)
    \/ \E n \in Node, i \in Conn : HandlerStep(n, i)
    \/ StatementStep \/ CallStep \/ HubEndStep \/ HubStartStep \/ Tick

ClusterSpec == ClusterInit /\ [][ClusterNext]_<<vars, registryVars, clockVars>>

-----------------------------------------------------------------------------
(* Properties *)

\* The two views of a handler agree: one that awaits a store is between two
\* statements, and one past its first message has registered its node.  So neither
\* component ever waits for a step that the other refuses.  None outlives its hub.
ViewsAgree ==
    \A n \in Node, i \in Conn :
        /\ handler[n][i] = "storing" <=> R!Busy(<<n, i>>)
        /\ <<n, i>> \in known <=> Open(n, i) /\ ~first[n][i]
        /\ Open(n, i) => R!HubRuns

\* A node is counted as online, whatever happened before, once its agent has gone
\* through undisturbed cycles for longer than two of them take: it is stale only through
\* a command that runs in its loop, a connection that ends or a restart.
SteadyIsOnline == \A n \in Node : steady[n] = Settled => row[n].status = "online"
=============================================================================
