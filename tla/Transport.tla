----------------------------- MODULE Transport -----------------------------
(***************************************************************************)
(* MeshTransport (transport.py): one outbound task per online peer, which  *)
(* connects, reads and reconnects with exponential backoff; inbound        *)
(* connections that a server hands in and takes out; and the table of      *)
(* connections that send and broadcast use.                                *)
(*                                                                         *)
(* A step is the code between two awaits.  The owner calls start and stop  *)
(* by turns and waits for each; the server calls register_inbound for a    *)
(* new websocket and unregister when it has ended, at any time.  The tasks *)
(* and the inbound websockets of a peer are numbered as they come.         *)
(***************************************************************************)
EXTENDS Naturals

CONSTANTS
    Peer,
    Listed,     \* the peers that the nodes table may show to be online
    MaxTask,    \* bound: the outbound tasks created for a peer
    MaxIn,      \* bound: the inbound websockets of a peer
    MaxDelay    \* MAX_RECONNECT_DELAY

ASSUME TransportAssumption ==
    /\ Listed \subseteq Peer
    /\ MaxTask \in Nat /\ MaxIn \in Nat /\ MaxDelay \in Nat \ {0}

Task    == 1 .. MaxTask
Inbound == 1 .. MaxIn
NoTask  == 0

VARIABLES
    running,     \* _running
    owner,       \* where the owner's call of start or stop is
    connections, \* _connections: the entry of each peer
    tasks,       \* _outbound_tasks: the task of each peer, or NoTask
    pc, delay,   \* where each task is, and its local variable delay
    cancelled,   \* the tasks on which cancel() was called
    inbound,     \* the state of each inbound websocket
    todo,        \* stop: the tasks it gathers, then the websockets it has to close
    cast         \* broadcast: the peers left, the connections it began with, and
                 \*   the peers it was sent to

ownerVars == <<running, owner, todo>>
taskVars  == <<tasks, pc, delay, cancelled>>
vars == <<ownerVars, taskVars, connections, inbound, cast>>

None   == [kind |-> "none", id |-> 0]
Out(k) == [kind |-> "out", id |-> k]
In(i)  == [kind |-> "in", id |-> i]
Entry  == {None} \cup {Out(k) : k \in Task} \cup {In(i) : i \in Inbound}

TaskState == {"none", "new", "connecting", "open", "sleep", "ended"}

NoCast == [left |-> {}, before |-> [p \in Peer |-> None], sent |-> {}]

TypeOK ==
    /\ running \in BOOLEAN
    /\ owner \in {"down", "starting", "up", "cancelling", "closing"}
    /\ connections \in [Peer -> Entry]
    /\ tasks \in [Peer -> Task \cup {NoTask}]
    /\ pc \in [Peer -> [Task -> TaskState]]
    /\ delay \in [Peer -> [Task -> 1 .. MaxDelay]]
    /\ cancelled \in [Peer -> SUBSET Task]
    /\ inbound \in [Peer -> [Inbound -> {"none", "open", "ended", "unregistered"}]]
    /\ todo \in SUBSET (Peer \X Entry)
    /\ cast \in [left : SUBSET Peer, before : [Peer -> Entry], sent : SUBSET Peer]

Init ==
    /\ running = FALSE
    /\ owner = "down"
    /\ connections = [p \in Peer |-> None]
    /\ tasks = [p \in Peer |-> NoTask]
    /\ pc = [p \in Peer |-> [k \in Task |-> "none"]]
    /\ delay = [p \in Peer |-> [k \in Task |-> 1]]
    /\ cancelled = [p \in Peer |-> {}]
    /\ inbound = [p \in Peer |-> [i \in Inbound |-> "none"]]
    /\ todo = {}
    /\ cast = NoCast

Live(p, k) == pc[p][k] \notin {"none", "ended"}

Open(p, e) == \/ e.kind = "out" /\ pc[p][e.id] = "open"
              \/ e.kind = "in" /\ inbound[p][e.id] = "open"

Pop(p) == connections' = [connections EXCEPT ![p] = None]

Go(p, k, where) == pc' = [pc EXCEPT ![p][k] = where]

-----------------------------------------------------------------------------
(* start *)

\* The flag is set, then the peers that are online are looked up.
Start ==
    /\ owner = "down"
    /\ running' = TRUE
    /\ owner' = "starting"
    /\ UNCHANGED <<todo, taskVars, connections, inbound, cast>>

\* _start_outbound returns for a peer that has a task.
Unserved(S) == {p \in S : tasks[p] = NoTask}

Fresh(p, k) == pc[p][k] = "none" /\ \A j \in Task : j < k => pc[p][j] # "none"

StartTasks ==
    /\ owner = "starting"
    /\ owner' = "up"
    /\ \E S \in SUBSET Listed : \E new \in [Unserved(S) -> Task] :
          /\ \A p \in Unserved(S) : Fresh(p, new[p])
          /\ tasks' = [p \in Peer |-> IF p \in Unserved(S) THEN new[p] ELSE tasks[p]]
          /\ pc' = [p \in Peer |-> IF p \in Unserved(S)
                                   THEN [pc[p] EXCEPT ![new[p]] = "new"] ELSE pc[p]]
    /\ UNCHANGED <<running, todo, delay, cancelled, connections, inbound, cast>>

(* stop *)

\* (mutant) The tasks are waited for, not cancelled.
CancelNone(p) == cancelled[p]

CancelTask(p) == cancelled[p] \cup ({tasks[p]} \ {NoTask})

Stop ==
    /\ owner = "up"
    /\ running' = FALSE
    /\ owner' = "cancelling"
    /\ cancelled' = [p \in Peer |-> CancelTask(p)]
    /\ todo' = {<<p, Out(tasks[p])>> : p \in {q \in Peer : tasks[q] # NoTask}}
    /\ UNCHANGED <<tasks, pc, delay, connections, inbound, cast>>

ClearAll ==
    /\ connections' = [p \in Peer |-> None]
    /\ tasks' = [p \in Peer |-> NoTask]
    /\ owner' = "down"

\* gather() returns when the tasks have ended; _connections is listed then.
Gathered ==
    LET found == {<<p, connections[p]>> : p \in {q \in Peer : connections[q] # None}} IN
    /\ owner = "cancelling"
    /\ \A t \in todo : ~Live(t[1], t[2].id)
    /\ todo' = found
    /\ IF found = {}
       THEN ClearAll
       ELSE owner' = "closing" /\ UNCHANGED <<connections, tasks>>
    /\ UNCHANGED <<running, pc, delay, cancelled, inbound, cast>>

\* One after the other, each close being awaited.
CloseOne(p, e) ==
    /\ owner = "closing" /\ <<p, e>> \in todo
    /\ todo' = todo \ {<<p, e>>}
    /\ inbound' = IF e.kind = "in" /\ Open(p, e)
                  THEN [inbound EXCEPT ![p][e.id] = "ended"] ELSE inbound
    /\ UNCHANGED <<running, owner, taskVars, connections, cast>>

Stopped ==
    /\ owner = "closing" /\ todo = {}
    /\ ClearAll
    /\ UNCHANGED <<running, todo, pc, delay, cancelled, inbound, cast>>

-----------------------------------------------------------------------------
(* _connect_with_backoff and _connect_to_peer, in the task k of peer p *)

\* (mutant) The delay is not capped.
Doubled(d) == 2 * d

Twice(d) == IF 2 * d < MaxDelay THEN 2 * d ELSE MaxDelay

\* (mutant) There are no more attempts once the delay has reached its maximum.
GiveUp(p, k) ==
    /\ pc[p][k] \in {"new", "sleep"} /\ k \notin cancelled[p] /\ delay[p][k] < MaxDelay
    /\ Go(p, k, IF running THEN "connecting" ELSE "ended")
    /\ delay' = IF pc[p][k] = "sleep" THEN [delay EXCEPT ![p][k] = Twice(@)] ELSE delay
    /\ UNCHANGED <<ownerVars, tasks, cancelled, connections, inbound, cast>>

\* The test of the while loop, at the task's first step or after its sleep.
Loop(p, k) ==
    /\ pc[p][k] \in {"new", "sleep"} /\ k \notin cancelled[p]
    /\ Go(p, k, IF running THEN "connecting" ELSE "ended")
    /\ delay' = IF pc[p][k] = "sleep" THEN [delay EXCEPT ![p][k] = Twice(@)] ELSE delay
    /\ UNCHANGED <<ownerVars, tasks, cancelled, connections, inbound, cast>>

Connected(p, k) ==
    /\ pc[p][k] = "connecting" /\ k \notin cancelled[p]
    /\ Go(p, k, "open")
    /\ connections' = [connections EXCEPT ![p] = Out(k)]
    /\ UNCHANGED <<ownerVars, tasks, delay, cancelled, inbound, cast>>

\* (mutant) An exception ends the task.
ConnectRaises(p, k) ==
    /\ pc[p][k] = "connecting" /\ k \notin cancelled[p]
    /\ Go(p, k, "ended")
    /\ UNCHANGED <<ownerVars, tasks, delay, cancelled, connections, inbound, cast>>

ConnectFails(p, k) ==
    /\ pc[p][k] = "connecting" /\ k \notin cancelled[p]
    /\ Go(p, k, "sleep")
    /\ UNCHANGED <<ownerVars, tasks, delay, cancelled, connections, inbound, cast>>

\* (mutant) There is no finally clause.
NoPop(p) == UNCHANGED connections

\* The finally clause, whichever websocket has the entry by now.
PopOwn(p) == Pop(p)

\* The reading loop returns when the peer closes in order, and raises if not:
\* only the former resets the delay.
Closed(p, k) ==
    /\ pc[p][k] = "open" /\ k \notin cancelled[p]
    /\ Go(p, k, "sleep")
    /\ PopOwn(p)
    /\ delay' \in {delay, [delay EXCEPT ![p][k] = 1]}
    /\ UNCHANGED <<ownerVars, tasks, cancelled, inbound, cast>>

\* CancelledError at the await the task is suspended in.
Cancelled(p, k) ==
    /\ Live(p, k) /\ k \in cancelled[p]
    /\ Go(p, k, "ended")
    /\ IF pc[p][k] = "open" THEN PopOwn(p) ELSE UNCHANGED connections
    /\ UNCHANGED <<ownerVars, tasks, delay, cancelled, inbound, cast>>

-----------------------------------------------------------------------------
(* register_inbound and unregister, as a server calls them *)

RegisterInbound(p, i) ==
    /\ inbound[p][i] = "none" /\ \A j \in Inbound : j < i => inbound[p][j] # "none"
    /\ inbound' = [inbound EXCEPT ![p][i] = "open"]
    /\ connections' = [connections EXCEPT ![p] = In(i)]
    /\ UNCHANGED <<ownerVars, taskVars, cast>>

InboundEnds(p, i) ==
    /\ inbound[p][i] = "open"
    /\ inbound' = [inbound EXCEPT ![p][i] = "ended"]
    /\ UNCHANGED <<ownerVars, taskVars, connections, cast>>

\* (mutant) The task is forgotten, not cancelled.
ForgetTask(p, i) ==
    /\ inbound[p][i] = "ended"
    /\ inbound' = [inbound EXCEPT ![p][i] = "unregistered"]
    /\ Pop(p)
    /\ tasks' = [tasks EXCEPT ![p] = NoTask]
    /\ UNCHANGED <<ownerVars, pc, delay, cancelled, cast>>

Unregister(p, i) ==
    /\ inbound[p][i] = "ended"
    /\ inbound' = [inbound EXCEPT ![p][i] = "unregistered"]
    /\ Pop(p)
    /\ tasks' = [tasks EXCEPT ![p] = NoTask]
    /\ cancelled' = [cancelled EXCEPT ![p] = CancelTask(p)]
    /\ UNCHANGED <<ownerVars, pc, delay, cast>>

-----------------------------------------------------------------------------
(* broadcast: send to each of the peers that had an entry when it began *)

Broadcast ==
    LET found == {p \in Peer : connections[p] # None} IN
    /\ cast = NoCast /\ found # {}
    /\ cast' = [left |-> found, before |-> connections, sent |-> {}]
    /\ UNCHANGED <<ownerVars, taskVars, connections, inbound>>

\* (mutant) The first send that raises ends the broadcast.
RestUntilError(p) == IF Open(p, connections[p]) THEN cast.left \ {p} ELSE {}

Rest(p) == cast.left \ {p}

\* send looks the connection up again; one that raises is skipped.
CastTo(p) ==
    /\ p \in cast.left
    /\ cast' = [cast EXCEPT !.left = Rest(p),
                            !.sent = IF Open(p, connections[p]) THEN @ \cup {p} ELSE @]
    /\ UNCHANGED <<ownerVars, taskVars, connections, inbound>>

BroadcastEnds ==
    /\ cast # NoCast /\ cast.left = {}
    /\ cast' = NoCast
    /\ UNCHANGED <<ownerVars, taskVars, connections, inbound>>

-----------------------------------------------------------------------------
Running(p, k) == Loop(p, k) \/ Connected(p, k) \/ ConnectFails(p, k) \/ Cancelled(p, k)

Next ==
    \/ Start \/ StartTasks
    \/ Stop \/ Gathered \/ Stopped
    \/ \E p \in Peer, e \in Entry : CloseOne(p, e)
    \/ \E p \in Peer, k \in Task : Running(p, k) \/ Closed(p, k)
    \/ \E p \in Peer, i \in Inbound :
          RegisterInbound(p, i) \/ InboundEnds(p, i) \/ Unregister(p, i)
    \/ Broadcast
    \/ \E p \in Peer : CastTo(p)
    \/ BroadcastEnds

Spec == Init /\ [][Next]_vars

\* Sleeps and attempts to connect end, cancellations are delivered, and stop goes
\* on when it can.  An open connection need not end, and nobody need call stop.
Fairness ==
    /\ \A p \in Peer, k \in Task : WF_vars(Running(p, k))
    /\ WF_vars(Gathered) /\ WF_vars(Stopped)
    /\ \A p \in Peer : WF_vars(\E e \in Entry : CloseOne(p, e))

LiveSpec == Spec /\ Fairness

-----------------------------------------------------------------------------
(* Safety *)

\* Of the tasks of a peer at most one goes on reconnecting, whatever start, stop
\* and unregister did in between, and the table has it.  So no task is lost: when
\* stop has returned, none is left but such as are about to be cancelled.
OneTaskPerPeer ==
    \A p \in Peer, k \in Task : Live(p, k) /\ k \notin cancelled[p] => tasks[p] = k

\* No entry outlives the coroutine that answers for its websocket: an outbound
\* one is open, and no inbound one was unregistered.
EntryIsOwned ==
    \A p \in Peer : LET e == connections[p] IN
        /\ e.kind = "out" => Open(p, e)
        /\ e.kind = "in" => inbound[p][e.id] # "unregistered"

\* A broadcast misses no peer whose inbound websocket stayed registered and open
\* since it began, although others come and go while it is sending.
BroadcastReachesStable ==
    \A p \in Peer : LET e == cast.before[p] IN
        e.kind = "in" /\ connections[p] = e /\ Open(p, e) => p \in cast.left \cup cast.sent

\* A task ends by a cancellation or because stop was called, and by nothing else:
\* no failure ends the reconnecting.
EndsOnlyWhenTold ==
    [][\A p \in Peer, k \in Task :
          pc[p][k] # "ended" /\ pc'[p][k] = "ended" => k \in cancelled[p] \/ ~running]_vars

(* Liveness *)

\* A peer that is not connected is tried again, until its task is told to end.
TriesAgain ==
    \A p \in Peer, k \in Task : pc[p][k] = "sleep" ~> pc[p][k] \in {"connecting", "ended"}

\* stop returns.
StopReturns == owner \in {"cancelling", "closing"} ~> owner = "down"
=============================================================================
