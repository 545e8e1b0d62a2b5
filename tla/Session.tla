------------------------------ MODULE Session ------------------------------
(***************************************************************************)
(* The command path of soul-mesh: the heartbeat loop of every Agent        *)
(* (agent.py), the WebSocket handler of the hub (server.py) and the        *)
(* CommandRelay (executor.py) that POST /api/mesh/run uses to run a shell  *)
(* command on a connected node.                                            *)
(*                                                                         *)
(* Everything on the hub runs on one asyncio loop, so a step of this       *)
(* module is the code between two awaits.  A connection is a pair of FIFO  *)
(* channels; the connections of a node are numbered in the order the hub   *)
(* accepts them.  Payloads are abstracted to what the protocol tells       *)
(* apart: a heartbeat, a result (with its cmd_id), an "ok" and a           *)
(* run_command (with its cmd_id).  Time is abstracted: a sleep ends at any *)
(* moment, and so does the timeout of a call (SessionTimed bounds it).     *)
(***************************************************************************)
EXTENDS Naturals, Sequences, FiniteSets

CONSTANTS
    Node,        \* the node ids that agents connect with
    Cmd,         \* the POST /api/mesh/run requests: each draws a fresh cmd_id
    MaxConn,     \* bound: the connections a node opens
    Authorized,  \* the nodes whose token verifies with the hub's secret
    Matching,    \* the nodes whose first message carries the token's node_id
    NoCmd,       \* no command
    NoNode       \* no node

ASSUME SessionAssumption ==
    /\ MaxConn \in Nat \ {0}
    /\ Authorized \subseteq Node
    /\ Matching \subseteq Node
    /\ NoCmd \notin Cmd
    /\ NoNode \notin Node

Conn == 1 .. MaxConn
NoConn == 0                          \* self._ws is None; no entry in the relay

VARIABLES
    (* the agents *)
    pc,           \* where the heartbeat loop is suspended
    ws,           \* Agent._ws: the connection in use, or NoConn
    job,          \* the command _handle_command runs, or NoCmd
    (* the network *)
    epoch,        \* how many connections of the node the hub has accepted
    up,           \* agent to hub, per node and connection
    down,         \* hub to agent, per node and connection
    (* the hub *)
    handler,      \* the state of each connection's websocket_heartbeat
    first,        \* its local variable first_message
    connections,  \* CommandRelay._connections: the entry of each node
    pending,      \* CommandRelay._pending: the keys, its futures are in call
    call,         \* the send_command coroutine of each request
    (* history *)
    runs          \* the nodes each command was started on, in order

agentVars == <<pc, ws, job>>
netVars   == <<epoch, up, down>>
hubVars   == <<handler, first, connections>>
callVars  == <<pending, call>>
vars      == <<agentVars, netVars, hubVars, callVars, runs>>

-----------------------------------------------------------------------------
(* Messages, states and types *)

Heartbeat == [type |-> "heartbeat", cmd |-> NoCmd]
Ok        == [type |-> "ok", cmd |-> NoCmd]
Result(c) == [type |-> "command_result", cmd |-> c]
Run(c)    == [type |-> "run_command", cmd |-> c]

UpMsg   == {Heartbeat} \cup {Result(c) : c \in Cmd}
DownMsg == {Ok} \cup {Run(c) : c \in Cmd}

AgentState   == {"idle", "reading", "running", "stopped"}
HandlerState == {"none", "receive", "storing", "closed"}

InFlight == {"sending", "waiting", "resolved"}
Ended    == {"done", "noconn", "timeout", "failed", "crashed"}
Call == [st : {"idle"} \cup InFlight \cup Ended,
         node : Node \cup {NoNode},
         conn : Conn \cup {NoConn}]

TypeOK ==
    /\ pc \in [Node -> AgentState]
    /\ ws \in [Node -> Conn \cup {NoConn}]
    /\ job \in [Node -> Cmd \cup {NoCmd}]
    /\ epoch \in [Node -> Conn \cup {NoConn}]
    /\ up \in [Node -> [Conn -> Seq(UpMsg)]]
    /\ down \in [Node -> [Conn -> Seq(DownMsg)]]
    /\ handler \in [Node -> [Conn -> HandlerState]]
    /\ first \in [Node -> [Conn -> BOOLEAN]]
    /\ connections \in [Node -> Conn \cup {NoConn}]
    /\ pending \in SUBSET Cmd
    /\ call \in [Cmd -> Call]
    /\ runs \in [Cmd -> Seq(Node)]

Init ==
    /\ pc = [n \in Node |-> "idle"]
    /\ ws = [n \in Node |-> NoConn]
    /\ job = [n \in Node |-> NoCmd]
    /\ epoch = [n \in Node |-> 0]
    /\ up = [n \in Node |-> [i \in Conn |-> <<>>]]
    /\ down = [n \in Node |-> [i \in Conn |-> <<>>]]
    /\ handler = [n \in Node |-> [i \in Conn |-> "none"]]
    /\ first = [n \in Node |-> [i \in Conn |-> TRUE]]
    /\ connections = [n \in Node |-> NoConn]
    /\ pending = {}
    /\ call = [c \in Cmd |-> [st |-> "idle", node |-> NoNode, conn |-> NoConn]]
    /\ runs = [c \in Cmd |-> <<>>]

Open(n, i) == handler[n][i] \in {"receive", "storing"}

\* (mutant) The newest message is handed over first.
SendDownFront(n, i, m) ==
    down' = IF ws[n] = i THEN [down EXCEPT ![n][i] = <<m>> \o @] ELSE down

\* A message of the hub reaches the agent only on the connection it still uses.
SendDown(n, i, m) ==
    down' = IF ws[n] = i THEN [down EXCEPT ![n][i] = Append(@, m)] ELSE down

\* What the agent writes after the hub's side has closed is read by nobody.
SendUp(n, m) ==
    up' = IF Open(n, ws[n]) THEN [up EXCEPT ![n][ws[n]] = Append(@, m)] ELSE up

-----------------------------------------------------------------------------
(* The entries of CommandRelay *)

\* (mutant) dict.setdefault: the first connection keeps the entry.
RegisterOnce(n, i) ==
    connections' = [connections EXCEPT ![n] = IF @ = NoConn THEN i ELSE @]

Register(n, i) == connections' = [connections EXCEPT ![n] = i]

\* By node id, whichever of its connections has the entry.
Unregister(n) == connections' = [connections EXCEPT ![n] = NoConn]

\* (mutant) Every pending future gets the result.
DeliverAll(c) ==
    call' = [d \in Cmd |-> IF d \in pending /\ call[d].st = "waiting"
                           THEN [call[d] EXCEPT !.st = "resolved"] ELSE call[d]]

\* (mutant) The result is set without looking at _pending.
DeliverLate(c) == call' = [call EXCEPT ![c].st = "resolved"]

\* deliver_result: an unknown or finished future is left alone.
Deliver(c) ==
    call' = IF c \in pending /\ call[c].st = "waiting"
            THEN [call EXCEPT ![c].st = "resolved"]
            ELSE call

\* (mutant) A request that times out leaves its future in _pending.
EndCallLeak(c, st) ==
    /\ call' = [call EXCEPT ![c].st = st]
    /\ pending' = IF st = "timeout" THEN pending ELSE pending \ {c}

\* The end of send_command and its finally clause.
EndCall(c, st) ==
    /\ call' = [call EXCEPT ![c].st = st]
    /\ pending' = pending \ {c}

-----------------------------------------------------------------------------
(* The agent: _heartbeat_loop, one cycle being connect, send, read, act *)

\* The token is made anew for each connection, and verifies with the hub's secret
\* if that is the agent's too.
Verifies(n) == n \in Authorized

\* The hub's half of a connection: it is registered, or closed with code 4001 or
\* 4003.
Accept(n, i) ==
    IF Verifies(n)
    THEN handler' = [handler EXCEPT ![n][i] = "receive"] /\ Register(n, i)
    ELSE handler' = [handler EXCEPT ![n][i] = "closed"] /\ UNCHANGED connections

\* _ensure_connection.  The agent's half of the handshake may still fail, and
\* then the hub holds a connection that nobody uses until it notices.
Connect(n) ==
    /\ pc[n] = "idle" /\ ws[n] = NoConn /\ epoch[n] < MaxConn
    /\ epoch' = [epoch EXCEPT ![n] = @ + 1]
    /\ ws' \in {[ws EXCEPT ![n] = e] : e \in {epoch[n] + 1, NoConn}}
    /\ Accept(n, epoch[n] + 1)
    /\ UNCHANGED <<pc, job, up, down, first, callVars, runs>>

SendHeartbeat(n) ==
    /\ pc[n] = "idle" /\ ws[n] # NoConn
    /\ pc' = [pc EXCEPT ![n] = "reading"]
    /\ SendUp(n, Heartbeat)
    /\ UNCHANGED <<ws, job, epoch, down, hubVars, callVars, runs>>

\* The one recv of the cycle takes whatever the hub sent first.
Received(n) == Head(down[n][ws[n]])

\* (mutant) Whatever is read is taken for a command.
AnyMessage(m) == TRUE

IsCommand(m) == m.type = "run_command"

Recv(n) ==
    /\ pc[n] = "reading" /\ down[n][ws[n]] # <<>>
    /\ down' = [down EXCEPT ![n][ws[n]] = Tail(@)]
    /\ UNCHANGED <<ws, epoch, up, hubVars, callVars>>

ReadOk(n) ==
    /\ Recv(n)
    /\ ~IsCommand(Received(n))
    /\ pc' = [pc EXCEPT ![n] = "idle"]
    /\ UNCHANGED <<job, runs>>

ReadCommand(n) ==
    /\ Recv(n)
    /\ IsCommand(Received(n))
    /\ pc' = [pc EXCEPT ![n] = "running"]
    /\ job' = [job EXCEPT ![n] = Received(n).cmd]
    /\ runs' = [runs EXCEPT ![Received(n).cmd] = Append(@, n)]

\* The command ended, failed to start or was killed after 30 s: each way the
\* agent sends one result, and goes to sleep without reading the hub's answer.
Reply(n) ==
    /\ pc[n] = "running"
    /\ SendUp(n, Result(job[n]))
    /\ pc' = [pc EXCEPT ![n] = "idle"]
    /\ job' = [job EXCEPT ![n] = NoCmd]
    /\ UNCHANGED <<ws, epoch, down, hubVars, callVars, runs>>

\* The agent gives its connection up: what it sent arrives up to some point,
\* what it has not read is gone.
Leave(n) ==
    /\ ws' = [ws EXCEPT ![n] = NoConn]
    /\ job' = [job EXCEPT ![n] = NoCmd]
    /\ IF ws[n] = NoConn
       THEN UNCHANGED <<up, down>>
       ELSE /\ \E k \in 0 .. Len(up[n][ws[n]]) :
                  up' = [up EXCEPT ![n][ws[n]] = SubSeq(@, 1, k)]
            /\ down' = [down EXCEPT ![n][ws[n]] = <<>>]
    /\ UNCHANGED <<epoch, hubVars, callVars, runs>>

\* A send or recv raised: the loop closes the connection and backs off.
Drop(n) ==
    /\ pc[n] # "stopped" /\ ws[n] # NoConn
    /\ pc' = [pc EXCEPT ![n] = "idle"]
    /\ Leave(n)

Stop(n) ==
    /\ pc[n] # "stopped"
    /\ pc' = [pc EXCEPT ![n] = "stopped"]
    /\ Leave(n)

Start(n) ==
    /\ pc[n] = "stopped"
    /\ pc' = [pc EXCEPT ![n] = "idle"]
    /\ UNCHANGED <<ws, job, netVars, hubVars, callVars, runs>>

-----------------------------------------------------------------------------
(* The hub: websocket_heartbeat of connection i of node n *)

Take(n, i, type) ==
    /\ handler[n][i] = "receive" /\ up[n][i] # <<>>
    /\ Head(up[n][i]).type = type

CloseHandler(n, i) ==
    /\ handler' = [handler EXCEPT ![n][i] = "closed"]
    /\ up' = [up EXCEPT ![n][i] = <<>>]

\* (mutant) The message is not answered.
NoAck(n, i) == UNCHANGED down

Ack(n, i) == SendDown(n, i, Ok)

ReceiveResult(n, i) ==
    /\ Take(n, i, "command_result")
    /\ up' = [up EXCEPT ![n][i] = Tail(@)]
    /\ Deliver(Head(up[n][i]).cmd)
    /\ Ack(n, i)
    /\ UNCHANGED <<agentVars, epoch, hubVars, pending, runs>>

\* register_node or process_heartbeat is awaited (module Registry).
ReceiveHeartbeat(n, i) ==
    /\ Take(n, i, "heartbeat")
    /\ first[n][i] => n \in Matching
    /\ up' = [up EXCEPT ![n][i] = Tail(@)]
    /\ handler' = [handler EXCEPT ![n][i] = "storing"]
    /\ UNCHANGED <<agentVars, epoch, down, first, connections, callVars, runs>>

\* Close code 4002 and return: the relay keeps the entry.
RejectMismatch(n, i) ==
    /\ Take(n, i, "heartbeat")
    /\ first[n][i] /\ n \notin Matching
    /\ CloseHandler(n, i)
    /\ UNCHANGED <<agentVars, epoch, down, first, connections, callVars, runs>>

\* (mutant) Every heartbeat is taken for the first.
StoredAsFirst(n, i) ==
    /\ handler[n][i] = "storing"
    /\ handler' = [handler EXCEPT ![n][i] = "receive"]
    /\ Ack(n, i)
    /\ UNCHANGED <<agentVars, epoch, up, first, connections, callVars, runs>>

Stored(n, i) ==
    /\ handler[n][i] = "storing"
    /\ handler' = [handler EXCEPT ![n][i] = "receive"]
    /\ first' = [first EXCEPT ![n][i] = FALSE]
    /\ Ack(n, i)
    /\ UNCHANGED <<agentVars, epoch, up, connections, callVars, runs>>

\* The database raised: not a WebSocketDisconnect, so the relay keeps the entry.
StoreFail(n, i) ==
    /\ handler[n][i] = "storing"
    /\ CloseHandler(n, i)
    /\ UNCHANGED <<agentVars, epoch, down, first, connections, callVars, runs>>

\* The connection broke, or the agent left it and the hub notices.
Disconnect(n, i) ==
    /\ handler[n][i] = "receive"
    /\ CloseHandler(n, i)
    /\ Unregister(n)
    /\ UNCHANGED <<agentVars, epoch, down, first, callVars, runs>>

\* The hub's process ends, and is started again sooner or later: only its database
\* survives.  What an agent does in between is to fail to connect.
Restart ==
    /\ handler' = [n \in Node |-> [i \in Conn |->
                      IF Open(n, i) THEN "closed" ELSE handler[n][i]]]
    /\ up' = [n \in Node |-> [i \in Conn |-> <<>>]]
    /\ connections' = [n \in Node |-> NoConn]
    /\ pending' = {}
    /\ call' = [c \in Cmd |-> IF call[c].st \in InFlight
                              THEN [call[c] EXCEPT !.st = "crashed"] ELSE call[c]]
    /\ UNCHANGED <<agentVars, epoch, down, first, runs>>

-----------------------------------------------------------------------------
(* CommandRelay.send_command, called by run_command_endpoint *)

\* The lookup and the new future; without an entry the answer is a 404.
Issue(c, n) ==
    /\ call[c].st = "idle"
    /\ IF connections[n] = NoConn
       THEN /\ call' = [call EXCEPT ![c] =
                           [st |-> "noconn", node |-> n, conn |-> NoConn]]
            /\ UNCHANGED pending
       ELSE /\ call' = [call EXCEPT ![c] =
                           [st |-> "sending", node |-> n, conn |-> connections[n]]]
            /\ pending' = pending \cup {c}
    /\ UNCHANGED <<agentVars, netVars, hubVars, runs>>

\* (mutant) The command is sent again until its result is there.
PutAgain(c) ==
    LET n == call[c].node
        i == call[c].conn IN
    /\ call[c].st = "sending" /\ Open(n, i)
    /\ Len(down[n][i]) < 3
    /\ SendDown(n, i, Run(c))
    /\ UNCHANGED <<agentVars, epoch, up, hubVars, callVars, runs>>

\* send_json on the connection found at the lookup, open or not by now.
Put(c) ==
    LET n == call[c].node
        i == call[c].conn IN
    /\ call[c].st = "sending"
    /\ IF Open(n, i) THEN SendDown(n, i, Run(c)) ELSE UNCHANGED down
    /\ call' = [call EXCEPT ![c].st = "waiting"]
    /\ UNCHANGED <<agentVars, epoch, up, hubVars, pending, runs>>

\* send_json raised, the connection being gone.
SendFail(c) ==
    /\ call[c].st = "sending"
    /\ Open(call[c].node, call[c].conn) => ws[call[c].node] # call[c].conn
    /\ EndCall(c, "failed")
    /\ UNCHANGED <<agentVars, netVars, hubVars, runs>>

Return(c) ==
    /\ call[c].st = "resolved"
    /\ EndCall(c, "done")
    /\ UNCHANGED <<agentVars, netVars, hubVars, runs>>

\* (mutant) The future is awaited without a timeout.
TimeoutNever(c) ==
    /\ call[c].st = "resolved"
    /\ EndCall(c, "timeout")
    /\ UNCHANGED <<agentVars, netVars, hubVars, runs>>

\* asyncio.wait_for gives up (a 504), if need be on a future resolved just now.
Timeout(c) ==
    /\ call[c].st \in {"waiting", "resolved"}
    /\ EndCall(c, "timeout")
    /\ UNCHANGED <<agentVars, netVars, hubVars, runs>>

-----------------------------------------------------------------------------
AgentNext(n) ==
    \/ Connect(n)
    \/ SendHeartbeat(n)
    \/ ReadOk(n)
    \/ ReadCommand(n)
    \/ Reply(n)
    \/ Drop(n)
    \/ Stop(n)
    \/ Start(n)

HandlerNext(n, i) ==
    \/ ReceiveResult(n, i)
    \/ ReceiveHeartbeat(n, i)
    \/ RejectMismatch(n, i)
    \/ Stored(n, i)
    \/ StoreFail(n, i)
    \/ Disconnect(n, i)

CallNext(c) ==
    \/ \E n \in Node : Issue(c, n)
    \/ Put(c)
    \/ SendFail(c)
    \/ Return(c)
    \/ Timeout(c)

Next ==
    \/ \E n \in Node : AgentNext(n)
    \/ \E n \in Node, i \in Conn : HandlerNext(n, i)
    \/ \E c \in Cmd : CallNext(c)
    \/ Restart

Spec == Init /\ [][Next]_vars

\* The loops go on by themselves, and each side notices in the end that the
\* other has closed.  Nothing obliges an agent to stop or start, a client to
\* issue a call, a connection to break or the database to fail.  Of the steps
\* under one WF at most one is possible at a time, or either ends the wait.
Fairness ==
    /\ \A n \in Node :
        /\ WF_vars(Connect(n) \/ SendHeartbeat(n) \/ ReadOk(n) \/ ReadCommand(n) \/ Reply(n))
        /\ WF_vars(Drop(n) /\ ~Open(n, ws[n]))
    /\ \A n \in Node, i \in Conn :
        /\ WF_vars(\/ ReceiveResult(n, i) \/ ReceiveHeartbeat(n, i) \/ RejectMismatch(n, i)
                   \/ Stored(n, i) \/ StoreFail(n, i))
        /\ WF_vars(Disconnect(n, i) /\ ws[n] # i)
    /\ \A c \in Cmd : WF_vars(Put(c) \/ SendFail(c) \/ Return(c) \/ Timeout(c))

LiveSpec == Spec /\ Fairness

-----------------------------------------------------------------------------
(* Safety *)

\* A run_command message is executed at most once, and only on the node that
\* the request named, however often that node reconnects.
AtMostOnce == \A c \in Cmd : runs[c] \in {<<>>, <<call[c].node>>}

\* A request that is answered with a result was executed, and one that is
\* refused (404: no connection; 500: the send failed) or not sent yet was not.
AnswersAreTrue ==
    \A c \in Cmd :
        /\ call[c].st \in {"resolved", "done"} => runs[c] # <<>>
        /\ call[c].st \in {"idle", "sending", "noconn", "failed"} => runs[c] = <<>>

\* The relay routes to the connection it accepted last or to none: an older
\* connection of the same node never gets its entry back.
RoutesToNewest == \A n \in Node : connections[n] \in {NoConn, epoch[n]}

\* _pending holds exactly the commands whose send_command has not ended, so
\* that every exit pops its future and no other.
PendingIsInFlight == \A c \in Cmd : c \in pending <=> call[c].st \in InFlight

\* The commands written to a connection, and those among them answered.
Written(n, i) == {c \in Cmd : /\ call[c].node = n /\ call[c].conn = i
                              /\ call[c].st \in {"waiting", "resolved", "done", "timeout"}}
Answered(n, i) == {c \in Written(n, i) : runs[c] # <<>> /\ job[n] # c}

Count(b) == IF b THEN 1 ELSE 0

\* How far an agent lags behind the hub.  While both sides hold the connection,
\* what is on its way (or being stored) is the answer the agent waits for, and
\* one message more for each command written and for each result sent: a
\* command takes the place of the answer to a heartbeat, and the "ok" that
\* answers its result is read only as if it answered a later heartbeat.
ResponseLag ==
    \A n \in Node, i \in Conn :
        ws[n] = i /\ Open(n, i) =>
            Len(down[n][i]) + Len(up[n][i]) + Count(handler[n][i] = "storing")
              = Count(pc[n] = "reading")
                  + Cardinality(Written(n, i)) + Cardinality(Answered(n, i))

\* The request as a client sees it.
Outcome(c) ==
    CASE call[c].st = "idle"                 -> "new"
      [] call[c].st \in InFlight             -> "open"
      [] call[c].st = "done"                 -> "done"
      [] call[c].st \in {"noconn", "failed"} -> "refused"
      [] OTHER                               -> "unknown"

Service == INSTANCE CommandService WITH
    request  <- [c \in Cmd |-> Outcome(c)],
    target   <- [c \in Cmd |-> call[c].node],
    executed <- runs

\* The relay, its handlers and the agents together keep the promise of the
\* endpoint, step by step: a result that comes after the request has ended
\* changes nothing, a refused command is never executed later.
ImplementsService == Service!Spec

(* Liveness *)

\* Every request is answered, whatever becomes of the agent.  (Each is made once, so
\* that in the end none is in flight.)
EveryCallEnds == <>[](\A c \in Cmd : call[c].st \notin InFlight)

\* No heartbeat cycle waits for ever in recv: the hub answers each message, or
\* the connection is given up.
CycleEnds == \A n \in Node : pc[n] = "reading" ~> pc[n] # "reading"

\* A command that reached an agent's connection is started in the end, or the
\* connection is given up: old answers only delay it.  (Each is written once.)
Delivered(c) == \E n \in Node, i \in Conn, k \in 1 .. Cardinality(Cmd) * 2 + 1 :
                    k <= Len(down[n][i]) /\ down[n][i][k] = Run(c)
DeliveredIsRead == <>[](\A c \in Cmd : ~Delivered(c))

(* What executor.py says of _connections, and the code does not do *)

\* executor.py:26: the relay has an entry for every connected agent.
ConnectedIsRegistered ==
    \A n \in Node : \A i \in Conn :
        ws[n] = i /\ Open(n, i) => connections[n] = i
=============================================================================
