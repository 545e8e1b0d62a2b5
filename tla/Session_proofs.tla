--------------------------- MODULE Session_proofs ---------------------------
(* Proofs about Session, for any sets of nodes and commands and any number *)
(* of connections of a node.                                               *)
EXTENDS Session, FiniteSetTheorems, TLAPS

USE SessionAssumption

(* What the helpers do to the types of the channels and of the calls *)

LEMMA NoConnApart == NoConn \notin Conn /\ Conn \subseteq Nat
BY DEF NoConn, Conn

LEMMA AppendNotEmpty ==
    ASSUME NEW S, NEW s \in Seq(S), NEW e \in S
    PROVE  Append(s, e) # <<>>
<1>1. Len(Append(s, e)) = Len(s) + 1 /\ Len(s) \in Nat  OBVIOUS
<1>2. Len(<<>>) = 0  OBVIOUS
<1> QED  BY <1>1, <1>2

LEMMA MessageTypes ==
    /\ Ok \in DownMsg /\ Heartbeat \in UpMsg
    /\ \A c \in Cmd : Run(c) \in DownMsg /\ Result(c) \in UpMsg
    /\ \A m \in DownMsg : IsCommand(m) => m.cmd \in Cmd /\ m = Run(m.cmd)
    /\ \A m \in UpMsg : m.type = "command_result" => m.cmd \in Cmd /\ m = Result(m.cmd)
<1>1. Ok.type # "run_command" /\ Heartbeat.type # "command_result"
  BY DEF Ok, Heartbeat
<1>2. \A c \in Cmd : Run(c).cmd = c /\ Result(c).cmd = c
  BY DEF Run, Result
<1> QED  BY <1>1, <1>2 DEF DownMsg, UpMsg, IsCommand

LEMMA SendDownType ==
    ASSUME TypeOK, NEW n \in Node, NEW i \in Conn, NEW m \in DownMsg, SendDown(n, i, m)
    PROVE  down' \in [Node -> [Conn -> Seq(DownMsg)]]
BY DEF TypeOK, SendDown

LEMMA SendUpType ==
    ASSUME TypeOK, NEW n \in Node, NEW m \in UpMsg, SendUp(n, m), ws[n] # NoConn
    PROVE  up' \in [Node -> [Conn -> Seq(UpMsg)]]
BY DEF TypeOK, SendUp

LEMMA TakeUpType ==
    ASSUME TypeOK, NEW n \in Node, NEW i \in Conn, NEW type, Take(n, i, type)
    PROVE  /\ Head(up[n][i]) \in UpMsg
           /\ Tail(up[n][i]) \in Seq(UpMsg)
           /\ [up EXCEPT ![n][i] = Tail(@)] \in [Node -> [Conn -> Seq(UpMsg)]]
<1>1. up[n][i] \in Seq(UpMsg) /\ up[n][i] # <<>>  BY DEF TypeOK, Take
<1>2. Head(up[n][i]) \in UpMsg /\ Tail(up[n][i]) \in Seq(UpMsg)  BY <1>1
<1>3. [up EXCEPT ![n][i] = Tail(@)] \in [Node -> [Conn -> Seq(UpMsg)]]
  BY <1>2 DEF TypeOK
<1> QED  BY <1>2, <1>3

LEMMA RecvType ==
    ASSUME TypeOK, NEW n \in Node, Recv(n), ws[n] \in Conn
    PROVE  Received(n) \in DownMsg /\ down' \in [Node -> [Conn -> Seq(DownMsg)]]
<1>1. down[n][ws[n]] \in Seq(DownMsg) /\ down[n][ws[n]] # <<>>  BY DEF TypeOK, Recv
<1>2. Received(n) \in DownMsg /\ Tail(down[n][ws[n]]) \in Seq(DownMsg)
  BY <1>1 DEF Received
<1>3. down' \in [Node -> [Conn -> Seq(DownMsg)]]  BY <1>2 DEF TypeOK, Recv
<1> QED  BY <1>2, <1>3

LEMMA LeaveType ==
    ASSUME TypeOK, NEW n \in Node, Leave(n)
    PROVE  /\ up' \in [Node -> [Conn -> Seq(UpMsg)]]
           /\ down' \in [Node -> [Conn -> Seq(DownMsg)]]
<1>1. CASE ws[n] = NoConn  BY <1>1 DEF TypeOK, Leave
<1>2. CASE ws[n] # NoConn
  <2>1. ws[n] \in Conn /\ up[n][ws[n]] \in Seq(UpMsg)  BY <1>2 DEF TypeOK
  <2>2. PICK k \in 0 .. Len(up[n][ws[n]]) :
            up' = [up EXCEPT ![n][ws[n]] = SubSeq(@, 1, k)]
    BY <1>2 DEF Leave
  <2>3. SubSeq(up[n][ws[n]], 1, k) \in Seq(UpMsg)  BY <2>1
  <2>4. up' \in [Node -> [Conn -> Seq(UpMsg)]]  BY <2>1, <2>2, <2>3 DEF TypeOK
  <2>5. down' = [down EXCEPT ![n][ws[n]] = <<>>]  BY <1>2 DEF Leave
  <2>6. down' \in [Node -> [Conn -> Seq(DownMsg)]]  BY <2>1, <2>5 DEF TypeOK
  <2> QED  BY <2>4, <2>6
<1> QED  BY <1>1, <1>2

LEMMA CallTypes ==
    ASSUME TypeOK, NEW c \in Cmd
    PROVE  /\ \A st \in InFlight \cup Ended : [call[c] EXCEPT !.st = st] \in Call
           /\ call[c].st \in {"idle"} \cup InFlight \cup Ended
           /\ call[c].node \in Node \cup {NoNode}
           /\ call[c].conn \in Conn \cup {NoConn}
<1>1. call[c] \in Call  BY DEF TypeOK
<1>2. \A r \in Call, st \in InFlight \cup Ended : [r EXCEPT !.st = st] \in Call
  BY DEF Call
<1>3. \A r \in Call : /\ r.st \in {"idle"} \cup InFlight \cup Ended
                     /\ r.node \in Node \cup {NoNode}
                     /\ r.conn \in Conn \cup {NoConn}
  BY DEF Call
<1> QED  BY <1>1, <1>2, <1>3

-----------------------------------------------------------------------------
(* Type correctness.  An agent that reads or runs a command has a            *)
(* connection, and one whose call is not idle names a node.                  *)

Attached ==
    /\ \A n \in Node : pc[n] \in {"reading", "running"} => ws[n] # NoConn
    /\ \A n \in Node : pc[n] = "running" => job[n] # NoCmd
    /\ \A n \in Node : connections[n] # NoConn => connections[n] = epoch[n]
    /\ \A n \in Node \ Authorized : connections[n] = NoConn
    /\ \A c \in Cmd : call[c].st = "sending" => /\ call[c].node \in Node
                                               /\ call[c].conn \in Conn

TypeInv == TypeOK /\ Attached

LEMMA TypeInit == Init => TypeInv
<1> SUFFICES ASSUME Init PROVE TypeInv  OBVIOUS
<1>1. [st |-> "idle", node |-> NoNode, conn |-> NoConn] \in Call  BY DEF Call
<1> QED
  BY <1>1, NoConnApart DEF Init, TypeInv, TypeOK, Attached, AgentState, HandlerState, NoConn, InFlight

LEMMA AgentTypes ==
    ASSUME TypeInv, NEW n \in Node, AgentNext(n)
    PROVE  TypeInv'
<1> USE DEF TypeInv
<1>1. CASE Connect(n)
  <2>0. epoch[n] \in Conn \cup {NoConn} /\ epoch[n] < MaxConn
    BY <1>1 DEF Connect, TypeOK
  <2>1. epoch[n] + 1 \in Conn /\ epoch[n] + 1 # NoConn
    BY <2>0, SessionAssumption DEF Conn, NoConn
  <2>2. PICK e \in {epoch[n] + 1, NoConn} : ws' = [ws EXCEPT ![n] = e]
    BY <1>1 DEF Connect
  <2>3. /\ pc[n] = "idle" /\ epoch' = [epoch EXCEPT ![n] = @ + 1]
        /\ UNCHANGED <<pc, job, up, down, first, callVars, runs>>
    BY <1>1 DEF Connect
  <2>4. \/ n \in Authorized /\ connections' = [connections EXCEPT ![n] = epoch[n] + 1]
        \/ n \notin Authorized /\ connections' = connections
    BY <1>1 DEF Connect, Accept, Verifies, Register
  <2>5. PICK v \in {"receive", "closed"} : handler' = [handler EXCEPT ![n][epoch[n] + 1] = v]
    BY <1>1 DEF Connect, Accept
  <2>6. handler' \in [Node -> [Conn -> HandlerState]]
    BY <2>1, <2>5 DEF TypeOK, HandlerState
  <2>12. /\ ws \in [Node -> Conn \cup {NoConn}] /\ epoch \in [Node -> Conn \cup {NoConn}]
         /\ connections \in [Node -> Conn \cup {NoConn}]
    BY DEF TypeOK
  <2>8. ws' \in [Node -> Conn \cup {NoConn}]  BY <2>1, <2>2, <2>12
  <2>9. epoch' \in [Node -> Conn \cup {NoConn}]  BY <2>1, <2>3, <2>12
  <2>10. connections' \in [Node -> Conn \cup {NoConn}]  BY <2>1, <2>4, <2>12
  <2>11. TypeOK'  BY <2>3, <2>6, <2>8, <2>9, <2>10 DEF TypeOK, callVars
  <2>7. Attached'  BY <2>1, <2>2, <2>3, <2>4 DEF TypeOK, Attached, callVars
  <2> QED  BY <2>7, <2>11
<1>2. CASE SendHeartbeat(n)
  <2>1. up' \in [Node -> [Conn -> Seq(UpMsg)]]
    BY <1>2, SendUpType, MessageTypes DEF SendHeartbeat
  <2> QED  BY <1>2, <2>1 DEF SendHeartbeat, TypeOK, Attached, AgentState, hubVars, callVars
<1>3. CASE ReadOk(n)
  <2>1. ws[n] \in Conn  BY <1>3 DEF ReadOk, Recv, TypeOK, Attached
  <2>2. down' \in [Node -> [Conn -> Seq(DownMsg)]]
    BY <1>3, <2>1, RecvType DEF ReadOk
  <2> QED  BY <1>3, <2>2 DEF ReadOk, Recv, TypeOK, Attached, AgentState, hubVars, callVars
<1>4. CASE ReadCommand(n)
  <2>1. ws[n] \in Conn  BY <1>4 DEF ReadCommand, Recv, TypeOK, Attached
  <2>2. /\ down' \in [Node -> [Conn -> Seq(DownMsg)]]
        /\ Received(n).cmd \in Cmd
    BY <1>4, <2>1, RecvType, MessageTypes DEF ReadCommand
  <2>3. runs' \in [Cmd -> Seq(Node)]
    BY <1>4, <2>2 DEF ReadCommand, TypeOK
  <2> QED
    BY <1>4, <2>1, <2>2, <2>3
    DEF ReadCommand, Recv, TypeOK, Attached, AgentState, hubVars, callVars
<1>5. CASE Reply(n)
  <2>1. job[n] \in Cmd  BY <1>5 DEF Reply, TypeOK, Attached
  <2>2. up' \in [Node -> [Conn -> Seq(UpMsg)]]
    BY <1>5, <2>1, SendUpType, MessageTypes DEF Reply, Attached
  <2> QED  BY <1>5, <2>2 DEF Reply, TypeOK, Attached, AgentState, hubVars, callVars
<1>6. CASE Drop(n)
  <2>1. /\ up' \in [Node -> [Conn -> Seq(UpMsg)]]
        /\ down' \in [Node -> [Conn -> Seq(DownMsg)]]
    BY <1>6, LeaveType DEF Drop
  <2>2. /\ ws' = [ws EXCEPT ![n] = NoConn] /\ job' = [job EXCEPT ![n] = NoCmd]
        /\ UNCHANGED <<epoch, hubVars, callVars, runs>>
    BY <1>6 DEF Drop, Leave
  <2>3. pc' \in [Node -> AgentState] /\ pc'[n] \in {"idle", "stopped"}
    BY <1>6 DEF Drop, TypeOK, AgentState
  <2>4. \A m \in Node \ {n} : pc'[m] = pc[m]  BY <1>6 DEF Drop, TypeOK
  <2>5. TypeOK'  BY <2>1, <2>2, <2>3 DEF TypeOK, hubVars, callVars
  <2>6. Attached'  BY <2>2, <2>3, <2>4 DEF Attached, TypeOK, hubVars, callVars
  <2> QED  BY <2>5, <2>6
<1>7. CASE Stop(n)
  <2>1. /\ up' \in [Node -> [Conn -> Seq(UpMsg)]]
        /\ down' \in [Node -> [Conn -> Seq(DownMsg)]]
    BY <1>7, LeaveType DEF Stop
  <2>2. /\ ws' = [ws EXCEPT ![n] = NoConn] /\ job' = [job EXCEPT ![n] = NoCmd]
        /\ UNCHANGED <<epoch, hubVars, callVars, runs>>
    BY <1>7 DEF Stop, Leave
  <2>3. pc' \in [Node -> AgentState] /\ pc'[n] \in {"idle", "stopped"}
    BY <1>7 DEF Stop, TypeOK, AgentState
  <2>4. \A m \in Node \ {n} : pc'[m] = pc[m]  BY <1>7 DEF Stop, TypeOK
  <2>5. TypeOK'  BY <2>1, <2>2, <2>3 DEF TypeOK, hubVars, callVars
  <2>6. Attached'  BY <2>2, <2>3, <2>4 DEF Attached, TypeOK, hubVars, callVars
  <2> QED  BY <2>5, <2>6
<1>8. CASE Start(n)
  BY <1>8 DEF Start, TypeOK, Attached, AgentState, netVars, hubVars, callVars
<1> QED  BY <1>1, <1>2, <1>3, <1>4, <1>5, <1>6, <1>7, <1>8 DEF AgentNext

LEMMA HandlerTypes ==
    ASSUME TypeInv, NEW n \in Node, NEW i \in Conn, HandlerNext(n, i)
    PROVE  TypeInv'
<1> USE DEF TypeInv
<1>1. CASE ReceiveResult(n, i)
  <2>1. /\ up' \in [Node -> [Conn -> Seq(UpMsg)]]
        /\ Head(up[n][i]).cmd \in Cmd
    BY <1>1, TakeUpType, MessageTypes DEF ReceiveResult, Take
  <2>2. down' \in [Node -> [Conn -> Seq(DownMsg)]]
    BY <1>1, SendDownType, MessageTypes DEF ReceiveResult, Ack
  <2>3. call' \in [Cmd -> Call] /\ \A c \in Cmd : call'[c].st = "sending" => call'[c] = call[c]
    <3>1. [call[Head(up[n][i]).cmd] EXCEPT !.st = "resolved"] \in Call
      BY <2>1, CallTypes DEF InFlight
    <3>2. call \in [Cmd -> Call]  BY DEF TypeOK
    <3>3. \/ call' = call
          \/ call' = [call EXCEPT ![Head(up[n][i]).cmd] = [@ EXCEPT !.st = "resolved"]]
      BY <1>1 DEF ReceiveResult, Deliver
    <3>4. [call[Head(up[n][i]).cmd] EXCEPT !.st = "resolved"].st = "resolved"
      BY <2>1, <3>2 DEF Call
    <3> QED  BY <2>1, <3>1, <3>2, <3>3, <3>4
  <2>4. UNCHANGED <<agentVars, epoch, hubVars, pending, runs>>
    BY <1>1 DEF ReceiveResult
  <2> QED  BY <2>1, <2>2, <2>3, <2>4 DEF TypeOK, Attached, agentVars, hubVars
<1>2. CASE ReceiveHeartbeat(n, i)
  <2>1. up' \in [Node -> [Conn -> Seq(UpMsg)]]
    BY <1>2, TakeUpType DEF ReceiveHeartbeat
  <2> QED
    BY <1>2, <2>1 DEF ReceiveHeartbeat, TypeOK, Attached, HandlerState, agentVars, callVars
<1>3. CASE RejectMismatch(n, i) \/ StoreFail(n, i) \/ Disconnect(n, i)
  <2>1. CloseHandler(n, i) /\ UNCHANGED <<agentVars, epoch, down, first, callVars, runs>>
    BY <1>3 DEF RejectMismatch, StoreFail, Disconnect
  <2>2. /\ up' \in [Node -> [Conn -> Seq(UpMsg)]]
        /\ handler' \in [Node -> [Conn -> HandlerState]]
    BY <2>1 DEF CloseHandler, TypeOK, HandlerState
  <2>3. connections' = connections \/ connections' = [connections EXCEPT ![n] = NoConn]
    BY <1>3 DEF RejectMismatch, StoreFail, Disconnect, Unregister
  <2>4. connections \in [Node -> Conn \cup {NoConn}]  BY DEF TypeOK
  <2>5. connections' \in [Node -> Conn \cup {NoConn}]  BY <2>3, <2>4
  <2>6. TypeOK'  BY <2>1, <2>2, <2>5 DEF TypeOK, agentVars, callVars
  <2>7. \A m \in Node : connections'[m] \in {connections[m], NoConn}  BY <2>3, <2>4
  <2>8. Attached'  BY <2>1, <2>7 DEF Attached, agentVars, callVars
  <2> QED  BY <2>6, <2>8
<1>4. CASE Stored(n, i)
  <2>1. down' \in [Node -> [Conn -> Seq(DownMsg)]]
    BY <1>4, SendDownType, MessageTypes DEF Stored, Ack
  <2> QED  BY <1>4, <2>1 DEF Stored, TypeOK, Attached, HandlerState, agentVars, callVars
<1> QED  BY <1>1, <1>2, <1>3, <1>4 DEF HandlerNext

LEMMA CallTypeStep ==
    ASSUME TypeInv, NEW c \in Cmd, CallNext(c)
    PROVE  TypeInv'
<1> USE DEF TypeInv
<1>1. CASE \E n \in Node : Issue(c, n)
  <2>1. PICK n \in Node : Issue(c, n)  BY <1>1
  <2>2. connections[n] \in Conn \cup {NoConn}  BY DEF TypeOK
  <2>3. /\ [st |-> "noconn", node |-> n, conn |-> NoConn] \in Call
        /\ connections[n] # NoConn =>
              [st |-> "sending", node |-> n, conn |-> connections[n]] \in Call
    BY <2>2 DEF Call, InFlight, Ended
  <2>4. UNCHANGED <<agentVars, netVars, hubVars, runs>>  BY <2>1 DEF Issue
  <2>5. PICK r \in Call : /\ call' = [call EXCEPT ![c] = r]
                          /\ r.st = "sending" => r.node \in Node /\ r.conn \in Conn
                          /\ pending' \in {pending, pending \cup {c}}
    <3>1. CASE connections[n] = NoConn  BY <2>1, <2>3, <3>1 DEF Issue
    <3>2. CASE connections[n] # NoConn  BY <2>1, <2>2, <2>3, <3>2 DEF Issue
    <3> QED  BY <3>1, <3>2
  <2>6. call' \in [Cmd -> Call] /\ pending' \in SUBSET Cmd
    BY <2>5 DEF TypeOK
  <2>7. ASSUME NEW d \in Cmd, call'[d].st = "sending"
        PROVE  call'[d].node \in Node /\ call'[d].conn \in Conn
    BY <2>5, <2>7 DEF TypeOK, Attached
  <2>8. TypeOK'  BY <2>4, <2>6 DEF TypeOK, agentVars, netVars, hubVars
  <2>9. Attached'  BY <2>4, <2>7 DEF Attached, agentVars, netVars, hubVars
  <2> QED  BY <2>8, <2>9
<1>2. CASE Put(c)
  <2>1. call[c].node \in Node /\ call[c].conn \in Conn  BY <1>2 DEF Put, Attached
  <2>2. down' \in [Node -> [Conn -> Seq(DownMsg)]]
    BY <1>2, <2>1, SendDownType, MessageTypes DEF Put, TypeOK
  <2>3. [call[c] EXCEPT !.st = "waiting"] \in Call  BY CallTypes DEF InFlight
  <2>4. call' \in [Cmd -> Call] /\ \A d \in Cmd : call'[d].st = "sending" => call'[d] = call[d]
    BY <1>2, <2>3 DEF Put, TypeOK
  <2> QED  BY <1>2, <2>2, <2>4 DEF Put, TypeOK, Attached, agentVars, hubVars
<1>3. CASE SendFail(c) \/ Return(c) \/ Timeout(c)
  <2>1. PICK st \in Ended : EndCall(c, st)
    BY <1>3 DEF SendFail, Return, Timeout, Ended
  <2>2. [call[c] EXCEPT !.st = st] \in Call  BY CallTypes
  <2>3. call' \in [Cmd -> Call] /\ \A d \in Cmd : call'[d].st = "sending" => call'[d] = call[d]
    BY <2>1, <2>2 DEF EndCall, TypeOK, Ended
  <2>4. UNCHANGED <<agentVars, netVars, hubVars, runs>>
    BY <1>3 DEF SendFail, Return, Timeout
  <2>5. pending' \in SUBSET Cmd  BY <2>1 DEF EndCall, TypeOK
  <2> QED  BY <2>3, <2>4, <2>5 DEF TypeOK, Attached, agentVars, netVars, hubVars
<1> QED  BY <1>1, <1>2, <1>3 DEF CallNext

LEMMA RestartTypes ==
    ASSUME TypeInv, Restart
    PROVE  TypeInv'
<1> USE DEF TypeInv
<1>1. \A c \in Cmd : [call[c] EXCEPT !.st = "crashed"] \in Call  BY CallTypes DEF Ended
<1>2. call' \in [Cmd -> Call] /\ \A c \in Cmd : call'[c].st # "sending"
  BY <1>1 DEF Restart, TypeOK, InFlight
<1>3. handler' \in [Node -> [Conn -> HandlerState]]
  BY DEF Restart, TypeOK, HandlerState
<1>4. up' \in [Node -> [Conn -> Seq(UpMsg)]]  BY DEF Restart
<1>5. connections' = [n \in Node |-> NoConn] /\ pending' = {}  BY DEF Restart
<1>6. UNCHANGED <<agentVars, epoch, down, first, runs>>  BY DEF Restart
<1> QED  BY <1>2, <1>3, <1>4, <1>5, <1>6 DEF TypeOK, Attached, agentVars

LEMMA TypeStep == TypeInv /\ [Next]_vars => TypeInv'
<1> SUFFICES ASSUME TypeInv, [Next]_vars PROVE TypeInv'  OBVIOUS
<1>1. CASE \E n \in Node : AgentNext(n)  BY <1>1, AgentTypes
<1>2. CASE \E n \in Node, i \in Conn : HandlerNext(n, i)  BY <1>2, HandlerTypes
<1>3. CASE \E c \in Cmd : CallNext(c)  BY <1>3, CallTypeStep
<1>4. CASE Restart  BY <1>4, RestartTypes
<1>5. CASE UNCHANGED vars
  BY <1>5 DEF TypeInv, TypeOK, Attached, vars, agentVars, netVars, hubVars, callVars
<1> QED  BY <1>1, <1>2, <1>3, <1>4, <1>5 DEF Next

\* Every variable keeps its type, and an agent that waits for an answer or runs
\* a command has a connection to do it on.
THEOREM TypeCorrect == Spec => []TypeOK
<1>1. TypeInv => TypeOK  BY DEF TypeInv
<1> QED  BY <1>1, TypeInit, TypeStep, PTL DEF Spec

\* The relay routes to the connection it accepted last or to none.
THEOREM NewestConnection == Spec => []RoutesToNewest
<1>1. TypeInv => RoutesToNewest  BY DEF TypeInv, TypeOK, Attached, RoutesToNewest
<1> QED  BY <1>1, TypeInit, TypeStep, PTL DEF Spec

-----------------------------------------------------------------------------
(* The futures of the relay *)

LEMMA PendingStep ==
    ASSUME TypeInv, PendingIsInFlight, [Next]_vars
    PROVE  PendingIsInFlight'
<1> USE DEF PendingIsInFlight
<1>1. CASE UNCHANGED callVars  BY <1>1 DEF callVars
<1>2. ASSUME NEW n \in Node, NEW i \in Conn, ReceiveResult(n, i)
      PROVE  PendingIsInFlight'
  <2>1. pending' = pending /\ \A c \in Cmd :
            call'[c] \in {call[c], [call[c] EXCEPT !.st = "resolved"]}
              /\ (call'[c] # call[c] => call[c].st = "waiting")
    BY <1>2, MessageTypes DEF ReceiveResult, Deliver, TypeInv, TypeOK
  <2>2. \A c \in Cmd : [call[c] EXCEPT !.st = "resolved"].st = "resolved"
    BY DEF TypeInv, TypeOK, Call
  <2> QED  BY <2>1, <2>2 DEF InFlight
<1>3. ASSUME NEW c \in Cmd, NEW n \in Node, Issue(c, n)
      PROVE  PendingIsInFlight'
  <2>1. call[c].st = "idle" /\ call \in [Cmd -> Call]
    BY <1>3 DEF Issue, TypeInv, TypeOK
  <2>2. c \notin pending  BY <2>1 DEF InFlight
  <2>3. CASE connections[n] = NoConn
    <3>1. /\ call' = [call EXCEPT ![c] = [st |-> "noconn", node |-> n, conn |-> NoConn]]
          /\ pending' = pending
      BY <1>3, <2>3 DEF Issue
    <3>2. call'[c].st = "noconn" /\ \A d \in Cmd \ {c} : call'[d] = call[d]
      BY <2>1, <3>1
    <3> QED  BY <2>2, <3>1, <3>2 DEF InFlight
  <2>4. CASE connections[n] # NoConn
    <3>1. /\ call' = [call EXCEPT ![c] =
                         [st |-> "sending", node |-> n, conn |-> connections[n]]]
          /\ pending' = pending \cup {c}
      BY <1>3, <2>4 DEF Issue
    <3>2. call'[c].st = "sending" /\ \A d \in Cmd \ {c} : call'[d] = call[d]
      BY <2>1, <3>1
    <3> QED  BY <2>2, <3>1, <3>2 DEF InFlight
  <2> QED  BY <2>3, <2>4
<1>4. ASSUME NEW c \in Cmd, Put(c)
      PROVE  PendingIsInFlight'
  <2>1. pending' = pending /\ call' = [call EXCEPT ![c].st = "waiting"]
    BY <1>4 DEF Put
  <2>2. call[c].st = "sending"  BY <1>4 DEF Put
  <2> QED  BY <2>1, <2>2 DEF TypeInv, TypeOK, Call, InFlight
<1>5. ASSUME NEW c \in Cmd, SendFail(c) \/ Return(c) \/ Timeout(c)
      PROVE  PendingIsInFlight'
  <2>1. PICK st \in Ended : EndCall(c, st)
    BY <1>5 DEF SendFail, Return, Timeout, Ended
  <2>2. call' = [call EXCEPT ![c].st = st] /\ pending' = pending \ {c}
    BY <2>1 DEF EndCall
  <2> QED  BY <2>2 DEF TypeInv, TypeOK, Call, InFlight, Ended
<1>6. CASE Restart
  <2>1. pending' = {} /\ \A c \in Cmd : call'[c].st \notin InFlight
    BY <1>6 DEF Restart, TypeInv, TypeOK, Call, InFlight
  <2> QED  BY <2>1
<1>7. ASSUME NEW n \in Node, AgentNext(n)
      PROVE  UNCHANGED callVars
  BY <1>7 DEF AgentNext, Connect, Accept, SendHeartbeat, ReadOk, ReadCommand, Recv, Reply, Drop,
              Stop, Leave, Start
<1>8. ASSUME NEW n \in Node, NEW i \in Conn, HandlerNext(n, i)
      PROVE  ReceiveResult(n, i) \/ UNCHANGED callVars
  BY <1>8 DEF HandlerNext, ReceiveHeartbeat, RejectMismatch, Stored, StoreFail, Disconnect
<1>9. UNCHANGED vars => UNCHANGED callVars  BY DEF vars
<1> QED
  BY <1>1, <1>2, <1>3, <1>4, <1>5, <1>6, <1>7, <1>8, <1>9 DEF Next, CallNext

\* Every way out of send_command removes its own future from _pending, and
\* nothing else removes one.
THEOREM FuturesAreCleanedUp == Spec => []PendingIsInFlight
<1>1. Init => PendingIsInFlight  BY DEF Init, PendingIsInFlight, InFlight
<1>2. TypeInv /\ PendingIsInFlight /\ [Next]_vars => PendingIsInFlight'  BY PendingStep
<1> QED  BY <1>1, <1>2, TypeInit, TypeStep, PTL DEF Spec

-----------------------------------------------------------------------------
(* Commands run at most once.  A run_command message stands at one place of  *)
(* one channel, that of the connection found at the lookup, and only while   *)
(* its command has not been started.                                         *)

Unsent == {"idle", "sending", "noconn", "failed"}

InQueue(c, n, i, k) == k \in 1 .. Len(down[n][i]) /\ down[n][i][k] = Run(c)

Once ==
    /\ \A c \in Cmd : runs[c] \in {<<>>, <<call[c].node>>}
    /\ \A c \in Cmd : call[c].st \in Unsent => runs[c] = <<>>
    /\ \A c \in Cmd, n \in Node, i \in Conn : \A k \in Nat :
          InQueue(c, n, i, k) => /\ n = call[c].node /\ i = call[c].conn
                                 /\ call[c].st \notin Unsent /\ runs[c] = <<>>
    /\ \A c \in Cmd, n \in Node, i \in Conn : \A k, l \in Nat :
          InQueue(c, n, i, k) /\ InQueue(c, n, i, l) => k = l

\* What every step leaves of a call: its node and connection once they are
\* chosen, and whether the command was written.
CallKeeps ==
    \A c \in Cmd :
        /\ call[c].st # "idle" => call'[c].node = call[c].node /\ call'[c].conn = call[c].conn
        /\ call'[c].st \in Unsent => call[c].st \in Unsent
        /\ call[c].st \in Unsent => call'[c].st \in Unsent \cup {"crashed", "waiting"}
        /\ call[c].st = "waiting" \/ (call'[c].st = "resolved" => call[c].st = "resolved")
        /\ call'[c].st = "done" => call[c].st \in {"resolved", "done"}

LEMMA CallSteps ==
    ASSUME TypeInv, [Next]_vars
    PROVE  CallKeeps
<1> USE DEF CallKeeps
<1>0. call \in [Cmd -> Call]  BY DEF TypeInv, TypeOK
<1>1. CASE UNCHANGED callVars  BY <1>1 DEF callVars, Unsent
<1>2. ASSUME NEW n \in Node, NEW i \in Conn, ReceiveResult(n, i)
      PROVE  CallKeeps
  <2>1. \A c \in Cmd : \/ call'[c] = call[c]
                       \/ call[c].st = "waiting" /\ call'[c] = [call[c] EXCEPT !.st = "resolved"]
    BY <1>0, <1>2 DEF ReceiveResult, Deliver
  <2>2. \A c \in Cmd : \/ call'[c] = call[c]
                       \/ /\ call[c].st = "waiting" /\ call'[c].st = "resolved"
                          /\ call'[c].node = call[c].node /\ call'[c].conn = call[c].conn
    <3> TAKE c \in Cmd
    <3>1. /\ [call[c] EXCEPT !.st = "resolved"].st = "resolved"
          /\ [call[c] EXCEPT !.st = "resolved"].node = call[c].node
          /\ [call[c] EXCEPT !.st = "resolved"].conn = call[c].conn
      BY <1>0 DEF Call
    <3>2. \/ call'[c] = call[c]
          \/ call[c].st = "waiting" /\ call'[c] = [call[c] EXCEPT !.st = "resolved"]
      BY <2>1
    <3> QED  BY <3>1, <3>2
  <2> QED  BY <2>2 DEF Unsent
<1>3. ASSUME NEW c \in Cmd, NEW n \in Node, Issue(c, n)
      PROVE  CallKeeps
  <2>1. PICK st \in {"noconn", "sending"}, i \in Conn \cup {NoConn} :
            call' = [call EXCEPT ![c] = [st |-> st, node |-> n, conn |-> i]]
    <3>1. connections[n] \in Conn \cup {NoConn}  BY DEF TypeInv, TypeOK
    <3>2. CASE connections[n] = NoConn  BY <1>3, <3>2 DEF Issue
    <3>3. CASE connections[n] # NoConn  BY <1>3, <3>1, <3>3 DEF Issue
    <3> QED  BY <3>2, <3>3
  <2>2. call[c].st = "idle"  BY <1>3 DEF Issue
  <2>3. call'[c].st = st /\ \A d \in Cmd \ {c} : call'[d] = call[d]  BY <1>0, <2>1
  <2> QED  BY <2>2, <2>3 DEF Unsent
<1>4. ASSUME NEW c \in Cmd, Put(c)
      PROVE  CallKeeps
  <2>1. call' = [call EXCEPT ![c].st = "waiting"] /\ call[c].st = "sending"
    BY <1>4 DEF Put
  <2> QED  BY <1>0, <2>1 DEF Call, Unsent
<1>5. ASSUME NEW c \in Cmd, SendFail(c) \/ Return(c) \/ Timeout(c)
      PROVE  CallKeeps
  <2>1. PICK st \in {"failed", "done", "timeout"} :
            /\ call' = [call EXCEPT ![c].st = st]
            /\ st = "failed" <=> call[c].st = "sending"
            /\ call[c].st \in InFlight
            /\ st = "done" => call[c].st = "resolved"
    BY <1>5 DEF SendFail, Return, Timeout, EndCall, InFlight
  <2>2. call'[c] = [call[c] EXCEPT !.st = st] /\ \A d \in Cmd \ {c} : call'[d] = call[d]
    BY <1>0, <2>1
  <2>3. call'[c].st = st /\ call'[c].node = call[c].node /\ call'[c].conn = call[c].conn
    BY <1>0, <2>2 DEF Call
  <2> QED  BY <2>1, <2>2, <2>3 DEF Unsent, InFlight
<1>6. CASE Restart
  <2>1. \A c \in Cmd : \/ call'[c] = call[c]
                       \/ /\ call[c].st \in InFlight
                          /\ call'[c] = [call[c] EXCEPT !.st = "crashed"]
    BY <1>6 DEF Restart
  <2>2. \A c \in Cmd : \/ call'[c] = call[c]
                       \/ /\ call[c].st \in InFlight /\ call'[c].st = "crashed"
                          /\ call'[c].node = call[c].node /\ call'[c].conn = call[c].conn
    <3>1. \A c \in Cmd : /\ [call[c] EXCEPT !.st = "crashed"].st = "crashed"
                         /\ [call[c] EXCEPT !.st = "crashed"].node = call[c].node
                         /\ [call[c] EXCEPT !.st = "crashed"].conn = call[c].conn
      BY <1>0 DEF Call
    <3> QED  BY <2>1, <3>1
  <2> QED  BY <2>2 DEF Unsent, InFlight
<1>7. ASSUME NEW n \in Node, AgentNext(n)
      PROVE  UNCHANGED callVars
  BY <1>7 DEF AgentNext, Connect, Accept, SendHeartbeat, ReadOk, ReadCommand, Recv, Reply, Drop,
              Stop, Leave, Start
<1>8. ASSUME NEW n \in Node, NEW i \in Conn, HandlerNext(n, i)
      PROVE  ReceiveResult(n, i) \/ UNCHANGED callVars
  BY <1>8 DEF HandlerNext, ReceiveHeartbeat, RejectMismatch, Stored, StoreFail, Disconnect
<1>9. UNCHANGED vars => UNCHANGED callVars  BY DEF vars
<1> QED
  BY <1>1, <1>2, <1>3, <1>4, <1>5, <1>6, <1>7, <1>8, <1>9 DEF Next, CallNext

\* A step that starts no command and writes none keeps the invariant.
LEMMA OnceFrame ==
    ASSUME Once, CallKeeps, runs' = runs,
           \A c \in Cmd, n \in Node, i \in Conn : \A k \in Nat :
               InQueue(c, n, i, k)' => InQueue(c, n, i, k)
    PROVE  Once'
<1>1. ASSUME NEW c \in Cmd
      PROVE  /\ runs'[c] \in {<<>>, <<call'[c].node>>}
             /\ call'[c].st \in Unsent => runs'[c] = <<>>
  <2>1. CASE call[c].st = "idle"
    <3>1. runs[c] = <<>>  BY <2>1 DEF Once, Unsent
    <3> QED  BY <3>1
  <2>2. CASE call[c].st # "idle"  BY <2>2 DEF Once, CallKeeps
  <2> QED  BY <2>1, <2>2
<1>2. ASSUME NEW c \in Cmd, NEW n \in Node, NEW i \in Conn, NEW k \in Nat, InQueue(c, n, i, k)'
      PROVE  /\ n = call'[c].node /\ i = call'[c].conn
             /\ call'[c].st \notin Unsent /\ runs'[c] = <<>>
  <2>1. n = call[c].node /\ i = call[c].conn /\ call[c].st \notin Unsent /\ runs[c] = <<>>
    BY <1>2 DEF Once
  <2> QED  BY <2>1 DEF CallKeeps, Unsent
<1>3. ASSUME NEW c \in Cmd, NEW n \in Node, NEW i \in Conn, NEW k \in Nat, NEW l \in Nat,
             InQueue(c, n, i, k)', InQueue(c, n, i, l)'
      PROVE  k = l
  <2>1. InQueue(c, n, i, k) /\ InQueue(c, n, i, l)  BY <1>3
  <2> QED  BY <2>1 DEF Once
<1> QED  BY <1>1, <1>2, <1>3 DEF Once

LEMMA AppendAt ==
    ASSUME NEW S, NEW s \in Seq(S), NEW e \in S
    PROVE  /\ Len(Append(s, e)) = Len(s) + 1
           /\ \A k \in 1 .. Len(s) : Append(s, e)[k] = s[k]
           /\ Append(s, e)[Len(s) + 1] = e
OBVIOUS

LEMMA TailAt ==
    ASSUME NEW S, NEW s \in Seq(S), s # <<>>
    PROVE  /\ Len(Tail(s)) = Len(s) - 1
           /\ \A k \in 1 .. Len(s) - 1 : Tail(s)[k] = s[k + 1]
OBVIOUS

LEMMA OnceWrite ==
    ASSUME TypeInv, CallKeeps, Once, NEW c \in Cmd, Put(c)
    PROVE  Once'
<1>1. PICK n \in Node, i \in Conn : n = call[c].node /\ i = call[c].conn
  BY DEF TypeInv, Attached, Put
<1>2. call[c].st = "sending" /\ runs' = runs /\ call' = [call EXCEPT ![c].st = "waiting"]
  BY DEF Put
<1>3. \A k \in Nat, m \in Node, j \in Conn : ~InQueue(c, m, j, k)
  BY <1>2 DEF Once, Unsent
<1>4. CASE down' = down
  BY <1>4, <1>2, OnceFrame DEF InQueue
<1>5. CASE down' = [down EXCEPT ![n][i] = Append(@, Run(c))]
  <2>1. down[n][i] \in Seq(DownMsg)  BY <1>1 DEF TypeInv, TypeOK
  <2>2. \A m \in Node, j \in Conn : <<m, j>> # <<n, i>> => down'[m][j] = down[m][j]
    BY <1>1, <1>5 DEF TypeInv, TypeOK
  <2>3. PICK s \in Seq(DownMsg) : s = down[n][i] /\ down'[n][i] = Append(s, Run(c))
    BY <2>1, <1>5 DEF TypeInv, TypeOK
  <2>4. Run(c) \in DownMsg  BY MessageTypes
  <2>5. \A d \in Cmd, m \in Node, j \in Conn : \A k \in Nat :
            InQueue(d, m, j, k)' =>
               \/ InQueue(d, m, j, k)
               \/ d = c /\ m = n /\ j = i /\ k = Len(s) + 1
    <3> SUFFICES ASSUME NEW d \in Cmd, NEW m \in Node, NEW j \in Conn, NEW k \in Nat,
                        InQueue(d, m, j, k)', ~InQueue(d, m, j, k)
                 PROVE  d = c /\ m = n /\ j = i /\ k = Len(s) + 1
      OBVIOUS
    <3>1. m = n /\ j = i  BY <2>2 DEF InQueue
    <3>2. Len(s) \in Nat  OBVIOUS
    <3>3. k \in 1 .. Len(s) + 1 /\ Append(s, Run(c))[k] = Run(d)
      <4>1. k \in 1 .. Len(down'[n][i]) /\ down'[n][i][k] = Run(d)  BY <3>1 DEF InQueue
      <4>2. Len(Append(s, Run(c))) = Len(s) + 1  BY <2>3, <2>4, AppendAt
      <4> QED  BY <2>3, <4>1, <4>2
    <3>4. CASE k \in 1 .. Len(s)
      <4>1. down[n][i][k] = Run(d)  BY <2>3, <2>4, <3>3, <3>4, AppendAt
      <4> QED  BY <2>3, <3>1, <3>4, <4>1 DEF InQueue
    <3>5. CASE k = Len(s) + 1
      <4>1. Run(c) = Run(d)  BY <2>1, <2>4, <3>3, <3>5, AppendAt
      <4> QED  BY <3>1, <3>5, <4>1 DEF Run
    <3> QED  BY <3>2, <3>3, <3>4, <3>5
  <2>6. call'[c].node = n /\ call'[c].conn = i /\ call'[c].st = "waiting"
        /\ \A d \in Cmd \ {c} : call'[d] = call[d]
    BY <1>1, <1>2 DEF TypeInv, TypeOK, Call
  <2>7. runs[c] = <<>>  BY <1>2 DEF Once, Unsent
  <2>8. \A d \in Cmd : runs'[d] \in {<<>>, <<call'[d].node>>}
                       /\ (call'[d].st \in Unsent => runs'[d] = <<>>)
    BY <1>2, <2>6, <2>7 DEF Once
  <2>9. ASSUME NEW d \in Cmd, NEW m \in Node, NEW j \in Conn, NEW k \in Nat,
               InQueue(d, m, j, k)'
        PROVE  /\ m = call'[d].node /\ j = call'[d].conn
               /\ call'[d].st \notin Unsent /\ runs'[d] = <<>>
    <3>1. CASE d = c  BY <1>2, <1>3, <2>5, <2>6, <2>7, <2>9, <3>1 DEF Unsent
    <3>2. CASE d # c  BY <1>2, <2>5, <2>6, <2>9, <3>2 DEF Once
    <3> QED  BY <3>1, <3>2
  <2>10. ASSUME NEW d \in Cmd, NEW m \in Node, NEW j \in Conn, NEW k \in Nat, NEW l \in Nat,
               InQueue(d, m, j, k)', InQueue(d, m, j, l)'
         PROVE  k = l
    <3>1. CASE d = c  BY <1>3, <2>5, <2>10, <3>1
    <3>2. CASE d # c  BY <2>5, <2>10, <3>2 DEF Once
    <3> QED  BY <3>1, <3>2
  <2> QED  BY <2>8, <2>9, <2>10 DEF Once
<1> QED  BY <1>1, <1>4, <1>5 DEF Put, SendDown

\* Reading a message moves the rest of the channel forward by one.
LEMMA QueueMoves ==
    ASSUME TypeInv, NEW n \in Node, Recv(n), ws[n] \in Conn,
           NEW c \in Cmd, NEW m \in Node, NEW j \in Conn, NEW k \in Nat, InQueue(c, m, j, k)'
    PROVE  IF m = n /\ j = ws[n] THEN InQueue(c, m, j, k + 1) ELSE InQueue(c, m, j, k)
<1>1. /\ down[n][ws[n]] \in Seq(DownMsg) /\ down[n][ws[n]] # <<>>
      /\ down' = [down EXCEPT ![n][ws[n]] = Tail(@)]
  BY DEF TypeInv, TypeOK, Recv
<1>2. CASE m = n /\ j = ws[n]
  <2>1. down'[m][j] = Tail(down[n][ws[n]])  BY <1>1, <1>2 DEF TypeInv, TypeOK
  <2>2. Len(down[n][ws[n]]) \in Nat  BY <1>1
  <2>3. k \in 1 .. Len(down[n][ws[n]]) - 1 /\ Tail(down[n][ws[n]])[k] = Run(c)
    BY <1>1, <2>1, <2>2, TailAt DEF InQueue
  <2>4. down[n][ws[n]][k + 1] = Run(c)  BY <1>1, <2>3, TailAt
  <2>5. k + 1 \in 1 .. Len(down[n][ws[n]])  BY <2>2, <2>3
  <2> QED  BY <1>2, <2>4, <2>5 DEF InQueue
<1>3. CASE ~(m = n /\ j = ws[n])
  <2>1. down'[m][j] = down[m][j]  BY <1>1, <1>3 DEF TypeInv, TypeOK
  <2> QED  BY <1>3, <2>1 DEF InQueue
<1> QED  BY <1>2, <1>3

LEMMA OnceRead ==
    ASSUME TypeInv, CallKeeps, Once, NEW n \in Node, ReadOk(n) \/ ReadCommand(n)
    PROVE  Once'
<1>1. Recv(n) /\ ws[n] \in Conn
  BY DEF ReadOk, ReadCommand, Recv, TypeInv, TypeOK, Attached
<1>2. call' = call  BY <1>1 DEF Recv, callVars
<1> DEFINE moved(m, j) == m = n /\ j = ws[n]
<1>3. \A c \in Cmd, m \in Node, j \in Conn : \A k \in Nat :
          InQueue(c, m, j, k)' => \E l \in Nat : InQueue(c, m, j, l)
  BY <1>1, QueueMoves
<1>4. ASSUME NEW c \in Cmd, NEW m \in Node, NEW j \in Conn, NEW k \in Nat, NEW l \in Nat,
             InQueue(c, m, j, k)', InQueue(c, m, j, l)'
      PROVE  k = l
  <2>1. CASE moved(m, j)
    <3>1. InQueue(c, m, j, k + 1) /\ InQueue(c, m, j, l + 1)
      BY <1>1, <1>4, <2>1, QueueMoves
    <3>2. k + 1 = l + 1  BY <3>1 DEF Once
    <3> QED  BY <3>2
  <2>2. CASE ~moved(m, j)
    <3>1. InQueue(c, m, j, k) /\ InQueue(c, m, j, l)
      BY <1>1, <1>4, <2>2, QueueMoves
    <3> QED  BY <3>1 DEF Once
  <2> QED  BY <2>1, <2>2
<1>5. CASE ReadOk(n)
  <2>1. runs' = runs  BY <1>5 DEF ReadOk
  <2>2. \A c \in Cmd, m \in Node, j \in Conn : \A k \in Nat :
          InQueue(c, m, j, k)' => /\ m = call'[c].node /\ j = call'[c].conn
                                  /\ call'[c].st \notin Unsent /\ runs'[c] = <<>>
    BY <1>2, <1>3, <2>1 DEF Once
  <2> QED  BY <1>2, <1>4, <2>1, <2>2 DEF Once
<1>6. CASE ReadCommand(n)
  <2>1. PICK d \in Cmd : d = Received(n).cmd /\ Received(n) = Run(d)
    BY <1>1, <1>6, RecvType, MessageTypes DEF ReadCommand, TypeInv
  <2>2. InQueue(d, n, ws[n], 1)
    BY <1>1, <2>1 DEF InQueue, Received, Recv, TypeInv, TypeOK
  <2>3. call[d].node = n /\ call[d].conn = ws[n] /\ call[d].st \notin Unsent /\ runs[d] = <<>>
    BY <1>1, <2>1, <2>2 DEF Once
  <2>4. runs' = [runs EXCEPT ![d] = Append(@, n)]  BY <1>6, <2>1 DEF ReadCommand
  <2>5. runs'[d] = <<n>> /\ \A c \in Cmd \ {d} : runs'[c] = runs[c]
    <3>1. Append(<<>>, n) = <<n>>  OBVIOUS
    <3>2. runs \in [Cmd -> Seq(Node)]  BY DEF TypeInv, TypeOK
    <3>3. runs' = [runs EXCEPT ![d] = <<n>>]  BY <2>3, <2>4, <3>1
    <3> QED  BY <3>2, <3>3
  <2>6. ASSUME NEW m \in Node, NEW j \in Conn, NEW k \in Nat, InQueue(d, m, j, k)'
        PROVE  FALSE
    <3>1. m = n /\ j = ws[n]  BY <1>3, <2>1, <2>3, <2>6 DEF Once
    <3>2. InQueue(d, m, j, k + 1)  BY <1>1, <2>1, <2>6, <3>1, QueueMoves
    <3>3. k + 1 = 1  BY <2>1, <2>2, <3>1, <3>2 DEF Once
    <3>4. k >= 1  BY <2>6 DEF InQueue
    <3> QED  BY <3>3, <3>4
  <2>7. \A c \in Cmd, m \in Node, j \in Conn : \A k \in Nat :
          InQueue(c, m, j, k)' => /\ m = call'[c].node /\ j = call'[c].conn
                                  /\ call'[c].st \notin Unsent /\ runs'[c] = <<>>
    BY <1>2, <1>3, <2>5, <2>6 DEF Once
  <2>8. \A c \in Cmd : /\ runs'[c] \in {<<>>, <<call'[c].node>>}
                       /\ call'[c].st \in Unsent => runs'[c] = <<>>
    BY <1>2, <2>3, <2>5 DEF Once
  <2> QED  BY <1>4, <2>7, <2>8 DEF Once
<1> QED  BY <1>5, <1>6

LEMMA AckFrame ==
    ASSUME TypeInv, NEW n \in Node, NEW i \in Conn, SendDown(n, i, Ok),
           NEW c \in Cmd, NEW m \in Node, NEW j \in Conn, NEW k \in Nat, InQueue(c, m, j, k)'
    PROVE  InQueue(c, m, j, k)
<1>1. Ok \in DownMsg /\ Ok # Run(c)  BY MessageTypes DEF Ok, Run
<1>2. PICK s \in Seq(DownMsg) : s = down[n][i]  BY DEF TypeInv, TypeOK
<1>3. CASE down' = down  BY <1>3 DEF InQueue
<1>4. CASE down' = [down EXCEPT ![n][i] = Append(@, Ok)]
  <2>1. CASE m = n /\ j = i
    <3>1. down'[m][j] = Append(s, Ok)  BY <1>2, <1>4, <2>1 DEF TypeInv, TypeOK
    <3>2. k \in 1 .. Len(down'[m][j]) /\ down'[m][j][k] = Run(c)  BY DEF InQueue
    <3>3. Len(s) \in Nat  OBVIOUS
    <3>4. k \in 1 .. Len(s) + 1 /\ Append(s, Ok)[k] = Run(c)
      BY <1>1, <3>1, <3>2, AppendAt
    <3>5. k # Len(s) + 1  BY <1>1, <3>4, AppendAt
    <3>6. k \in 1 .. Len(s) /\ s[k] = Run(c)  BY <1>1, <3>3, <3>4, <3>5, AppendAt
    <3> QED  BY <1>2, <2>1, <3>6 DEF InQueue
  <2>2. CASE ~(m = n /\ j = i)
    <3>1. down'[m][j] = down[m][j]  BY <1>4, <2>2 DEF TypeInv, TypeOK
    <3> QED  BY <3>1 DEF InQueue
  <2> QED  BY <2>1, <2>2
<1> QED  BY <1>3, <1>4 DEF SendDown

LEMMA LeaveFrame ==
    ASSUME TypeInv, NEW n \in Node, Leave(n),
           NEW c \in Cmd, NEW m \in Node, NEW j \in Conn, NEW k \in Nat, InQueue(c, m, j, k)'
    PROVE  InQueue(c, m, j, k)
<1>1. CASE down' = down  BY <1>1 DEF InQueue
<1>2. CASE ws[n] \in Conn /\ down' = [down EXCEPT ![n][ws[n]] = <<>>]
  <2>1. down'[m][j] \in {down[m][j], <<>>}  BY <1>2 DEF TypeInv, TypeOK
  <2>2. Len(<<>>) = 0  OBVIOUS
  <2> QED  BY <2>1, <2>2 DEF InQueue
<1> QED  BY <1>1, <1>2 DEF Leave, TypeInv, TypeOK

LEMMA OnceStep ==
    ASSUME TypeInv, Once, [Next]_vars
    PROVE  Once'
<1> DEFINE QueueKept == \A c \in Cmd, n \in Node, i \in Conn : \A k \in Nat :
                           InQueue(c, n, i, k)' => InQueue(c, n, i, k)
<1>1. CallKeeps  BY CallSteps
<1>2. runs' = runs /\ QueueKept => Once'  BY <1>1, OnceFrame
<1>3. down' = down => QueueKept  BY DEF InQueue
<1> HIDE DEF QueueKept
<1>4. ASSUME NEW n \in Node, AgentNext(n)  PROVE Once'
  <2>1. CASE Connect(n) \/ SendHeartbeat(n) \/ Reply(n) \/ Start(n)
    BY <1>2, <1>3, <2>1 DEF Connect, Accept, SendHeartbeat, Reply, Start, netVars
  <2>2. CASE ReadOk(n) \/ ReadCommand(n)  BY <1>1, <2>2, OnceRead
  <2>3. CASE Drop(n) \/ Stop(n)
    <3>1. Leave(n) /\ runs' = runs  BY <2>3 DEF Drop, Stop, Leave
    <3>2. QueueKept  BY <3>1, LeaveFrame DEF QueueKept
    <3> QED  BY <1>2, <3>1, <3>2
  <2> QED  BY <1>4, <2>1, <2>2, <2>3 DEF AgentNext
<1>5. ASSUME NEW n \in Node, NEW i \in Conn, HandlerNext(n, i)  PROVE Once'
  <2>1. CASE ReceiveResult(n, i) \/ Stored(n, i)
    <3>1. SendDown(n, i, Ok) /\ runs' = runs  BY <2>1 DEF ReceiveResult, Stored, Ack
    <3>2. QueueKept  BY <3>1, AckFrame DEF QueueKept
    <3> QED  BY <1>2, <3>1, <3>2
  <2>2. CASE ReceiveHeartbeat(n, i) \/ RejectMismatch(n, i) \/ StoreFail(n, i) \/ Disconnect(n, i)
    BY <1>2, <1>3, <2>2 DEF ReceiveHeartbeat, RejectMismatch, StoreFail, Disconnect
  <2> QED  BY <1>5, <2>1, <2>2 DEF HandlerNext
<1>6. ASSUME NEW c \in Cmd, CallNext(c)  PROVE Once'
  <2>1. CASE Put(c)  BY <1>1, <2>1, OnceWrite
  <2>2. CASE (\E n \in Node : Issue(c, n)) \/ SendFail(c) \/ Return(c) \/ Timeout(c)
    BY <1>2, <1>3, <2>2 DEF Issue, SendFail, Return, Timeout, netVars
  <2> QED  BY <1>6, <2>1, <2>2 DEF CallNext
<1>7. CASE Restart  BY <1>2, <1>3, <1>7 DEF Restart
<1>8. CASE UNCHANGED vars  BY <1>2, <1>3, <1>8 DEF vars, netVars
<1> QED  BY <1>4, <1>5, <1>6, <1>7, <1>8 DEF Next

LEMMA OnceInit == Init => Once
<1> SUFFICES ASSUME Init PROVE Once  OBVIOUS
<1>1. \A n \in Node, i \in Conn : Len(down[n][i]) = 0  BY DEF Init
<1> QED  BY <1>1 DEF Init, Once, InQueue

\* However often a node reconnects and the hub is restarted, no command is
\* executed twice, and none on a node that its request did not name.
THEOREM CommandsRunAtMostOnce == Spec => []AtMostOnce
<1>1. TypeInv /\ Once /\ [Next]_vars => Once'  BY OnceStep
<1>2. Once => AtMostOnce  BY DEF Once, AtMostOnce
<1> QED  BY <1>1, <1>2, TypeInit, TypeStep, OnceInit, PTL DEF Spec

-----------------------------------------------------------------------------
(* Answers.  A result is on its way only if its command was started. *)

Sent(c) == \E n \in Node, i \in Conn : \E k \in 1 .. Len(up[n][i]) : up[n][i][k] = Result(c)

Justified ==
    /\ \A c \in Cmd : call[c].st \in {"resolved", "done"} => runs[c] # <<>>
    /\ \A n \in Node : job[n] \in Cmd => runs[job[n]] # <<>>
    /\ \A c \in Cmd : Sent(c) => runs[c] # <<>>

LEMMA RunsGrow ==
    ASSUME TypeInv, [Next]_vars, NEW c \in Cmd, runs[c] # <<>>
    PROVE  runs'[c] # <<>>
<1>1. CASE runs' = runs  BY <1>1
<1>2. ASSUME NEW n \in Node, ReadCommand(n)  PROVE runs'[c] # <<>>
  <2>1. runs[c] \in Seq(Node)  BY DEF TypeInv, TypeOK
  <2>2. Append(runs[c], n) # <<>>  BY <2>1, AppendNotEmpty
  <2>3. runs'[c] \in {runs[c], Append(runs[c], n)}
    BY <1>2 DEF ReadCommand, TypeInv, TypeOK
  <2> QED  BY <2>2, <2>3
<1>3. ASSUME NEW n \in Node, AgentNext(n)  PROVE ReadCommand(n) \/ runs' = runs
  BY <1>3 DEF AgentNext, Connect, Accept, SendHeartbeat, ReadOk, Reply, Drop, Stop, Leave, Start
<1>4. ASSUME NEW n \in Node, NEW i \in Conn, HandlerNext(n, i)  PROVE runs' = runs
  BY <1>4 DEF HandlerNext, ReceiveResult, ReceiveHeartbeat, RejectMismatch, Stored,
              StoreFail, Disconnect
<1>5. ASSUME NEW d \in Cmd, CallNext(d)  PROVE runs' = runs
  BY <1>5 DEF CallNext, Issue, Put, SendFail, Return, Timeout
<1>6. Restart \/ UNCHANGED vars => runs' = runs  BY DEF Restart, vars
<1> QED  BY <1>1, <1>2, <1>3, <1>4, <1>5, <1>6 DEF Next

LEMMA SendUpSent ==
    ASSUME TypeInv, NEW n \in Node, ws[n] # NoConn, NEW e \in UpMsg, SendUp(n, e),
           NEW c \in Cmd, Sent(c)'
    PROVE  Sent(c) \/ e = Result(c)
<1>1. PICK i \in Conn : i = ws[n]  BY DEF TypeInv, TypeOK
<1>2. PICK s \in Seq(UpMsg) : s = up[n][i]  BY DEF TypeInv, TypeOK
<1>3. PICK m \in Node, j \in Conn : \E k \in 1 .. Len(up'[m][j]) : up'[m][j][k] = Result(c)
  BY DEF Sent
<1>4. PICK k \in 1 .. Len(up'[m][j]) : up'[m][j][k] = Result(c)  BY <1>3
<1>5. CASE up'[m][j] = up[m][j]  BY <1>4, <1>5 DEF Sent
<1>6. CASE up'[m][j] # up[m][j]
  <2>1. m = n /\ j = i /\ up'[m][j] = Append(s, e)
    BY <1>1, <1>2, <1>6 DEF SendUp, TypeInv, TypeOK
  <2>2. Len(s) \in Nat /\ k \in 1 .. Len(s) + 1  BY <1>4, <2>1, AppendAt
  <2>3. CASE k = Len(s) + 1  BY <1>4, <2>1, <2>3, AppendAt
  <2>4. CASE k \in 1 .. Len(s)
    <3>1. s[k] = Result(c)  BY <1>4, <2>1, <2>4, AppendAt
    <3> QED  BY <1>2, <2>1, <2>4, <3>1 DEF Sent
  <2> QED  BY <2>2, <2>3, <2>4
<1> QED  BY <1>5, <1>6

\* Part of what was sent: a channel that is read, cut or emptied.
LEMMA LessSent ==
    ASSUME TypeInv, NEW c \in Cmd, Sent(c)',
           \A n \in Node, i \in Conn :
               \/ up'[n][i] \in {up[n][i], <<>>}
               \/ up[n][i] # <<>> /\ up'[n][i] = Tail(up[n][i])
               \/ \E k \in 0 .. Len(up[n][i]) : up'[n][i] = SubSeq(up[n][i], 1, k)
    PROVE  Sent(c)
<1>1. PICK n \in Node, i \in Conn : \E k \in 1 .. Len(up'[n][i]) : up'[n][i][k] = Result(c)
  BY DEF Sent
<1>2. PICK k \in 1 .. Len(up'[n][i]) : up'[n][i][k] = Result(c)  BY <1>1
<1>3. PICK s \in Seq(UpMsg) : s = up[n][i]  BY DEF TypeInv, TypeOK
<1>4. Len(s) \in Nat /\ Len(<<>>) = 0  OBVIOUS
<1>5. CASE up'[n][i] = up[n][i]  BY <1>2, <1>5 DEF Sent
<1>6. CASE up'[n][i] = <<>>  BY <1>2, <1>4, <1>6
<1>7. CASE s # <<>> /\ up'[n][i] = Tail(s)
  <2>1. k \in 1 .. Len(s) - 1 /\ Tail(s)[k] = s[k + 1]
    BY <1>2, <1>4, <1>7, TailAt
  <2>2. k + 1 \in 1 .. Len(s) /\ s[k + 1] = Result(c)  BY <1>2, <1>4, <1>7, <2>1
  <2> QED  BY <1>3, <2>2 DEF Sent
<1>8. ASSUME NEW l \in 0 .. Len(s), up'[n][i] = SubSeq(s, 1, l)  PROVE Sent(c)
  <2>1. Len(SubSeq(s, 1, l)) = l /\ \A j \in 1 .. l : SubSeq(s, 1, l)[j] = s[j]
    BY <1>4
  <2>2. k \in 1 .. Len(s) /\ s[k] = Result(c)  BY <1>2, <1>4, <1>8, <2>1
  <2> QED  BY <1>3, <2>2 DEF Sent
<1> QED  BY <1>3, <1>5, <1>6, <1>7, <1>8

LEMMA SentStep ==
    ASSUME TypeInv, Justified, [Next]_vars, NEW c \in Cmd, Sent(c)'
    PROVE  Sent(c) \/ runs[c] # <<>>
<1>1. CASE up' = up  BY <1>1 DEF Sent
<1>2. ASSUME NEW n \in Node, AgentNext(n)  PROVE Sent(c) \/ runs[c] # <<>>
  <2>1. CASE SendHeartbeat(n)
    <3>1. ws[n] # NoConn /\ SendUp(n, Heartbeat)  BY <2>1 DEF SendHeartbeat
    <3>2. Heartbeat \in UpMsg /\ Heartbeat # Result(c)
      BY MessageTypes DEF Heartbeat, Result
    <3> QED  BY <3>1, <3>2, SendUpSent
  <2>2. CASE Reply(n)
    <3>1. ws[n] # NoConn /\ job[n] \in Cmd /\ SendUp(n, Result(job[n]))
      BY <2>2 DEF Reply, TypeInv, TypeOK, Attached
    <3>2. Sent(c) \/ Result(job[n]) = Result(c)  BY <3>1, MessageTypes, SendUpSent
    <3>3. Result(job[n]) = Result(c) => job[n] = c  BY DEF Result
    <3> QED  BY <3>1, <3>2, <3>3 DEF Justified
  <2>3. CASE Drop(n) \/ Stop(n)
    <3>1. Leave(n)  BY <2>3 DEF Drop, Stop
    <3>2. CASE ws[n] = NoConn  BY <1>1, <3>1, <3>2 DEF Leave
    <3>3. CASE ws[n] # NoConn
      <4>1. PICK k \in 0 .. Len(up[n][ws[n]]) :
                up' = [up EXCEPT ![n][ws[n]] = SubSeq(@, 1, k)]
        BY <3>1, <3>3 DEF Leave
      <4>2. ws[n] \in Conn  BY <3>3 DEF TypeInv, TypeOK
      <4>3. \A m \in Node, i \in Conn :
                \/ up'[m][i] = up[m][i]
                \/ \E l \in 0 .. Len(up[m][i]) : up'[m][i] = SubSeq(up[m][i], 1, l)
        BY <4>1, <4>2 DEF TypeInv, TypeOK
      <4> QED  BY <4>3, LessSent
    <3> QED  BY <3>2, <3>3
  <2>4. CASE Connect(n) \/ ReadOk(n) \/ ReadCommand(n) \/ Start(n)
    BY <1>1, <2>4 DEF Connect, Accept, ReadOk, ReadCommand, Recv, Start, netVars
  <2> QED  BY <1>2, <2>1, <2>2, <2>3, <2>4 DEF AgentNext
<1>3. ASSUME NEW n \in Node, NEW i \in Conn, HandlerNext(n, i)  PROVE Sent(c)
  <2>1. CASE up' = [up EXCEPT ![n][i] = Tail(@)] /\ up[n][i] # <<>>
    <3>1. \A m \in Node, j \in Conn :
              \/ up'[m][j] = up[m][j]
              \/ up[m][j] # <<>> /\ up'[m][j] = Tail(up[m][j])
      BY <2>1 DEF TypeInv, TypeOK
    <3> QED  BY <3>1, LessSent
  <2>2. CASE up' = [up EXCEPT ![n][i] = <<>>]
    <3>1. \A m \in Node, j \in Conn : up'[m][j] \in {up[m][j], <<>>}
      BY <2>2 DEF TypeInv, TypeOK
    <3> QED  BY <3>1, LessSent
  <2>3. CASE Stored(n, i)
    <3>1. up' = up  BY <2>3 DEF Stored
    <3> QED  BY <3>1 DEF Sent
  <2> QED
    BY <1>3, <2>1, <2>2, <2>3
    DEF HandlerNext, ReceiveResult, ReceiveHeartbeat, RejectMismatch, StoreFail, Disconnect,
        Take, CloseHandler
<1>4. ASSUME NEW d \in Cmd, CallNext(d)  PROVE up' = up
  BY <1>4 DEF CallNext, Issue, Put, SendFail, Return, Timeout, netVars
<1>5. CASE Restart
  <2>1. \A n \in Node, i \in Conn : up'[n][i] \in {up[n][i], <<>>}  BY <1>5 DEF Restart
  <2> QED  BY <2>1, LessSent
<1>6. UNCHANGED vars => up' = up  BY DEF vars, netVars
<1> QED  BY <1>1, <1>2, <1>3, <1>4, <1>5, <1>6 DEF Next

LEMMA JobStep ==
    ASSUME TypeInv, Justified, [Next]_vars, NEW n \in Node, job'[n] \in Cmd
    PROVE  runs'[job'[n]] # <<>>
<1>1. CASE job'[n] = job[n]  BY <1>1, RunsGrow DEF Justified
<1>2. ASSUME NEW m \in Node, AgentNext(m), job'[n] # job[n]
      PROVE  runs'[job'[n]] # <<>>
  <2>1. CASE ReadCommand(m)
    <3>1. m = n /\ job'[n] = Received(n).cmd
      BY <1>2, <2>1 DEF ReadCommand, TypeInv, TypeOK
    <3>2. runs' = [runs EXCEPT ![job'[n]] = Append(@, n)]  BY <2>1, <3>1 DEF ReadCommand
    <3>3. runs[job'[n]] \in Seq(Node)  BY DEF TypeInv, TypeOK
    <3>4. runs'[job'[n]] = Append(runs[job'[n]], n)  BY <3>2 DEF TypeInv, TypeOK
    <3> QED  BY <3>3, <3>4, AppendNotEmpty
  <2>2. CASE Reply(m) \/ Drop(m) \/ Stop(m)
    <3>1. job' = [job EXCEPT ![m] = NoCmd]  BY <2>2 DEF Reply, Drop, Stop, Leave
    <3> QED  BY <1>2, <3>1 DEF TypeInv, TypeOK
  <2>3. CASE Connect(m) \/ SendHeartbeat(m) \/ ReadOk(m) \/ Start(m)
    BY <1>2, <2>3 DEF Connect, Accept, SendHeartbeat, ReadOk, Start
  <2> QED  BY <1>2, <2>1, <2>2, <2>3 DEF AgentNext
<1>3. ASSUME NEW m \in Node, NEW i \in Conn, HandlerNext(m, i)  PROVE job' = job
  BY <1>3 DEF HandlerNext, ReceiveResult, ReceiveHeartbeat, RejectMismatch, Stored,
              StoreFail, Disconnect, agentVars
<1>4. ASSUME NEW d \in Cmd, CallNext(d)  PROVE job' = job
  BY <1>4 DEF CallNext, Issue, Put, SendFail, Return, Timeout, agentVars
<1>5. Restart \/ UNCHANGED vars => job' = job  BY DEF Restart, vars, agentVars
<1> QED  BY <1>1, <1>2, <1>3, <1>4, <1>5 DEF Next

LEMMA ResolvedStep ==
    ASSUME TypeInv, Justified, [Next]_vars, NEW c \in Cmd,
           call'[c].st \in {"resolved", "done"}
    PROVE  runs'[c] # <<>>
<1>1. CASE call[c].st \in {"resolved", "done"}  BY <1>1, RunsGrow DEF Justified
<1>2. CASE call[c].st \notin {"resolved", "done"}
  <2>1. call'[c].st = "resolved" /\ call[c].st = "waiting"
    BY <1>2, CallSteps DEF CallKeeps
  <2>2. PICK n \in Node, i \in Conn : ReceiveResult(n, i)
    <3>1. call' # call  BY <2>1
    <3>2. ~UNCHANGED callVars  BY <3>1 DEF callVars
    <3>3. ASSUME NEW n \in Node  PROVE ~AgentNext(n)
      BY <3>2 DEF AgentNext, Connect, Accept, SendHeartbeat, ReadOk, ReadCommand, Recv, Reply, Drop,
                  Stop, Leave, Start
    <3>4. ASSUME NEW d \in Cmd  PROVE ~CallNext(d)
      <4>1. ASSUME NEW n \in Node, Issue(d, n)  PROVE FALSE
        <5>1. call[d].st = "idle" /\ d # c  BY <2>1, <4>1 DEF Issue
        <5> QED  BY <2>1, <4>1, <5>1 DEF Issue, TypeInv, TypeOK
      <4>2. ASSUME Put(d)  PROVE FALSE
        <5>1. call[d].st = "sending" /\ d # c  BY <2>1, <4>2 DEF Put
        <5> QED  BY <2>1, <4>2, <5>1 DEF Put, TypeInv, TypeOK
      <4>3. ASSUME SendFail(d) \/ Return(d) \/ Timeout(d)  PROVE FALSE
        <5>1. PICK st \in {"failed", "done", "timeout"} : call' = [call EXCEPT ![d].st = st]
          BY <4>3 DEF SendFail, Return, Timeout, EndCall
        <5> QED  BY <2>1, <5>1 DEF TypeInv, TypeOK, Call
      <4> QED  BY <4>1, <4>2, <4>3 DEF CallNext
    <3>5. ~Restart
      <4>1. ASSUME Restart  PROVE FALSE
        <5>1. call'[c] \in {call[c], [call[c] EXCEPT !.st = "crashed"]}  BY <4>1 DEF Restart
        <5> QED  BY <2>1, <5>1 DEF TypeInv, TypeOK, Call
      <4> QED  BY <4>1
    <3>6. ASSUME NEW n \in Node, NEW i \in Conn, HandlerNext(n, i)
          PROVE  ReceiveResult(n, i)
      BY <3>2, <3>6 DEF HandlerNext, ReceiveHeartbeat, RejectMismatch, Stored, StoreFail,
                        Disconnect
    <3> QED  BY <3>2, <3>3, <3>4, <3>5, <3>6 DEF Next, vars
  <2>3. up[n][i] \in Seq(UpMsg) /\ up[n][i] # <<>>
    BY <2>2 DEF ReceiveResult, Take, TypeInv, TypeOK
  <2>4. Head(up[n][i]).cmd = c
    BY <2>1, <2>2 DEF ReceiveResult, Deliver, TypeInv, TypeOK
  <2>5. Head(up[n][i]) = Result(c)
    BY <2>2, <2>4, TakeUpType, MessageTypes DEF ReceiveResult, Take, TypeInv
  <2>6. up[n][i][1] = Result(c) /\ 1 \in 1 .. Len(up[n][i])  BY <2>3, <2>5
  <2>7. Sent(c)  BY <2>6 DEF Sent
  <2> QED  BY <2>7, RunsGrow DEF Justified
<1> QED  BY <1>1, <1>2

LEMMA JustifiedStep ==
    ASSUME TypeInv, Justified, [Next]_vars
    PROVE  Justified'
<1>1. \A c \in Cmd : Sent(c)' => runs'[c] # <<>>
  BY SentStep, RunsGrow DEF Justified
<1> QED  BY <1>1, JobStep, ResolvedStep DEF Justified

LEMMA JustifiedInit == Init => Justified
<1> SUFFICES ASSUME Init PROVE Justified  OBVIOUS
<1>1. \A n \in Node, i \in Conn : Len(up[n][i]) = 0  BY DEF Init
<1> QED  BY <1>1 DEF Init, Justified, Sent

\* A client that gets a result talks of a command that was executed, and one
\* that is told there is no connection, or that the send failed, of one that
\* was not.
THEOREM AnswersCorrect == Spec => []AnswersAreTrue
<1>1. TypeInv /\ Justified /\ [Next]_vars => Justified'  BY JustifiedStep
<1>2. TypeInv /\ Once /\ [Next]_vars => Once'  BY OnceStep
<1>3. Justified /\ Once => AnswersAreTrue  BY DEF Justified, Once, AnswersAreTrue, Unsent
<1> QED
  BY <1>1, <1>2, <1>3, TypeInit, TypeStep, OnceInit, JustifiedInit, PTL DEF Spec

-----------------------------------------------------------------------------
(* The abstract command service *)

Outcomes == [c \in Cmd |-> Outcome(c)]
Targets == [c \in Cmd |-> call[c].node]
View == <<Outcomes, Targets, runs>>

LEMMA OutcomeValues ==
    ASSUME NEW c \in Cmd
    PROVE  /\ call[c].st = "idle" => Outcome(c) = "new"
           /\ call[c].st \in InFlight => Outcome(c) = "open"
           /\ call[c].st = "done" => Outcome(c) = "done"
           /\ call[c].st \in {"noconn", "failed"} => Outcome(c) = "refused"
           /\ call[c].st \in {"timeout", "crashed"} => Outcome(c) = "unknown"
BY DEF Outcome, InFlight

\* Nothing but the state of a call and its node is seen of it.
LEMMA SameView ==
    ASSUME runs' = runs,
           \A c \in Cmd : /\ call'[c].node = call[c].node
                          /\ \/ call'[c].st = call[c].st
                             \/ call[c].st \in InFlight /\ call'[c].st \in InFlight
    PROVE  View' = View
<1>1. \A c \in Cmd : Outcome(c)' = Outcome(c)  BY DEF Outcome, InFlight
<1> QED  BY <1>1 DEF View, Outcomes, Targets

LEMMA OtherOutcomes ==
    ASSUME NEW c \in Cmd, NEW o, Outcome(c)' = o, \A d \in Cmd \ {c} : call'[d] = call[d]
    PROVE  Outcomes' = [Outcomes EXCEPT ![c] = o]
<1>1. \A d \in Cmd \ {c} : Outcome(d)' = Outcome(d)  BY DEF Outcome
<1> QED  BY <1>1 DEF Outcomes

LEMMA ReadExecutes ==
    ASSUME TypeInv, Once', Justified, NEW n \in Node, ReadCommand(n)
    PROVE  Service!Next
<1> DEFINE c == Received(n).cmd
<1>1. ws[n] \in Conn  BY DEF ReadCommand, Recv, TypeInv, TypeOK, Attached
<1>2. c \in Cmd  BY <1>1, RecvType, MessageTypes DEF ReadCommand, TypeInv
<1>3. runs' = [runs EXCEPT ![c] = Append(@, n)] /\ UNCHANGED callVars
  BY DEF ReadCommand, Recv
<1>4. runs[c] \in Seq(Node) /\ runs'[c] = Append(runs[c], n)
  BY <1>2, <1>3 DEF TypeInv, TypeOK
<1>5. runs'[c] = <<call[c].node>> /\ call[c].st \notin Unsent
  BY <1>2, <1>3, <1>4, AppendNotEmpty DEF Once, callVars
<1>6. runs[c] = <<>> /\ runs'[c] = <<Targets[c]>>
  <2>1. Len(Append(runs[c], n)) = Len(runs[c]) + 1 /\ Len(runs[c]) \in Nat  BY <1>4
  <2>2. Len(runs[c]) = 0  BY <1>4, <1>5, <2>1
  <2> QED  BY <1>2, <1>4, <1>5, <2>2 DEF Targets
<1>7. call[c].st \in InFlight \cup {"timeout", "crashed"}
  <2>1. call[c].st \in {"idle"} \cup InFlight \cup Ended  BY <1>2, CallTypes DEF TypeInv
  <2>2. call[c].st \notin {"resolved", "done"}  BY <1>2, <1>6 DEF Justified
  <2> QED  BY <1>5, <2>1, <2>2 DEF Unsent, Ended
<1>8. Outcomes[c] \in {"open", "unknown"}  BY <1>2, <1>7, OutcomeValues DEF Outcomes
<1>9. Outcomes' = Outcomes /\ Targets' = Targets
  BY <1>3 DEF Outcomes, Targets, Outcome, callVars
<1>10. runs' = [runs EXCEPT ![c] = <<Targets[c]>>]
  BY <1>2, <1>3, <1>6 DEF TypeInv, TypeOK
<1>11. Service!Execute(c)
  BY <1>6, <1>8, <1>9, <1>10 DEF Service!Execute, Outcomes, Targets
<1> QED  BY <1>2, <1>11 DEF Service!Next

LEMMA IssueAsks ==
    ASSUME TypeInv, NEW c \in Cmd, NEW n \in Node, Issue(c, n)
    PROVE  Service!Next
<1>0. call \in [Cmd -> Call]  BY DEF TypeInv, TypeOK
<1>1. PICK st \in {"noconn", "sending"}, i \in Conn \cup {NoConn} :
          call' = [call EXCEPT ![c] = [st |-> st, node |-> n, conn |-> i]]
  <2>1. connections[n] \in Conn \cup {NoConn}  BY DEF TypeInv, TypeOK
  <2>2. CASE connections[n] = NoConn  BY <2>2 DEF Issue
  <2>3. CASE connections[n] # NoConn  BY <2>1, <2>3 DEF Issue
  <2> QED  BY <2>2, <2>3
<1>2. call[c].st = "idle" /\ runs' = runs  BY DEF Issue
<1>3. call'[c].st = st /\ call'[c].node = n /\ \A d \in Cmd \ {c} : call'[d] = call[d]
  BY <1>0, <1>1
<1>4. Outcomes[c] = "new"  BY <1>2, OutcomeValues DEF Outcomes
<1>5. PICK o \in {"open", "refused"} : Outcome(c)' = o
  BY <1>3 DEF Outcome, InFlight
<1>6. Outcomes' = [Outcomes EXCEPT ![c] = o]  BY <1>3, <1>5, OtherOutcomes
<1>7. Targets' = [Targets EXCEPT ![c] = n]  BY <1>3 DEF Targets
<1>8. Service!Ask(c, n)
  BY <1>2, <1>4, <1>6, <1>7 DEF Service!Ask, Outcomes, Targets
<1> QED  BY <1>8 DEF Service!Next

\* send_command's exits after the lookup.
LEMMA CallEnds ==
    ASSUME TypeInv, Once, Justified, NEW c \in Cmd, SendFail(c) \/ Return(c) \/ Timeout(c)
    PROVE  Service!Next
<1>0. call \in [Cmd -> Call]  BY DEF TypeInv, TypeOK
<1>1. PICK st \in {"failed", "done", "timeout"} :
          /\ call' = [call EXCEPT ![c].st = st]
          /\ runs' = runs
          /\ call[c].st \in InFlight
          /\ st = "failed" => call[c].st = "sending"
          /\ st = "done" => call[c].st = "resolved"
  BY DEF SendFail, Return, Timeout, EndCall, InFlight
<1>2. /\ call'[c].st = st /\ call'[c].node = call[c].node
      /\ \A d \in Cmd \ {c} : call'[d] = call[d]
  BY <1>0, <1>1 DEF Call
<1>3. Outcomes[c] = "open"  BY <1>1, OutcomeValues DEF Outcomes
<1>4. Targets' = Targets  BY <1>2 DEF Targets
<1>5. Outcomes' = [Outcomes EXCEPT ![c] = Outcome(c)']  BY <1>2, OtherOutcomes
<1>6. CASE st = "failed"
  <2>1. Outcome(c)' = "refused" /\ runs[c] = <<>>
    BY <1>1, <1>2, <1>6 DEF Outcome, InFlight, Once, Unsent
  <2>2. Service!Refuse(c)
    BY <1>1, <1>3, <1>4, <1>5, <2>1 DEF Service!Refuse, Outcomes, Targets
  <2> QED  BY <2>2 DEF Service!Next
<1>7. CASE st = "done"
  <2>1. Outcome(c)' = "done" /\ runs[c] # <<>>
    BY <1>1, <1>2, <1>7 DEF Outcome, InFlight, Justified
  <2>2. Service!Answer(c)
    BY <1>1, <1>3, <1>4, <1>5, <2>1 DEF Service!Answer, Outcomes, Targets
  <2> QED  BY <2>2 DEF Service!Next
<1>8. CASE st = "timeout"
  <2>1. Outcome(c)' = "unknown"  BY <1>2, <1>8 DEF Outcome, InFlight
  <2>2. Outcomes' = [d \in Cmd |-> IF d \in {c} THEN "unknown" ELSE Outcomes[d]]
    BY <1>5, <2>1 DEF Outcomes
  <2>3. Service!GiveUp({c})
    BY <1>1, <1>3, <1>4, <2>2 DEF Service!GiveUp, Outcomes, Targets
  <2> QED  BY <2>3 DEF Service!Next
<1> QED  BY <1>6, <1>7, <1>8

LEMMA RestartGivesUp ==
    ASSUME TypeInv, Restart
    PROVE  Service!Next
<1> DEFINE C == {c \in Cmd : call[c].st \in InFlight}
<1>0. call \in [Cmd -> Call]  BY DEF TypeInv, TypeOK
<1>1. runs' = runs /\ call' = [c \in Cmd |-> IF c \in C THEN [call[c] EXCEPT !.st = "crashed"]
                                             ELSE call[c]]
  BY DEF Restart
<1>2. \A c \in Cmd : /\ call'[c].node = call[c].node
                     /\ c \in C => call'[c].st = "crashed"
                     /\ c \notin C => call'[c].st = call[c].st
  BY <1>0, <1>1 DEF Call
<1>3. \A c \in C : Outcomes[c] = "open"  BY OutcomeValues DEF Outcomes
<1>4. \A c \in Cmd : Outcome(c)' = IF c \in C THEN "unknown" ELSE Outcomes[c]
  BY <1>2 DEF Outcomes, Outcome, InFlight
<1>5. Outcomes' = [c \in Cmd |-> IF c \in C THEN "unknown" ELSE Outcomes[c]]
  BY <1>4 DEF Outcomes
<1>6. Targets' = Targets  BY <1>2 DEF Targets
<1>7. Service!GiveUp(C)
  BY <1>1, <1>3, <1>5, <1>6 DEF Service!GiveUp, Outcomes, Targets
<1>8. C \in SUBSET Cmd  OBVIOUS
<1> HIDE DEF C
<1> QED  BY <1>7, <1>8 DEF Service!Next

LEMMA ServiceStep ==
    ASSUME TypeInv, Once, Once', Justified, [Next]_vars
    PROVE  Service!Next \/ View' = View
<1>0. call \in [Cmd -> Call]  BY DEF TypeInv, TypeOK
<1>1. UNCHANGED <<callVars, runs>> => View' = View  BY SameView DEF callVars
<1>2. ASSUME NEW n \in Node, AgentNext(n)  PROVE Service!Next \/ View' = View
  <2>1. CASE ReadCommand(n)  BY <2>1, ReadExecutes
  <2>2. CASE ~ReadCommand(n)
    BY <1>1, <1>2, <2>2 DEF AgentNext, Connect, Accept, SendHeartbeat, ReadOk, Recv, Reply, Drop,
                            Stop, Leave, Start
  <2> QED  BY <2>1, <2>2
<1>3. ASSUME NEW n \in Node, NEW i \in Conn, HandlerNext(n, i)  PROVE View' = View
  <2>1. CASE ReceiveResult(n, i)
    <3>1. \A c \in Cmd : \/ call'[c] = call[c]
                         \/ /\ call[c].st = "waiting"
                            /\ call'[c] = [call[c] EXCEPT !.st = "resolved"]
      BY <1>0, <2>1 DEF ReceiveResult, Deliver
    <3>2. \A c \in Cmd : /\ [call[c] EXCEPT !.st = "resolved"].st = "resolved"
                         /\ [call[c] EXCEPT !.st = "resolved"].node = call[c].node
      BY <1>0 DEF Call
    <3>3. runs' = runs  BY <2>1 DEF ReceiveResult
    <3> QED  BY <3>1, <3>2, <3>3, SameView DEF InFlight
  <2>2. CASE ~ReceiveResult(n, i)
    BY <1>1, <1>3, <2>2 DEF HandlerNext, ReceiveHeartbeat, RejectMismatch, Stored, StoreFail,
                            Disconnect
  <2> QED  BY <2>1, <2>2
<1>4. ASSUME NEW c \in Cmd, CallNext(c)  PROVE Service!Next \/ View' = View
  <2>1. CASE Put(c)
    <3>1. call[c].st = "sending" /\ call' = [call EXCEPT ![c].st = "waiting"] /\ runs' = runs
      BY <2>1 DEF Put
    <3>2. \A d \in Cmd : /\ call'[d].node = call[d].node
                         /\ \/ call'[d].st = call[d].st
                            \/ d = c /\ call'[d].st = "waiting"
      BY <1>0, <3>1 DEF Call
    <3> QED  BY <3>1, <3>2, SameView DEF InFlight
  <2>2. CASE ~Put(c)  BY <1>4, <2>2, IssueAsks, CallEnds DEF CallNext
  <2> QED  BY <2>1, <2>2
<1>5. CASE Restart  BY <1>5, RestartGivesUp
<1>6. CASE UNCHANGED vars  BY <1>1, <1>6 DEF vars
<1> QED  BY <1>2, <1>3, <1>4, <1>5, <1>6 DEF Next

\* Session implements CommandService: a client of POST /api/mesh/run sees of the
\* relay, the handlers and the agents no more than a request that is executed once
\* or never and ends with an answer that agrees (executor.py:59-122).
THEOREM CommandPathIsAService == Spec => ImplementsService
<1>1. Init => Service!Init
  <2> SUFFICES ASSUME Init PROVE Service!Init  OBVIOUS
  <2>1. \A c \in Cmd : Outcome(c) = "new" /\ call[c].node = NoNode
    BY OutcomeValues DEF Init
  <2> QED  BY <2>1 DEF Init, Service!Init
<1>2. TypeInv /\ Once /\ Once' /\ Justified /\ [Next]_vars
        => [Service!Next]_(Service!vars)
  BY ServiceStep DEF Service!vars, View, Outcomes, Targets
<1>3. TypeInv /\ Justified /\ [Next]_vars => Justified'  BY JustifiedStep
<1>4. TypeInv /\ Once /\ [Next]_vars => Once'  BY OnceStep
<1> QED
  BY <1>1, <1>2, <1>3, <1>4, TypeInit, TypeStep, OnceInit, JustifiedInit, PTL
  DEF Spec, ImplementsService, Service!Spec

-----------------------------------------------------------------------------
(* How far an agent lags behind the hub: the length of the queues            *)

WrittenState == {"waiting", "resolved", "done", "timeout"}

\* A connection is not used before it is made, and is closed for good.
Made ==
    /\ \A n \in Node : ws[n] <= epoch[n]
    /\ \A n \in Node, i \in Conn : i > epoch[n] =>
          up[n][i] = <<>> /\ down[n][i] = <<>> /\ handler[n][i] = "none"

Assigned == \A c \in Cmd, n \in Node : call[c].node = n => call[c].conn <= epoch[n]

Crashed ==
    \A c \in Cmd, n \in Node, i \in Conn :
        call[c].st = "crashed" /\ call[c].node = n /\ call[c].conn = i => ~Open(n, i)

\* A command that runs was written to the connection that its agent uses.
Jobs ==
    /\ \A n \in Node : pc[n] # "running" => job[n] = NoCmd
    /\ \A n \in Node, c \in Cmd : job[n] = c =>
          /\ runs[c] # <<>>
          /\ call[c].node = n /\ call[c].conn = ws[n]
          /\ call[c].st \notin Unsent

Places == Made /\ Assigned /\ Crashed /\ Jobs

\* What a step other than Restart does to a call.
CallMoves(c) ==
    \/ call'[c] = call[c]
    \/ /\ call'[c].node = call[c].node /\ call'[c].conn = call[c].conn
       /\ \/ call[c].st \in WrittenState /\ call'[c].st \in WrittenState
          \/ call[c].st = "sending" /\ call'[c].st = "failed"
          \/ Put(c) /\ call[c].st = "sending" /\ call'[c].st = "waiting"
    \/ /\ call[c].st = "idle" /\ call'[c].st \in {"noconn", "sending"}
       /\ \E n \in Node : call'[c].node = n /\ call'[c].conn = connections[n]

LEMMA CallMovesOrRestarts ==
    ASSUME TypeInv, [Next]_vars, ~Restart, NEW c \in Cmd
    PROVE  CallMoves(c)
<1>0. call \in [Cmd -> Call]  BY DEF TypeInv, TypeOK
<1>1. CASE UNCHANGED callVars  BY <1>1 DEF callVars, CallMoves
<1>2. ASSUME NEW n \in Node, NEW i \in Conn, ReceiveResult(n, i)
      PROVE  CallMoves(c)
  <2>1. \/ call'[c] = call[c]
        \/ call[c].st = "waiting" /\ call'[c] = [call[c] EXCEPT !.st = "resolved"]
    BY <1>0, <1>2 DEF ReceiveResult, Deliver
  <2>2. /\ [call[c] EXCEPT !.st = "resolved"].st = "resolved"
        /\ [call[c] EXCEPT !.st = "resolved"].node = call[c].node
        /\ [call[c] EXCEPT !.st = "resolved"].conn = call[c].conn
    BY <1>0 DEF Call
  <2> QED  BY <2>1, <2>2 DEF CallMoves, WrittenState
<1>3. ASSUME NEW d \in Cmd, NEW n \in Node, Issue(d, n)
      PROVE  CallMoves(c)
  <2>1. PICK st \in {"noconn", "sending"} :
            call' = [call EXCEPT ![d] = [st |-> st, node |-> n, conn |-> connections[n]]]
    BY <1>3 DEF Issue
  <2>2. call[d].st = "idle"  BY <1>3 DEF Issue
  <2>3. CASE c = d
    <3>1. call'[c] = [st |-> st, node |-> n, conn |-> connections[n]]  BY <1>0, <2>1, <2>3
    <3> QED  BY <2>2, <2>3, <3>1 DEF CallMoves
  <2>4. CASE c # d  BY <1>0, <2>1, <2>4 DEF CallMoves
  <2> QED  BY <2>3, <2>4
<1>4. ASSUME NEW d \in Cmd, Put(d)
      PROVE  CallMoves(c)
  <2>1. call' = [call EXCEPT ![d].st = "waiting"] /\ call[d].st = "sending"
    BY <1>4 DEF Put
  <2>2. CASE c = d
    <3>1. /\ call'[c].st = "waiting"
          /\ call'[c].node = call[c].node /\ call'[c].conn = call[c].conn
      BY <1>0, <2>1, <2>2 DEF Call
    <3> QED  BY <1>4, <2>1, <2>2, <3>1 DEF CallMoves
  <2>3. CASE c # d  BY <1>0, <2>1, <2>3 DEF CallMoves
  <2> QED  BY <2>2, <2>3
<1>5. ASSUME NEW d \in Cmd, SendFail(d) \/ Return(d) \/ Timeout(d)
      PROVE  CallMoves(c)
  <2>1. PICK st \in {"failed", "done", "timeout"} :
            /\ call' = [call EXCEPT ![d].st = st]
            /\ \/ st = "failed" /\ call[d].st = "sending"
               \/ st \in WrittenState /\ call[d].st \in WrittenState
    BY <1>5 DEF SendFail, Return, Timeout, EndCall, WrittenState
  <2>2. CASE c = d
    <3>1. /\ call'[c].st = st
          /\ call'[c].node = call[c].node /\ call'[c].conn = call[c].conn
      BY <1>0, <2>1, <2>2 DEF Call
    <3> QED  BY <2>1, <2>2, <3>1 DEF CallMoves
  <2>3. CASE c # d  BY <1>0, <2>1, <2>3 DEF CallMoves
  <2> QED  BY <2>2, <2>3
<1>7. ASSUME NEW n \in Node, AgentNext(n)
      PROVE  UNCHANGED callVars
  BY <1>7 DEF AgentNext, Connect, Accept, SendHeartbeat, ReadOk, ReadCommand, Recv, Reply, Drop,
              Stop, Leave, Start
<1>8. ASSUME NEW n \in Node, NEW i \in Conn, HandlerNext(n, i)
      PROVE  ReceiveResult(n, i) \/ UNCHANGED callVars
  BY <1>8 DEF HandlerNext, ReceiveHeartbeat, RejectMismatch, Stored, StoreFail, Disconnect
<1>9. UNCHANGED vars => UNCHANGED callVars  BY DEF vars
<1> QED
  BY <1>1, <1>2, <1>3, <1>4, <1>5, <1>7, <1>8, <1>9 DEF Next, CallNext

LEMMA RestartMoves ==
    ASSUME TypeInv, Restart, NEW c \in Cmd
    PROVE  call'[c].node = call[c].node /\ call'[c].conn = call[c].conn
<1>1. /\ [call[c] EXCEPT !.st = "crashed"].node = call[c].node
      /\ [call[c] EXCEPT !.st = "crashed"].conn = call[c].conn
  BY DEF TypeInv, TypeOK, Call
<1> QED  BY <1>1 DEF Restart

-----------------------------------------------------------------------------
LEMMA EpochIsNat ==
    ASSUME TypeInv
    PROVE  \A n \in Node : epoch[n] \in Nat /\ ws[n] \in Nat
<1>1. epoch \in [Node -> Conn \cup {NoConn}] /\ ws \in [Node -> Conn \cup {NoConn}]
  BY DEF TypeInv, TypeOK
<1>2. Conn \cup {NoConn} \subseteq Nat  BY NoConnApart DEF NoConn
<1> QED  BY <1>1, <1>2

LEMMA EpochGrows ==
    ASSUME TypeInv, [Next]_vars
    PROVE  \A n \in Node : /\ epoch[n] \in Nat /\ epoch'[n] \in Nat /\ ws[n] \in Nat
                           /\ epoch[n] <= epoch'[n]
<1>1. \A n \in Node : epoch[n] \in Nat /\ ws[n] \in Nat  BY EpochIsNat
<1>2. ASSUME NEW n \in Node, AgentNext(n), ~Connect(n)  PROVE epoch' = epoch
  BY <1>2 DEF AgentNext, SendHeartbeat, ReadOk, ReadCommand, Recv, Reply, Drop,
              Stop, Leave, Start, netVars
<1>3. ASSUME NEW n \in Node, Connect(n)  PROVE epoch' = [epoch EXCEPT ![n] = @ + 1]
  BY <1>3 DEF Connect
<1>4. ASSUME NEW n \in Node, NEW i \in Conn, HandlerNext(n, i)  PROVE epoch' = epoch
  BY <1>4 DEF HandlerNext, ReceiveResult, ReceiveHeartbeat, RejectMismatch, Stored,
              StoreFail, Disconnect
<1>5. ASSUME NEW c \in Cmd, CallNext(c)  PROVE epoch' = epoch
  BY <1>5 DEF CallNext, Issue, Put, SendFail, Return, Timeout, netVars
<1>6. Restart \/ UNCHANGED vars => epoch' = epoch  BY DEF Restart, vars, netVars
<1>7. CASE epoch' = epoch  BY <1>1, <1>7
<1>8. ASSUME NEW n \in Node, Connect(n)
      PROVE  \A m \in Node : epoch'[m] \in Nat /\ epoch[m] <= epoch'[m]
  <2>1. epoch \in [Node -> Conn \cup {NoConn}]  BY DEF TypeInv, TypeOK
  <2> QED  BY <1>1, <1>3, <1>8, <2>1
<1> QED  BY <1>1, <1>2, <1>4, <1>5, <1>6, <1>7, <1>8 DEF Next

LEMMA AssignedStep ==
    ASSUME TypeInv, [Next]_vars, Assigned
    PROVE  Assigned'
<1>1. SUFFICES ASSUME NEW c \in Cmd, NEW n \in Node, call'[c].node = n
               PROVE  call'[c].conn <= epoch'[n]
  BY DEF Assigned
<1>2. epoch[n] \in Nat /\ epoch'[n] \in Nat /\ epoch[n] <= epoch'[n]  BY EpochGrows
<1>3. CASE call'[c].node = call[c].node /\ call'[c].conn = call[c].conn
  <2>1. call[c].conn <= epoch[n]  BY <1>1, <1>3 DEF Assigned
  <2>2. call[c].conn \in Nat  BY CallTypes, NoConnApart DEF TypeInv, NoConn
  <2> QED  BY <1>2, <1>3, <2>1, <2>2
<1>4. CASE \E m \in Node : call'[c].node = m /\ call'[c].conn = connections[m]
  <2>1. call'[c].conn = connections[n]  BY <1>1, <1>4
  <2>2. connections[n] \in {NoConn, epoch[n]}  BY DEF TypeInv, Attached
  <2> QED  BY <1>2, <2>1, <2>2 DEF NoConn
<1> QED  BY <1>3, <1>4, CallMovesOrRestarts, RestartMoves DEF CallMoves

\* A step changes the channels and the handler of one connection at most, one that
\* was made before (Changes), if it does not make one or restart the hub.
Changes(n, i) ==
    \A m \in Node, j \in Conn : ~(m = n /\ j = i) =>
        up'[m][j] = up[m][j] /\ down'[m][j] = down[m][j] /\ handler'[m][j] = handler[m][j]

Still == UNCHANGED <<up, down, handler>>

LEMMA OpenIsMade ==
    ASSUME TypeInv, Made, NEW n \in Node, NEW i \in Conn, handler[n][i] # "none"
    PROVE  i <= epoch[n]
<1>1. i \in Nat /\ epoch[n] \in Nat  BY EpochIsNat, NoConnApart
<1> QED  BY <1>1 DEF Made

LEMMA AgentChanges ==
    ASSUME TypeInv, NEW n \in Node, AgentNext(n), ~Connect(n)
    PROVE  /\ epoch' = epoch
           /\ ws' \in {ws, [ws EXCEPT ![n] = NoConn]}
           /\ Still \/ (ws[n] \in Conn /\ Changes(n, ws[n]))
<1>0. ws[n] # NoConn => ws[n] \in Conn  BY DEF TypeInv, TypeOK
<1>1. CASE SendHeartbeat(n) \/ Reply(n)
  <2>1. ws[n] \in Conn  BY <1>0, <1>1 DEF SendHeartbeat, Reply, TypeInv, Attached
  <2>2. \/ up' = up
        \/ \E s : up' = [up EXCEPT ![n][ws[n]] = s]
    BY <1>1 DEF SendHeartbeat, Reply, SendUp
  <2>3. UNCHANGED <<epoch, ws, down, handler>>
    BY <1>1 DEF SendHeartbeat, Reply, hubVars
  <2>4. up \in [Node -> [Conn -> Seq(UpMsg)]]  BY DEF TypeInv, TypeOK
  <2> QED  BY <2>1, <2>2, <2>3, <2>4 DEF Changes
<1>2. CASE ReadOk(n) \/ ReadCommand(n)
  <2>1. ws[n] \in Conn  BY <1>0, <1>2 DEF ReadOk, ReadCommand, Recv, TypeInv, Attached
  <2>2. \E s : down' = [down EXCEPT ![n][ws[n]] = s]
    BY <1>2 DEF ReadOk, ReadCommand, Recv
  <2>3. UNCHANGED <<epoch, ws, up, handler>>
    BY <1>2 DEF ReadOk, ReadCommand, Recv, hubVars
  <2>4. down \in [Node -> [Conn -> Seq(DownMsg)]]  BY DEF TypeInv, TypeOK
  <2> QED  BY <2>1, <2>2, <2>3, <2>4 DEF Changes
<1>3. CASE Drop(n) \/ Stop(n)
  <2>1. Leave(n)  BY <1>3 DEF Drop, Stop
  <2>2. epoch' = epoch /\ handler' = handler /\ ws' = [ws EXCEPT ![n] = NoConn]
    BY <2>1 DEF Leave, hubVars
  <2>3. CASE ws[n] = NoConn  BY <2>1, <2>2, <2>3 DEF Leave, Still
  <2>4. CASE ws[n] # NoConn
    <3>1. ws[n] \in Conn  BY <1>0, <2>4
    <3>2. /\ \E s : up' = [up EXCEPT ![n][ws[n]] = s]
          /\ \E s : down' = [down EXCEPT ![n][ws[n]] = s]
      BY <2>1, <2>4 DEF Leave
    <3>3. /\ up \in [Node -> [Conn -> Seq(UpMsg)]]
          /\ down \in [Node -> [Conn -> Seq(DownMsg)]]
      BY DEF TypeInv, TypeOK
    <3> QED  BY <2>2, <3>1, <3>2, <3>3 DEF Changes
  <2> QED  BY <2>3, <2>4
<1>4. CASE Start(n)
  BY <1>4 DEF Start, netVars, hubVars, Still
<1> QED  BY <1>1, <1>2, <1>3, <1>4 DEF AgentNext

LEMMA HandlerChanges ==
    ASSUME TypeInv, NEW n \in Node, NEW i \in Conn, HandlerNext(n, i)
    PROVE  /\ UNCHANGED <<epoch, ws>>
           /\ Open(n, i)
           /\ Changes(n, i)
<1>0. /\ up \in [Node -> [Conn -> Seq(UpMsg)]]
      /\ down \in [Node -> [Conn -> Seq(DownMsg)]]
      /\ handler \in [Node -> [Conn -> HandlerState]]
  BY DEF TypeInv, TypeOK
<1>1. UNCHANGED <<epoch, ws>> /\ Open(n, i)
  BY DEF HandlerNext, ReceiveResult, ReceiveHeartbeat, RejectMismatch, Stored, StoreFail,
         Disconnect, Take, Open, agentVars
<1>2. /\ up' = up \/ \E s : up' = [up EXCEPT ![n][i] = s]
      /\ down' = down \/ \E s : down' = [down EXCEPT ![n][i] = s]
      /\ handler' = handler \/ \E s : handler' = [handler EXCEPT ![n][i] = s]
  <2>1. CASE ReceiveResult(n, i)
    BY <2>1 DEF ReceiveResult, Ack, SendDown, hubVars
  <2>2. CASE ReceiveHeartbeat(n, i)
    BY <2>2 DEF ReceiveHeartbeat
  <2>3. CASE RejectMismatch(n, i) \/ StoreFail(n, i) \/ Disconnect(n, i)
    BY <2>3 DEF RejectMismatch, StoreFail, Disconnect, CloseHandler
  <2>4. CASE Stored(n, i)
    BY <2>4 DEF Stored, Ack, SendDown
  <2> QED  BY <2>1, <2>2, <2>3, <2>4 DEF HandlerNext
<1>3. Changes(n, i)
  <2> SUFFICES ASSUME NEW m \in Node, NEW j \in Conn, ~(m = n /\ j = i)
               PROVE  /\ up'[m][j] = up[m][j] /\ down'[m][j] = down[m][j]
                      /\ handler'[m][j] = handler[m][j]
    BY DEF Changes
  <2>1. up'[m][j] = up[m][j]  BY <1>0, <1>2
  <2>2. down'[m][j] = down[m][j]  BY <1>0, <1>2
  <2>3. handler'[m][j] = handler[m][j]  BY <1>0, <1>2
  <2> QED  BY <2>1, <2>2, <2>3
<1> QED  BY <1>1, <1>3

LEMMA CallChanges ==
    ASSUME TypeInv, NEW c \in Cmd, CallNext(c)
    PROVE  /\ UNCHANGED <<epoch, ws, pc, job, runs>>
           /\ \/ Still
              \/ Put(c) /\ \E n \in Node, i \in Conn : /\ n = call[c].node /\ i = call[c].conn
                                                       /\ Open(n, i) /\ Changes(n, i)
<1>1. UNCHANGED <<epoch, ws, pc, job, runs>>
  BY DEF CallNext, Issue, Put, SendFail, Return, Timeout, agentVars, netVars
<1>2. CASE ~Put(c)
  <2>1. CASE (\E n \in Node : Issue(c, n)) \/ SendFail(c) \/ Return(c) \/ Timeout(c)
    <3>1. UNCHANGED <<netVars, hubVars>>  BY <2>1 DEF Issue, SendFail, Return, Timeout
    <3> QED  BY <1>1, <3>1 DEF Still, netVars, hubVars
  <2> QED  BY <1>2, <2>1 DEF CallNext
<1>3. CASE Put(c)
  <2>1. PICK n \in Node, i \in Conn : n = call[c].node /\ i = call[c].conn
    BY <1>3 DEF Put, TypeInv, Attached
  <2>2. UNCHANGED <<up, handler>>  BY <1>3 DEF Put, hubVars
  <2>3. \/ down' = down
        \/ Open(n, i) /\ \E s : down' = [down EXCEPT ![n][i] = s]
    BY <1>3, <2>1 DEF Put, SendDown
  <2>4. down \in [Node -> [Conn -> Seq(DownMsg)]]  BY DEF TypeInv, TypeOK
  <2>5. CASE down' = down  BY <1>1, <2>2, <2>5 DEF Still
  <2>6. CASE Open(n, i) /\ \E s : down' = [down EXCEPT ![n][i] = s]
    <3>1. Changes(n, i)  BY <2>2, <2>4, <2>6 DEF Changes
    <3> QED  BY <1>1, <1>3, <2>1, <2>6, <3>1
  <2> QED  BY <2>3, <2>5, <2>6
<1> QED  BY <1>2, <1>3

LEMMA MadeFrame ==
    ASSUME TypeInv, Made, epoch' = epoch, \A m \in Node : ws'[m] \in {ws[m], NoConn},
           \/ Still
           \/ \E n \in Node, i \in Conn : i <= epoch[n] /\ Changes(n, i)
    PROVE  Made'
<1>0. \A n \in Node : epoch[n] \in Nat  BY EpochIsNat
<1>1. \A n \in Node : ws'[n] <= epoch'[n]  BY <1>0 DEF Made, NoConn
<1>2. ASSUME NEW m \in Node, NEW j \in Conn, j > epoch'[m]
      PROVE  up'[m][j] = <<>> /\ down'[m][j] = <<>> /\ handler'[m][j] = "none"
  <2>1. up[m][j] = <<>> /\ down[m][j] = <<>> /\ handler[m][j] = "none"
    BY <1>2 DEF Made
  <2>2. CASE Still  BY <2>1, <2>2 DEF Still
  <2>3. ASSUME NEW n \in Node, NEW i \in Conn, i <= epoch[n], Changes(n, i)
        PROVE  up'[m][j] = <<>> /\ down'[m][j] = <<>> /\ handler'[m][j] = "none"
    <3>1. i \in Nat /\ j \in Nat  BY NoConnApart
    <3>2. ~(m = n /\ j = i)  BY <1>0, <1>2, <2>3, <3>1
    <3> QED  BY <2>1, <2>3, <3>2 DEF Changes
  <2> QED  BY <2>2, <2>3
<1> QED  BY <1>1, <1>2 DEF Made

LEMMA ConnectChanges ==
    ASSUME TypeInv, Made, NEW n \in Node, Connect(n)
    PROVE  /\ epoch[n] + 1 \in Conn /\ epoch' = [epoch EXCEPT ![n] = epoch[n] + 1]
           /\ ws' \in {[ws EXCEPT ![n] = epoch[n] + 1], [ws EXCEPT ![n] = NoConn]}
           /\ up' = up /\ down' = down /\ Changes(n, epoch[n] + 1)
           /\ UNCHANGED <<pc, job, callVars, runs>>
           /\ pc[n] = "idle" /\ handler'[n][epoch[n] + 1] \in {"receive", "closed"}
<1>1. epoch[n] \in Nat /\ epoch[n] < MaxConn  BY EpochIsNat DEF Connect
<1>2. epoch[n] + 1 \in Conn  BY <1>1, SessionAssumption DEF Conn
<1>3. PICK v \in {"receive", "closed"} : handler' = [handler EXCEPT ![n][epoch[n] + 1] = v]
  BY DEF Connect, Accept
<1>4. /\ handler \in [Node -> [Conn -> HandlerState]]
      /\ epoch \in [Node -> Conn \cup {NoConn}]
  BY DEF TypeInv, TypeOK
<1>5. handler'[n][epoch[n] + 1] = v  BY <1>2, <1>3, <1>4
<1>6. up' = up /\ down' = down  BY DEF Connect
<1>7. Changes(n, epoch[n] + 1)
  <2> SUFFICES ASSUME NEW m \in Node, NEW j \in Conn, ~(m = n /\ j = epoch[n] + 1)
               PROVE  handler'[m][j] = handler[m][j]
    BY <1>6 DEF Changes
  <2> QED  BY <1>2, <1>3, <1>4
<1> QED  BY <1>2, <1>5, <1>6, <1>7 DEF Connect

LEMMA MadeStep ==
    ASSUME TypeInv, Made, [Next]_vars
    PROVE  Made'
<1>0. /\ \A n \in Node : epoch[n] \in Nat /\ ws[n] \in Nat
      /\ ws \in [Node -> Conn \cup {NoConn}] /\ epoch \in [Node -> Conn \cup {NoConn}]
  BY EpochIsNat DEF TypeInv, TypeOK
<1>1. ASSUME NEW n \in Node, Connect(n)  PROVE Made'
  <2> DEFINE i == epoch[n] + 1
  <2>1. /\ epoch' = [epoch EXCEPT ![n] = i] /\ Changes(n, i)
        /\ ws' \in {[ws EXCEPT ![n] = i], [ws EXCEPT ![n] = NoConn]}
        /\ up' = up /\ down' = down
    BY <1>1, ConnectChanges
  <2>2. \A m \in Node : ws'[m] <= epoch'[m]  BY <1>0, <2>1 DEF Made, NoConn
  <2>3. ASSUME NEW m \in Node, NEW j \in Conn, j > epoch'[m]
        PROVE  up'[m][j] = <<>> /\ down'[m][j] = <<>> /\ handler'[m][j] = "none"
    <3>1. j \in Nat /\ j > epoch[m] /\ ~(m = n /\ j = i)  BY <1>0, <2>1, <2>3, NoConnApart
    <3> QED  BY <2>1, <3>1 DEF Made, Changes
  <2> QED  BY <2>2, <2>3 DEF Made
<1>2. ASSUME NEW n \in Node, AgentNext(n), ~Connect(n)  PROVE Made'
  <2>1. /\ epoch' = epoch /\ ws' \in {ws, [ws EXCEPT ![n] = NoConn]}
        /\ Still \/ (ws[n] \in Conn /\ Changes(n, ws[n]))
    BY <1>2, AgentChanges
  <2>2. \A m \in Node : ws'[m] \in {ws[m], NoConn}  BY <1>0, <2>1
  <2>3. ws[n] <= epoch[n]  BY DEF Made
  <2> QED  BY <2>1, <2>2, <2>3, MadeFrame
<1>3. ASSUME NEW n \in Node, NEW i \in Conn, HandlerNext(n, i)  PROVE Made'
  <2>1. UNCHANGED <<epoch, ws>> /\ Open(n, i) /\ Changes(n, i)  BY <1>3, HandlerChanges
  <2>2. i <= epoch[n]  BY <2>1, OpenIsMade DEF Open
  <2> QED  BY <2>1, <2>2, MadeFrame
<1>4. ASSUME NEW c \in Cmd, CallNext(c)  PROVE Made'
  <2>1. epoch' = epoch /\ ws' = ws  BY <1>4, CallChanges
  <2>2. CASE Still  BY <2>1, <2>2, MadeFrame
  <2>3. ASSUME NEW n \in Node, NEW i \in Conn, Open(n, i), Changes(n, i)  PROVE Made'
    <3>1. i <= epoch[n]  BY <2>3, OpenIsMade DEF Open
    <3> QED  BY <2>1, <2>3, <3>1, MadeFrame
  <2> QED  BY <1>4, <2>2, <2>3, CallChanges
<1>5. CASE Restart
  <2>1. /\ \A n \in Node, i \in Conn : up'[n][i] = <<>>
        /\ \A n \in Node, i \in Conn : handler[n][i] = "none" => handler'[n][i] = "none"
    BY <1>5 DEF Restart, Open
  <2>2. UNCHANGED <<epoch, ws, down>>  BY <1>5 DEF Restart, agentVars
  <2> QED  BY <2>1, <2>2 DEF Made
<1>6. CASE UNCHANGED vars
  BY <1>6 DEF vars, agentVars, netVars, hubVars, Made
<1> QED  BY <1>1, <1>2, <1>3, <1>4, <1>5, <1>6 DEF Next

\* A closed connection is not opened again.
LEMMA OpenOnlyNew ==
    ASSUME TypeInv, Made, [Next]_vars, NEW n \in Node, NEW i \in Conn, Open(n, i)'
    PROVE  ~Restart /\ (Open(n, i) \/ epoch[n] < i)
<1>1. ~Restart
  BY DEF Restart, Open
<1>2. CASE handler' = handler  BY <1>1, <1>2 DEF Open
<1>3. ASSUME NEW m \in Node, AgentNext(m)  PROVE Open(n, i) \/ epoch[n] < i
  <2>1. CASE Connect(m)
    <3>1. epoch[m] + 1 \in Conn /\ Changes(m, epoch[m] + 1)  BY <2>1, ConnectChanges
    <3>2. epoch[m] \in Nat /\ epoch[m] < epoch[m] + 1  BY EpochIsNat
    <3> QED  BY <3>1, <3>2 DEF Changes, Open
  <2>2. CASE ~Connect(m)
    <3>1. handler' = handler
      BY <1>3, <2>2 DEF AgentNext, SendHeartbeat, ReadOk, ReadCommand, Recv, Reply, Drop, Stop,
                       Leave, Start, hubVars
    <3> QED  BY <1>2, <3>1
  <2> QED  BY <2>1, <2>2
<1>4. ASSUME NEW m \in Node, NEW j \in Conn, HandlerNext(m, j)  PROVE Open(n, i)
  <2>1. Open(m, j) /\ Changes(m, j)  BY <1>4, HandlerChanges
  <2> QED  BY <2>1 DEF Changes, Open
<1>5. ASSUME NEW c \in Cmd, CallNext(c)  PROVE handler' = handler
  BY <1>5 DEF CallNext, Issue, Put, SendFail, Return, Timeout, hubVars
<1>6. UNCHANGED vars => handler' = handler  BY DEF vars, hubVars
<1> QED  BY <1>1, <1>2, <1>3, <1>4, <1>5, <1>6 DEF Next

LEMMA CrashedStep ==
    ASSUME TypeInv, Made, Assigned, Crashed, [Next]_vars
    PROVE  Crashed'
<1> SUFFICES ASSUME NEW c \in Cmd, NEW n \in Node, NEW i \in Conn,
                    call'[c].st = "crashed", call'[c].node = n, call'[c].conn = i,
                    Open(n, i)'
             PROVE  FALSE
  BY DEF Crashed
<1>1. ~Restart /\ (Open(n, i) \/ epoch[n] < i)  BY OpenOnlyNew
<1>2. call[c] = call'[c]  BY <1>1, CallMovesOrRestarts DEF CallMoves, WrittenState
<1>3. i <= epoch[n]  BY <1>2 DEF Assigned
<1>4. i \in Nat /\ epoch[n] \in Nat  BY NoConnApart, EpochIsNat
<1> QED  BY <1>1, <1>2, <1>3, <1>4 DEF Crashed

LEMMA JobsStep ==
    ASSUME TypeInv, Once, Jobs, [Next]_vars
    PROVE  Jobs'
<1>1. CallKeeps  BY CallSteps
<1>2. \A c \in Cmd : runs[c] # <<>> => runs'[c] # <<>>  BY RunsGrow
<1>3. ASSUME \A n \in Node : \/ job'[n] = job[n] /\ (ws'[n] = ws[n] \/ job[n] = NoCmd)
                                /\ (pc'[n] = pc[n] \/ job[n] = NoCmd)
                             \/ job'[n] = NoCmd
      PROVE  Jobs'
  <2>1. \A n \in Node : pc'[n] # "running" => job'[n] = NoCmd  BY <1>3 DEF Jobs
  <2>2. ASSUME NEW n \in Node, NEW c \in Cmd, job'[n] = c
        PROVE  /\ runs'[c] # <<>> /\ call'[c].node = n /\ call'[c].conn = ws'[n]
               /\ call'[c].st \notin Unsent
    <3>1. c # NoCmd  BY SessionAssumption
    <3>2. job[n] = c /\ ws'[n] = ws[n]  BY <1>3, <2>2, <3>1
    <3> QED  BY <1>1, <1>2, <3>2 DEF Jobs, CallKeeps, Unsent
  <2> QED  BY <2>1, <2>2 DEF Jobs
<1>4. CASE UNCHANGED <<pc, ws, job>>
  <2>1. \A n \in Node : job'[n] = job[n] /\ ws'[n] = ws[n] /\ pc'[n] = pc[n]  BY <1>4
  <2> QED  BY <1>3, <2>1
<1>5. ASSUME NEW n \in Node, AgentNext(n)  PROVE Jobs'
  <2>0. /\ pc \in [Node -> AgentState] /\ ws \in [Node -> Conn \cup {NoConn}]
        /\ job \in [Node -> Cmd \cup {NoCmd}]
    BY DEF TypeInv, TypeOK
  <2>1. CASE Connect(n)
    <3>1. /\ pc[n] = "idle" /\ UNCHANGED <<pc, job>>
          /\ \E e : ws' = [ws EXCEPT ![n] = e]
      BY <2>1 DEF Connect
    <3>2. job[n] = NoCmd  BY <3>1 DEF Jobs
    <3>3. \A m \in Node : job'[m] = job[m] /\ pc'[m] = pc[m] /\ (ws'[m] = ws[m] \/ job[m] = NoCmd)
      BY <2>0, <3>1, <3>2
    <3> QED  BY <1>3, <3>3
  <2>2. CASE SendHeartbeat(n) \/ ReadOk(n) \/ Start(n)
    <3>1. /\ pc[n] # "running" /\ UNCHANGED <<ws, job>>
          /\ \E p : pc' = [pc EXCEPT ![n] = p]
      BY <2>2 DEF SendHeartbeat, ReadOk, Recv, Start
    <3>2. job[n] = NoCmd  BY <3>1 DEF Jobs
    <3>3. \A m \in Node : job'[m] = job[m] /\ ws'[m] = ws[m] /\ (pc'[m] = pc[m] \/ job[m] = NoCmd)
      BY <2>0, <3>1, <3>2
    <3> QED  BY <1>3, <3>3
  <2>3. CASE Reply(n) \/ Drop(n) \/ Stop(n)
    <3>1. /\ job' = [job EXCEPT ![n] = NoCmd]
          /\ \E e : ws' = [ws EXCEPT ![n] = e]
          /\ \E p : pc' = [pc EXCEPT ![n] = p]
      BY <2>3, <2>0 DEF Reply, Drop, Stop, Leave
    <3>2. /\ job'[n] = NoCmd
          /\ \A m \in Node \ {n} : job'[m] = job[m] /\ ws'[m] = ws[m] /\ pc'[m] = pc[m]
      BY <2>0, <3>1
    <3> QED  BY <1>3, <3>2
  <2>4. CASE ReadCommand(n)
    <3>1. Recv(n) /\ ws[n] \in Conn
      BY <2>4 DEF ReadCommand, Recv, TypeInv, TypeOK, Attached
    <3>2. PICK d \in Cmd : d = Received(n).cmd /\ Received(n) = Run(d)
      BY <2>4, <3>1, RecvType, MessageTypes DEF ReadCommand, TypeInv
    <3>3. InQueue(d, n, ws[n], 1)
      BY <3>1, <3>2 DEF InQueue, Received, Recv, TypeInv, TypeOK
    <3>4. call[d].node = n /\ call[d].conn = ws[n] /\ call[d].st \notin Unsent
      BY <3>1, <3>3 DEF Once
    <3>5. /\ pc' = [pc EXCEPT ![n] = "running"] /\ job' = [job EXCEPT ![n] = d]
          /\ ws' = ws /\ call' = call
          /\ runs' = [runs EXCEPT ![d] = Append(@, n)]
      BY <2>4, <3>2 DEF ReadCommand, Recv, callVars
    <3>6. runs'[d] # <<>>
      <4>1. runs[d] \in Seq(Node) /\ runs'[d] = Append(runs[d], n)
        BY <3>5 DEF TypeInv, TypeOK
      <4> QED  BY <4>1, AppendNotEmpty
    <3>7. /\ job'[n] = d /\ pc'[n] = "running" /\ d # NoCmd
          /\ \A m \in Node \ {n} : job'[m] = job[m] /\ pc'[m] = pc[m]
      BY <2>0, <3>5, SessionAssumption
    <3>8. ASSUME NEW m \in Node, NEW c \in Cmd, job'[m] = c
          PROVE  /\ runs'[c] # <<>> /\ call'[c].node = m /\ call'[c].conn = ws'[m]
                 /\ call'[c].st \notin Unsent
      <4>1. CASE m = n  BY <3>4, <3>5, <3>6, <3>7, <3>8, <4>1
      <4>2. CASE m # n  BY <1>2, <3>5, <3>7, <3>8, <4>2 DEF Jobs
      <4> QED  BY <4>1, <4>2
    <3>9. \A m \in Node : pc'[m] # "running" => job'[m] = NoCmd  BY <3>7 DEF Jobs
    <3> QED  BY <3>8, <3>9 DEF Jobs
  <2> QED  BY <1>5, <2>1, <2>2, <2>3, <2>4 DEF AgentNext
<1>6. ASSUME NEW n \in Node, NEW i \in Conn, HandlerNext(n, i)
      PROVE  UNCHANGED <<pc, ws, job>>
  BY <1>6 DEF HandlerNext, ReceiveResult, ReceiveHeartbeat, RejectMismatch, Stored, StoreFail,
              Disconnect, agentVars
<1>7. ASSUME NEW c \in Cmd, CallNext(c)  PROVE UNCHANGED <<pc, ws, job>>
  BY <1>7 DEF CallNext, Issue, Put, SendFail, Return, Timeout, agentVars
<1>8. Restart \/ UNCHANGED vars => UNCHANGED <<pc, ws, job>>
  BY DEF Restart, vars, agentVars
<1> QED  BY <1>4, <1>5, <1>6, <1>7, <1>8 DEF Next

-----------------------------------------------------------------------------
LagAt(n, i) ==
    ws[n] = i /\ Open(n, i) =>
        /\ IsFiniteSet(Written(n, i))
        /\ Len(down[n][i]) + Len(up[n][i]) + Count(handler[n][i] = "storing")
              = Count(pc[n] = "reading")
                  + Cardinality(Written(n, i)) + Cardinality(Answered(n, i))

LagInv == \A n \in Node, i \in Conn : LagAt(n, i)

LEMMA WrittenSame ==
    ASSUME TypeInv, [Next]_vars, ~Restart, NEW n \in Node, NEW i \in Conn,
           \A c \in Cmd : Put(c) => ~(call[c].node = n /\ call[c].conn = i)
    PROVE  Written(n, i)' = Written(n, i)
<1>1. ASSUME NEW c \in Cmd
      PROVE  c \in Written(n, i)' <=> c \in Written(n, i)
  <2>1. CallMoves(c)  BY CallMovesOrRestarts
  <2> QED  BY <2>1 DEF CallMoves, Written, WrittenState
<1> QED  BY <1>1 DEF Written

LEMMA WrittenPut ==
    ASSUME TypeInv, NEW d \in Cmd, Put(d), NEW n \in Node, NEW i \in Conn,
           call[d].node = n, call[d].conn = i
    PROVE  Written(n, i)' = Written(n, i) \cup {d} /\ d \notin Written(n, i)
<1>0. call \in [Cmd -> Call]  BY DEF TypeInv, TypeOK
<1>1. call' = [call EXCEPT ![d].st = "waiting"] /\ call[d].st = "sending"  BY DEF Put
<1>2. /\ call'[d].st = "waiting" /\ call'[d].node = n /\ call'[d].conn = i
      /\ \A c \in Cmd \ {d} : call'[c] = call[c]
  BY <1>0, <1>1 DEF Call
<1> QED  BY <1>1, <1>2 DEF Written

LEMMA AnsweredType ==
    ASSUME NEW n, NEW i, IsFiniteSet(Written(n, i))
    PROVE  /\ Cardinality(Written(n, i)) \in Nat
           /\ IsFiniteSet(Answered(n, i)) /\ Cardinality(Answered(n, i)) \in Nat
<1>1. Answered(n, i) \in SUBSET Written(n, i)  BY DEF Answered
<1>2. IsFiniteSet(Answered(n, i))  BY <1>1, FS_Subset
<1> QED  BY <1>2, FS_CardinalityType

LEMMA QueueType ==
    ASSUME TypeInv, NEW n \in Node, NEW i \in Conn
    PROVE  /\ down[n][i] \in Seq(DownMsg) /\ Len(down[n][i]) \in Nat
           /\ up[n][i] \in Seq(UpMsg) /\ Len(up[n][i]) \in Nat
<1>1. down[n][i] \in Seq(DownMsg) /\ up[n][i] \in Seq(UpMsg)  BY DEF TypeInv, TypeOK
<1> QED  BY <1>1

\* The lag of a connection depends on its own channels and calls.
LEMMA LagFrame ==
    ASSUME NEW m \in Node, NEW j \in Conn, LagAt(m, j),
           ws'[m] = j /\ Open(m, j)' =>
               /\ ws[m] = j
               /\ down'[m][j] = down[m][j] /\ up'[m][j] = up[m][j]
               /\ handler'[m][j] = handler[m][j]
               /\ pc'[m] = "reading" <=> pc[m] = "reading"
               /\ Written(m, j)' = Written(m, j)
               /\ Answered(m, j)' = Answered(m, j)
    PROVE  LagAt(m, j)'
BY DEF LagAt, Open, Count

LEMMA LagConnect ==
    ASSUME TypeInv, Places, LagInv, NEW n \in Node, Connect(n)
    PROVE  LagInv'
<1> SUFFICES ASSUME NEW m \in Node, NEW j \in Conn PROVE LagAt(m, j)'
  BY DEF LagInv
<1> DEFINE i == epoch[n] + 1
<1>1. /\ i \in Conn /\ epoch' = [epoch EXCEPT ![n] = i]
      /\ ws' \in {[ws EXCEPT ![n] = i], [ws EXCEPT ![n] = NoConn]}
      /\ up' = up /\ down' = down /\ Changes(n, i)
      /\ UNCHANGED <<pc, job, callVars, runs>>
      /\ pc[n] = "idle" /\ handler'[n][i] \in {"receive", "closed"}
  BY ConnectChanges DEF Places
<1>2. ws \in [Node -> Conn \cup {NoConn}]  BY DEF TypeInv, TypeOK
<1>3. Written(m, j)' = Written(m, j) /\ Answered(m, j)' = Answered(m, j)
  BY <1>1 DEF Written, Answered, callVars
<1>4. CASE m = n
  <2> SUFFICES ASSUME ws'[n] = j, Open(n, j)'
               PROVE  /\ IsFiniteSet(Written(n, j)')
                      /\ Len(down'[n][j]) + Len(up'[n][j]) + Count(handler'[n][j] = "storing")
                            = Count(pc'[n] = "reading")
                               + Cardinality(Written(n, j)') + Cardinality(Answered(n, j)')
    BY <1>4 DEF LagAt
  <2>1. j = i  BY <1>1, <1>2, NoConnApart
  <2>2. epoch[n] \in Nat /\ i > epoch[n]  BY EpochIsNat
  <2>3. up[n][i] = <<>> /\ down[n][i] = <<>>  BY <1>1, <2>2 DEF Places, Made
  <2>4. Written(n, i) = {}
    <3>1. \A c \in Cmd : call[c].conn \in Nat  BY CallTypes, NoConnApart DEF TypeInv, NoConn
    <3>2. \A c \in Cmd : call[c].node = n => call[c].conn # i
      BY <2>2, <3>1 DEF Places, Assigned
    <3> QED  BY <3>2 DEF Written
  <2>5. Answered(n, i) = {}  BY <2>4 DEF Answered
  <2>6. pc'[n] # "reading" /\ handler'[n][i] # "storing"  BY <1>1
  <2>7. Len(<<>>) = 0  OBVIOUS
  <2> HIDE DEF i
  <2>8. Written(n, j)' = {} /\ Answered(n, j)' = {}  BY <1>3, <1>4, <2>1, <2>4, <2>5
  <2>9. Len(down'[n][j]) = 0 /\ Len(up'[n][j]) = 0  BY <1>1, <2>1, <2>3, <2>7
  <2> QED  BY <2>1, <2>6, <2>8, <2>9, FS_EmptySet DEF Count
<1>5. CASE m # n
  <2>1. LagAt(m, j)  BY DEF LagInv
  <2>2. ws'[m] = ws[m] /\ handler'[m][j] = handler[m][j]
    BY <1>1, <1>2, <1>5 DEF Changes
  <2> QED  BY <1>1, <1>3, <2>1, <2>2, LagFrame
<1> QED  BY <1>4, <1>5

LEMMA LagAgent ==
    ASSUME TypeInv, Once, Places, LagInv, NEW n \in Node, AgentNext(n), ~Connect(n)
    PROVE  LagInv'
<1>0. /\ ws \in [Node -> Conn \cup {NoConn}] /\ pc \in [Node -> AgentState]
      /\ job \in [Node -> Cmd \cup {NoCmd}]
      /\ down \in [Node -> [Conn -> Seq(DownMsg)]] /\ up \in [Node -> [Conn -> Seq(UpMsg)]]
  BY DEF TypeInv, TypeOK
<1>1. /\ ws' \in {ws, [ws EXCEPT ![n] = NoConn]}
      /\ Still \/ (ws[n] \in Conn /\ Changes(n, ws[n]))
  BY AgentChanges
<1>2. call' = call /\ handler' = handler
  BY DEF AgentNext, SendHeartbeat, ReadOk, ReadCommand, Recv, Reply, Drop, Stop, Leave, Start,
         hubVars, callVars
<1>3. \A m \in Node, j \in Conn : Written(m, j)' = Written(m, j)  BY <1>2 DEF Written
<1>4. ASSUME NEW m \in Node, NEW j \in Conn, m # n  PROVE LagAt(m, j)'
  <2>1. ws'[m] = ws[m] /\ pc'[m] = pc[m] /\ job'[m] = job[m]
    BY <1>0, <1>1, <1>4
    DEF AgentNext, SendHeartbeat, ReadOk, ReadCommand, Recv, Reply, Drop, Stop, Leave, Start
  <2>2. up'[m][j] = up[m][j] /\ down'[m][j] = down[m][j]
    BY <1>1, <1>4 DEF Still, Changes
  <2>3. \A c \in Cmd : call[c].node = m => runs'[c] = runs[c]
    <3>1. CASE ReadCommand(n)
      <4>1. Recv(n) /\ ws[n] \in Conn
        BY <3>1 DEF ReadCommand, Recv, TypeInv, TypeOK, Attached
      <4>2. PICK d \in Cmd : d = Received(n).cmd /\ Received(n) = Run(d)
        BY <3>1, <4>1, RecvType, MessageTypes DEF ReadCommand, TypeInv
      <4>3. InQueue(d, n, ws[n], 1)
        BY <4>1, <4>2 DEF InQueue, Received, Recv, TypeInv, TypeOK
      <4>4. call[d].node = n  BY <4>1, <4>3 DEF Once
      <4>5. runs' = [runs EXCEPT ![d] = Append(@, n)]  BY <3>1, <4>2 DEF ReadCommand
      <4>6. runs \in [Cmd -> Seq(Node)]  BY DEF TypeInv, TypeOK
      <4> QED  BY <1>4, <4>4, <4>5, <4>6
    <3>2. CASE ~ReadCommand(n)
      BY <3>2 DEF AgentNext, SendHeartbeat, ReadOk, Reply, Drop, Stop, Leave, Start
    <3> QED  BY <3>1, <3>2
  <2>4. Answered(m, j)' = Answered(m, j)
    <3>1. \A c \in Written(m, j) : c \in Cmd /\ call[c].node = m  BY DEF Written
    <3> QED  BY <1>3, <2>1, <2>3, <3>1 DEF Answered
  <2>5. LagAt(m, j)  BY DEF LagInv
  <2> QED  BY <1>2, <1>3, <2>1, <2>2, <2>4, <2>5, LagFrame
<1>5. ASSUME NEW j \in Conn  PROVE LagAt(n, j)'
  <2> SUFFICES ASSUME ws'[n] = j, Open(n, j)'  PROVE LagAt(n, j)'
    BY DEF LagAt
  <2>1. ws[n] = j /\ ~Drop(n) /\ ~Stop(n)
    <3>1. NoConn \notin Conn  BY NoConnApart
    <3>2. Drop(n) \/ Stop(n) => ws'[n] = NoConn  BY <1>0 DEF Drop, Stop, Leave
    <3> QED  BY <1>0, <1>1, <3>1, <3>2
  <2>2. Open(n, j)  BY <1>2 DEF Open
  <2>3. LagAt(n, j)  BY DEF LagInv
  <2>4. /\ IsFiniteSet(Written(n, j))
        /\ Len(down[n][j]) + Len(up[n][j]) + Count(handler[n][j] = "storing")
              = Count(pc[n] = "reading")
                  + Cardinality(Written(n, j)) + Cardinality(Answered(n, j))
    BY <2>1, <2>2, <2>3 DEF LagAt
  <2>5. /\ Cardinality(Written(n, j)) \in Nat
        /\ IsFiniteSet(Answered(n, j)) /\ Cardinality(Answered(n, j)) \in Nat
    BY <2>4, AnsweredType
  <2>6. /\ down[n][j] \in Seq(DownMsg) /\ Len(down[n][j]) \in Nat
        /\ up[n][j] \in Seq(UpMsg) /\ Len(up[n][j]) \in Nat
    BY QueueType
  <2>7. Written(n, j)' = Written(n, j)  BY <1>3
  <2>13. PICK s \in Nat : s = Count(handler[n][j] = "storing")  BY DEF Count
  <2>14. /\ pc[n] = "reading" => Count(pc[n] = "reading") = 1
         /\ pc[n] # "reading" => Count(pc[n] = "reading") = 0
         /\ pc'[n] = "reading" => Count(pc'[n] = "reading") = 1
         /\ pc'[n] # "reading" => Count(pc'[n] = "reading") = 0
    BY DEF Count
  <2>15. PICK r \in Nat, t \in Nat : r = Count(pc[n] = "reading") /\ t = Count(pc'[n] = "reading")
    BY DEF Count
  <2>16. PICK q \in Nat, u \in Nat, w \in Nat, a \in Nat :
            /\ q = Len(down[n][j]) /\ u = Len(up[n][j])
            /\ w = Cardinality(Written(n, j)) /\ a = Cardinality(Answered(n, j))
    BY <2>5, <2>6
  <2>17. q + u + s = r + w + a  BY <2>4, <2>13, <2>15, <2>16
  <2> SUFFICES Len(down'[n][j]) + Len(up'[n][j]) + Count(handler[n][j] = "storing")
                  = Count(pc'[n] = "reading")
                      + Cardinality(Written(n, j)) + Cardinality(Answered(n, j)')
    BY <1>2, <2>4, <2>7 DEF LagAt
  <2> SUFFICES ASSUME NEW q1, NEW u1, NEW a1, q1 = Len(down'[n][j]), u1 = Len(up'[n][j]),
                      a1 = Cardinality(Answered(n, j)')
               PROVE  q1 + u1 + Count(handler[n][j] = "storing")
                         = Count(pc'[n] = "reading") + Cardinality(Written(n, j)) + a1
    BY Zenon
  <2> SUFFICES q1 + u1 + s = t + w + a1
    BY <2>13, <2>15, <2>16, Zenon
  <2>8. CASE SendHeartbeat(n)
    <3>1. /\ pc[n] = "idle" /\ pc'[n] = "reading" /\ down' = down
          /\ UNCHANGED <<job, runs>>
      BY <1>0, <2>8 DEF SendHeartbeat
    <3>2. Answered(n, j)' = Answered(n, j)  BY <2>7, <3>1 DEF Answered
    <3>3. up'[n][j] = Append(up[n][j], Heartbeat)
      BY <1>0, <2>1, <2>2, <2>8 DEF SendHeartbeat, SendUp
    <3>4. Len(up'[n][j]) = Len(up[n][j]) + 1  BY <2>6, <3>3, MessageTypes, AppendAt
    <3>9. r = 0 /\ t = 1  BY <2>14, <2>15, <3>1
    <3>10. q1 = q /\ u1 = u + 1 /\ a1 = a  BY <2>16, <3>1, <3>2, <3>4
    <3> QED  BY <2>17, <3>9, <3>10
  <2>9. CASE ReadOk(n)
    <3>1. /\ pc[n] = "reading" /\ pc'[n] = "idle" /\ up' = up
          /\ UNCHANGED <<job, runs>>
      BY <1>0, <2>9 DEF ReadOk, Recv
    <3>2. Answered(n, j)' = Answered(n, j)  BY <2>7, <3>1 DEF Answered
    <3>3. down'[n][j] = Tail(down[n][j]) /\ down[n][j] # <<>>
      BY <1>0, <2>1, <2>9 DEF ReadOk, Recv
    <3>4. Len(down'[n][j]) = Len(down[n][j]) - 1  BY <2>6, <3>3, TailAt
    <3>9. r = 1 /\ t = 0  BY <2>14, <2>15, <3>1
    <3>10. q1 = q - 1 /\ u1 = u /\ a1 = a  BY <2>16, <3>1, <3>2, <3>4
    <3> QED  BY <2>17, <3>9, <3>10
  <2>10. CASE ReadCommand(n)
    <3>1. /\ pc[n] = "reading" /\ pc'[n] = "running" /\ up' = up
      BY <1>0, <2>10 DEF ReadCommand, Recv
    <3>2. Answered(n, j)' = Answered(n, j)
      <4>1. Recv(n) /\ ws[n] \in Conn  BY <2>1, <2>10 DEF ReadCommand
      <4>2. PICK d \in Cmd : d = Received(n).cmd /\ Received(n) = Run(d)
        BY <2>10, <4>1, RecvType, MessageTypes DEF ReadCommand, TypeInv
      <4>3. InQueue(d, n, ws[n], 1)
        BY <4>1, <4>2 DEF InQueue, Received, Recv, TypeInv, TypeOK
      <4>4. runs[d] = <<>>  BY <4>1, <4>3 DEF Once
      <4>5. runs' = [runs EXCEPT ![d] = Append(@, n)] /\ job' = [job EXCEPT ![n] = d]
        BY <2>10, <4>2 DEF ReadCommand
      <4>6. job'[n] = d /\ job[n] = NoCmd  BY <1>0, <3>1, <4>5 DEF Places, Jobs
      <4>7. \A c \in Cmd \ {d} : runs'[c] = runs[c] /\ job[n] # c /\ job'[n] # c
        BY <4>5, <4>6, SessionAssumption DEF TypeInv, TypeOK
      <4>8. \A c \in Written(n, j) : c \in Cmd  BY DEF Written
      <4>9. d \notin Answered(n, j) /\ d \notin Answered(n, j)'
        BY <4>4, <4>6 DEF Answered
      <4> QED  BY <2>7, <4>7, <4>8, <4>9 DEF Answered
    <3>3. down'[n][j] = Tail(down[n][j]) /\ down[n][j] # <<>>
      BY <1>0, <2>1, <2>10 DEF ReadCommand, Recv
    <3>4. Len(down'[n][j]) = Len(down[n][j]) - 1  BY <2>6, <3>3, TailAt
    <3>9. r = 1 /\ t = 0  BY <2>14, <2>15, <3>1
    <3>10. q1 = q - 1 /\ u1 = u /\ a1 = a  BY <2>16, <3>1, <3>2, <3>4
    <3> QED  BY <2>17, <3>9, <3>10
  <2>11. CASE Reply(n)
    <3>1. PICK d \in Cmd : d = job[n]  BY <2>11 DEF Reply, TypeInv, TypeOK, Attached
    <3>2. /\ pc[n] = "running" /\ pc'[n] = "idle" /\ down' = down /\ runs' = runs
          /\ job'[n] = NoCmd
      BY <1>0, <2>11 DEF Reply
    <3>3. /\ runs[d] # <<>> /\ call[d].node = n /\ call[d].conn = j
          /\ call[d].st \notin Unsent
      BY <2>1, <3>1 DEF Places, Jobs
    <3>4. d \in Written(n, j)
      <4>1. call[d].st # "crashed"  BY <2>2, <3>3 DEF Places, Crashed
      <4>2. call[d].st \in {"idle"} \cup InFlight \cup Ended  BY CallTypes DEF TypeInv
      <4> QED  BY <3>3, <4>1, <4>2 DEF Written, Unsent, InFlight, Ended
    <3>5. Answered(n, j)' = Answered(n, j) \cup {d} /\ d \notin Answered(n, j)
      <4>1. \A c \in Written(n, j) : c \in Cmd /\ c # NoCmd
        BY SessionAssumption DEF Written
      <4> QED  BY <2>7, <3>1, <3>2, <3>3, <3>4, <4>1 DEF Answered
    <3>6. Cardinality(Answered(n, j)') = Cardinality(Answered(n, j)) + 1
      BY <2>5, <3>5, FS_AddElement
    <3>7. up'[n][j] = Append(up[n][j], Result(d))
      BY <1>0, <2>1, <2>2, <2>11, <3>1 DEF Reply, SendUp
    <3>8. Len(up'[n][j]) = Len(up[n][j]) + 1  BY <2>6, <3>7, MessageTypes, AppendAt
    <3>9. r = 0 /\ t = 0  BY <2>14, <2>15, <3>2
    <3>10. q1 = q /\ u1 = u + 1 /\ a1 = a + 1  BY <2>16, <3>2, <3>6, <3>8
    <3> QED  BY <2>17, <3>9, <3>10
  <2>12. CASE Start(n)
    <3>1. /\ pc[n] # "reading" /\ pc'[n] # "reading" /\ up' = up /\ down' = down
          /\ UNCHANGED <<job, runs>>
      BY <1>0, <2>12 DEF Start, netVars
    <3>2. Answered(n, j)' = Answered(n, j)  BY <2>7, <3>1 DEF Answered
    <3>3. r = 0 /\ t = 0  BY <2>14, <2>15, <3>1
    <3>4. q1 = q /\ u1 = u /\ a1 = a  BY <2>16, <3>1, <3>2
    <3> QED  BY <2>17, <3>3, <3>4
  <2> QED  BY <2>1, <2>8, <2>9, <2>10, <2>11, <2>12 DEF AgentNext
<1> QED  BY <1>4, <1>5 DEF LagInv

LEMMA LagHandler ==
    ASSUME TypeInv, Places, LagInv, [Next]_vars,
           NEW n \in Node, NEW i \in Conn, HandlerNext(n, i)
    PROVE  LagInv'
<1>0. handler \in [Node -> [Conn -> HandlerState]]
  BY DEF TypeInv, TypeOK
<1>1. UNCHANGED <<epoch, ws>> /\ Open(n, i) /\ Changes(n, i)  BY HandlerChanges
<1>2. UNCHANGED <<pc, job, runs>>
  BY DEF HandlerNext, ReceiveResult, ReceiveHeartbeat, RejectMismatch, Stored, StoreFail,
         Disconnect, agentVars
<1>3. ASSUME NEW m \in Node, NEW j \in Conn
      PROVE  Written(m, j)' = Written(m, j) /\ Answered(m, j)' = Answered(m, j)
  <2>1. CASE ReceiveResult(n, i)
    <3>1. ~Restart
      <4>1. handler' = handler  BY <2>1 DEF ReceiveResult, hubVars
      <4>2. ASSUME Restart  PROVE FALSE
        <5>1. handler'[n][i] = "closed"  BY <1>1, <4>2 DEF Restart
        <5> QED  BY <1>1, <4>1, <5>1 DEF Open
      <4> QED  BY <4>2
    <3>2. \A c \in Cmd : ~Put(c)
      <4>1. \A c \in Cmd : Put(c) => up' = up  BY DEF Put
      <4>2. up[n][i] \in Seq(UpMsg) /\ up[n][i] # <<>> /\ up'[n][i] = Tail(up[n][i])
        BY <2>1 DEF ReceiveResult, Take, TypeInv, TypeOK
      <4>3. Len(up[n][i]) \in Nat /\ Len(up'[n][i]) = Len(up[n][i]) - 1  BY <4>2, TailAt
      <4>4. up' # up  BY <4>3
      <4> QED  BY <4>1, <4>4
    <3>3. Written(m, j)' = Written(m, j)  BY <3>1, <3>2, WrittenSame
    <3> QED  BY <1>2, <3>3 DEF Answered
  <2>2. CASE ~ReceiveResult(n, i)
    <3>1. call' = call
      BY <2>2 DEF HandlerNext, ReceiveHeartbeat, RejectMismatch, Stored, StoreFail, Disconnect,
                  callVars
    <3>2. Written(m, j)' = Written(m, j)  BY <3>1 DEF Written
    <3> QED  BY <1>2, <3>2 DEF Answered
  <2> QED  BY <2>1, <2>2
<1>4. ASSUME NEW m \in Node, NEW j \in Conn, ~(m = n /\ j = i)  PROVE LagAt(m, j)'
  <2>1. LagAt(m, j)  BY DEF LagInv
  <2>2. ws' = ws /\ pc' = pc  BY <1>1, <1>2
  <2> QED  BY <1>1, <1>3, <1>4, <2>1, <2>2, LagFrame DEF Changes
<1>5. LagAt(n, i)'
  <2> SUFFICES ASSUME ws[n] = i, Open(n, i)'  PROVE LagAt(n, i)'
    BY <1>1 DEF LagAt
  <2>1. /\ IsFiniteSet(Written(n, i))
        /\ Len(down[n][i]) + Len(up[n][i]) + Count(handler[n][i] = "storing")
              = Count(pc[n] = "reading")
                  + Cardinality(Written(n, i)) + Cardinality(Answered(n, i))
    BY <1>1 DEF LagInv, LagAt
  <2>2. /\ down[n][i] \in Seq(DownMsg) /\ Len(down[n][i]) \in Nat
        /\ up[n][i] \in Seq(UpMsg) /\ Len(up[n][i]) \in Nat
    BY QueueType
  <2>3. PICK q \in Nat, u \in Nat, s \in Nat, s1 \in Nat :
           /\ q = Len(down[n][i]) /\ u = Len(up[n][i])
           /\ s = Count(handler[n][i] = "storing")
           /\ s1 = Count(handler'[n][i] = "storing")
    BY <2>2 DEF Count
  <2>4. /\ handler[n][i] = "storing" => s = 1
        /\ handler[n][i] # "storing" => s = 0
        /\ handler'[n][i] = "storing" => s1 = 1
        /\ handler'[n][i] # "storing" => s1 = 0
    BY <2>3 DEF Count
  <2>5. ASSUME NEW q1 \in Nat, NEW u1 \in Nat, q1 = Len(down'[n][i]), u1 = Len(up'[n][i]),
               q1 + u1 + s1 = q + u + s
        PROVE  LagAt(n, i)'
    <3>1. Len(down'[n][i]) + Len(up'[n][i]) + Count(handler'[n][i] = "storing")
             = Len(down[n][i]) + Len(up[n][i]) + Count(handler[n][i] = "storing")
      BY <2>3, <2>5, Zenon
    <3>2. Len(down'[n][i]) + Len(up'[n][i]) + Count(handler'[n][i] = "storing")
             = Count(pc'[n] = "reading")
                  + Cardinality(Written(n, i)') + Cardinality(Answered(n, i)')
      BY <1>2, <1>3, <2>1, <3>1, Zenon
    <3> QED  BY <1>3, <2>1, <3>2, Zenon DEF LagAt
  <2>6. ASSUME Ack(n, i)  PROVE Len(down'[n][i]) = Len(down[n][i]) + 1
    <3>1. down'[n][i] = Append(down[n][i], Ok)
      BY <2>6 DEF Ack, SendDown, TypeInv, TypeOK
    <3> QED  BY <2>2, <3>1, MessageTypes, AppendAt
  <2>7. ASSUME up' = [up EXCEPT ![n][i] = Tail(@)], up[n][i] # <<>>
        PROVE  Len(up'[n][i]) = Len(up[n][i]) - 1 /\ Len(up'[n][i]) \in Nat
    <3>1. up'[n][i] = Tail(up[n][i])  BY <2>7 DEF TypeInv, TypeOK
    <3>2. Len(up'[n][i]) = Len(up[n][i]) - 1  BY <2>2, <2>7, <3>1, TailAt
    <3>3. Tail(up[n][i]) \in Seq(UpMsg)  BY <2>2, <2>7
    <3> QED  BY <3>1, <3>2, <3>3
  <2>8. CASE ReceiveResult(n, i)
    <3>1. /\ Ack(n, i) /\ handler' = handler
          /\ up' = [up EXCEPT ![n][i] = Tail(@)] /\ up[n][i] # <<>>
      BY <2>8 DEF ReceiveResult, Take, hubVars
    <3>2. /\ Len(down'[n][i]) = q + 1 /\ Len(up'[n][i]) = u - 1 /\ Len(up'[n][i]) \in Nat
          /\ s1 = s
      BY <2>3, <2>6, <2>7, <3>1
    <3> QED  BY <2>5, <3>2
  <2>9. CASE ReceiveHeartbeat(n, i)
    <3>1. /\ down' = down /\ handler[n][i] = "receive" /\ handler'[n][i] = "storing"
          /\ up' = [up EXCEPT ![n][i] = Tail(@)] /\ up[n][i] # <<>>
      BY <1>0, <2>9 DEF ReceiveHeartbeat, Take
    <3>2. /\ Len(down'[n][i]) = q /\ Len(up'[n][i]) = u - 1 /\ Len(up'[n][i]) \in Nat
          /\ s = 0 /\ s1 = 1
      BY <2>3, <2>4, <2>7, <3>1
    <3> QED  BY <2>5, <3>2
  <2>10. CASE Stored(n, i)
    <3>1. /\ Ack(n, i) /\ handler[n][i] = "storing" /\ handler'[n][i] = "receive" /\ up' = up
      BY <1>0, <2>10 DEF Stored
    <3>2. Len(down'[n][i]) = q + 1 /\ Len(up'[n][i]) = u /\ s = 1 /\ s1 = 0
      BY <2>3, <2>4, <2>6, <3>1
    <3> QED  BY <2>5, <3>2
  <2>11. ~(RejectMismatch(n, i) \/ StoreFail(n, i) \/ Disconnect(n, i))
    BY <1>0 DEF RejectMismatch, StoreFail, Disconnect, CloseHandler, Open
  <2> QED  BY <2>8, <2>9, <2>10, <2>11 DEF HandlerNext
<1> QED  BY <1>4, <1>5 DEF LagInv

LEMMA LagCall ==
    ASSUME TypeInv, Once, LagInv, [Next]_vars, ~Restart, NEW c \in Cmd, CallNext(c)
    PROVE  LagInv'
<1>1. /\ UNCHANGED <<epoch, ws, pc, job, runs>>
      /\ \/ Still
         \/ Put(c) /\ \E n \in Node, i \in Conn : /\ n = call[c].node /\ i = call[c].conn
                                                  /\ Open(n, i) /\ Changes(n, i)
  BY CallChanges
<1>2. handler' = handler
  BY DEF CallNext, Issue, Put, SendFail, Return, Timeout, hubVars
<1>3. ASSUME NEW d \in Cmd, Put(d), ~Put(c)  PROVE FALSE
  <2>1. call[d].st = "sending" /\ call'[d].st = "waiting"
    BY <1>3 DEF Put, TypeInv, TypeOK, Call
  <2>2. d # c  BY <1>3
  <2>3. \E r : call' = [call EXCEPT ![c] = r]
    BY <1>3 DEF CallNext, Issue, SendFail, Return, Timeout, EndCall
  <2> QED  BY <2>1, <2>2, <2>3 DEF TypeInv, TypeOK
<1>4. ASSUME NEW d \in Cmd, Put(d)  PROVE d = c
  <2>1. Put(c)  BY <1>3, <1>4
  <2>2. call[d].st = "sending" /\ call'[d].st = "waiting"
    BY <1>4 DEF Put, TypeInv, TypeOK, Call
  <2>3. \E r : call' = [call EXCEPT ![c] = r]  BY <2>1 DEF Put
  <2> QED  BY <2>2, <2>3 DEF TypeInv, TypeOK
<1>5. ASSUME NEW m \in Node, NEW j \in Conn,
             Put(c) => ~(call[c].node = m /\ call[c].conn = j)
      PROVE  LagAt(m, j)'
  <2>1. Written(m, j)' = Written(m, j)  BY <1>4, <1>5, WrittenSame
  <2>2. Answered(m, j)' = Answered(m, j)  BY <1>1, <2>1 DEF Answered
  <2>3. up'[m][j] = up[m][j] /\ down'[m][j] = down[m][j]
    BY <1>1, <1>5 DEF Still, Changes
  <2>4. LagAt(m, j)  BY DEF LagInv
  <2>5. ws' = ws /\ pc' = pc  BY <1>1
  <2> QED  BY <1>2, <2>1, <2>2, <2>3, <2>4, <2>5, LagFrame DEF Open
<1>6. ASSUME NEW n \in Node, NEW i \in Conn, Put(c), call[c].node = n, call[c].conn = i
      PROVE  LagAt(n, i)'
  <2> SUFFICES ASSUME ws[n] = i, Open(n, i)  PROVE LagAt(n, i)'
    BY <1>1, <1>2 DEF LagAt, Open
  <2>1. /\ IsFiniteSet(Written(n, i))
        /\ Len(down[n][i]) + Len(up[n][i]) + Count(handler[n][i] = "storing")
              = Count(pc[n] = "reading")
                  + Cardinality(Written(n, i)) + Cardinality(Answered(n, i))
    BY DEF LagInv, LagAt
  <2>2. Written(n, i)' = Written(n, i) \cup {c} /\ c \notin Written(n, i)
    BY <1>6, WrittenPut
  <2>3. /\ IsFiniteSet(Written(n, i)')
        /\ Cardinality(Written(n, i)') = Cardinality(Written(n, i)) + 1
    BY <2>1, <2>2, FS_AddElement
  <2>4. Answered(n, i)' = Answered(n, i)
    <3>1. runs[c] = <<>>  BY <1>6 DEF Once, Unsent, Put
    <3> QED  BY <1>1, <2>2, <3>1 DEF Answered
  <2>5. /\ down[n][i] \in Seq(DownMsg) /\ Len(down[n][i]) \in Nat
        /\ up[n][i] \in Seq(UpMsg) /\ Len(up[n][i]) \in Nat
    BY QueueType
  <2>6. Len(down'[n][i]) = Len(down[n][i]) + 1
    <3>1. down'[n][i] = Append(down[n][i], Run(c))
      BY <1>6 DEF Put, SendDown, TypeInv, TypeOK
    <3> QED  BY <2>5, <3>1, MessageTypes, AppendAt
  <2>7. up' = up /\ pc' = pc  BY <1>1, <1>6 DEF Put
  <2>8. PICK q \in Nat, u \in Nat, s \in Nat, r \in Nat, w \in Nat, a \in Nat :
           /\ q = Len(down[n][i]) /\ u = Len(up[n][i])
           /\ s = Count(handler[n][i] = "storing") /\ r = Count(pc[n] = "reading")
           /\ w = Cardinality(Written(n, i)) /\ a = Cardinality(Answered(n, i))
    <3>1. Count(handler[n][i] = "storing") \in Nat /\ Count(pc[n] = "reading") \in Nat
      BY DEF Count
    <3>2. Cardinality(Written(n, i)) \in Nat /\ Cardinality(Answered(n, i)) \in Nat
      BY <2>1, AnsweredType
    <3> QED  BY <2>5, <3>1, <3>2, Zenon
  <2>9. q + u + s = r + w + a  BY <2>1, <2>8, Zenon
  <2>10. (q + 1) + u + s = r + (w + 1) + a  BY <2>9
  <2>11. Len(down'[n][i]) + Len(up'[n][i]) + Count(handler'[n][i] = "storing")
            = Count(pc'[n] = "reading")
                 + Cardinality(Written(n, i)') + Cardinality(Answered(n, i)')
    BY <1>2, <2>3, <2>4, <2>6, <2>7, <2>8, <2>10, Zenon
  <2> QED  BY <2>3, <2>11, Zenon DEF LagAt
<1> QED  BY <1>5, <1>6 DEF LagInv

LEMMA LagStep ==
    ASSUME TypeInv, Once, Places, LagInv, [Next]_vars
    PROVE  LagInv'
<1>1. ASSUME NEW n \in Node, AgentNext(n)  PROVE LagInv'
  BY <1>1, LagConnect, LagAgent
<1>2. ASSUME NEW n \in Node, NEW i \in Conn, HandlerNext(n, i)  PROVE LagInv'
  BY <1>2, LagHandler
<1>3. CASE Restart
  BY <1>3 DEF Restart, LagInv, LagAt, Open
<1>4. ASSUME NEW c \in Cmd, CallNext(c)  PROVE LagInv'
  BY <1>3, <1>4, LagCall
<1>5. CASE UNCHANGED vars
  <2>1. \A n \in Node, i \in Conn : Written(n, i)' = Written(n, i)
    BY <1>5 DEF vars, callVars, Written
  <2>2. \A n \in Node, i \in Conn : Answered(n, i)' = Answered(n, i)
    BY <1>5, <2>1 DEF vars, agentVars, Answered
  <2>3. UNCHANGED <<ws, pc, down, up, handler>>
    BY <1>5 DEF vars, agentVars, netVars, hubVars
  <2>4. ASSUME NEW n \in Node, NEW i \in Conn  PROVE LagAt(n, i)'
    <3>1. LagAt(n, i)  BY DEF LagInv
    <3> QED  BY <2>1, <2>2, <2>3, <3>1, LagFrame DEF Open
  <2> QED  BY <2>4 DEF LagInv
<1> QED  BY <1>1, <1>2, <1>3, <1>4, <1>5 DEF Next

LEMMA LagInit == Init => Places /\ LagInv
<1> SUFFICES ASSUME Init PROVE Places /\ LagInv  OBVIOUS
<1>1. NoConn \notin Conn /\ Conn \subseteq Nat  BY NoConnApart
<1>2. Made  BY DEF Init, Made, NoConn
<1>3. Assigned /\ Crashed  BY DEF Init, Assigned, Crashed, NoConn
<1>4. Jobs  BY SessionAssumption DEF Init, Jobs
<1>5. LagInv  BY <1>1 DEF Init, LagInv, LagAt, Open
<1> QED  BY <1>2, <1>3, <1>4, <1>5 DEF Places

\* The inductive invariant of the queues.
LEMMA LagInvariant == Spec => [](TypeInv /\ LagInv)
<1> DEFINE Inv == TypeInv /\ Once /\ Places /\ LagInv
<1>1. Init => Inv  BY TypeInit, OnceInit, LagInit
<1>2. Inv /\ [Next]_vars => Inv'
  <2> SUFFICES ASSUME Inv, [Next]_vars PROVE Inv'  OBVIOUS
  <2>1. TypeInv' /\ Once'  BY TypeStep, OnceStep
  <2>2. Made' /\ Assigned' /\ Crashed' /\ Jobs'
    BY MadeStep, AssignedStep, CrashedStep, JobsStep DEF Places
  <2>3. LagInv'  BY LagStep
  <2> QED  BY <2>1, <2>2, <2>3 DEF Places
<1>3. Inv => TypeInv /\ LagInv  OBVIOUS
<1> QED  BY <1>1, <1>2, <1>3, PTL DEF Spec

\* The queues of a connection in use hold the answer that is waited for, and two
\* messages for each command that came and went (Agent._heartbeat_loop reads one
\* message for each heartbeat): they grow with every command, and with nothing else.
THEOREM LagIsExact == Spec => []ResponseLag
<1>1. LagInv => ResponseLag  BY DEF LagInv, LagAt, ResponseLag
<1> QED  BY <1>1, LagInvariant, PTL
=============================================================================
