--------------------------- MODULE Cluster_proofs ---------------------------
(***************************************************************************)
(* Proofs about Cluster: it implements both of its components, so that     *)
(* what was proved of each holds of the whole.                             *)
(***************************************************************************)
EXTENDS Cluster, Session_proofs

RP == INSTANCE Registry_proofs WITH
    Handler <- Node \X Conn, NodeOf <- [h \in Node \X Conn |-> h[1]],
    Faults <- TRUE

clusterVars == <<vars, registryVars, clockVars>>

LEMMA SessionStep == [ClusterNext]_clusterVars => [Next]_vars
<1>. SUFFICES ASSUME [ClusterNext]_clusterVars PROVE [Next]_vars
  OBVIOUS
<1>1. ASSUME NEW n \in Node, AgentStep(n) PROVE Next
  BY <1>1 DEF AgentStep, Joins, Beats, Sleeps, Works, Replies, Leaves, Next, AgentNext
<1>2. ASSUME NEW n \in Node, NEW i \in Conn, HandlerStep(n, i) PROVE Next
  BY <1>2 DEF HandlerStep, Stores, Ends, Next, HandlerNext
<1>3. CASE StatementStep
  BY <1>3 DEF StatementStep
<1>4. CASE CallStep
  BY <1>4 DEF CallStep, Next
<1>5. CASE HubEndStep \/ HubStartStep
  BY <1>5 DEF HubEndStep, HubStartStep, Next
<1>6. CASE Tick
  BY <1>6 DEF Tick
<1>7. CASE UNCHANGED clusterVars
  BY <1>7 DEF clusterVars
<1>. QED
  BY <1>1, <1>2, <1>3, <1>4, <1>5, <1>6, <1>7 DEF ClusterNext

LEMMA RegistryStep == [ClusterNext]_clusterVars => [R!Next]_(R!vars)
<1>. SUFFICES ASSUME [ClusterNext]_clusterVars PROVE [R!Next]_(R!vars)
  OBVIOUS
<1>0. registryVars = R!vars
  BY DEF registryVars, R!vars
<1>1. ASSUME NEW n \in Node, AgentStep(n) PROVE UNCHANGED R!vars
  BY <1>0, <1>1 DEF AgentStep, registryVars, R!vars
<1>2. ASSUME NEW n \in Node, NEW i \in Conn, HandlerStep(n, i) PROVE [R!Next]_(R!vars)
  <2>1. <<n, i>> \in Node \X Conn
    OBVIOUS
  <2>. QED
    BY <1>2, <2>1 DEF HandlerStep, Stores, Ends, R!Next, R!HandlerNext, R!Statement, registryVars, R!vars
<1>3. CASE StatementStep
  BY <1>3 DEF StatementStep, R!Next, R!HandlerNext, R!Statement
<1>4. CASE CallStep
  BY <1>4 DEF CallStep, registryVars, R!vars
<1>5. CASE HubEndStep \/ HubStartStep
  BY <1>5 DEF HubEndStep, HubStartStep, R!Next
<1>6. CASE Tick
  BY <1>6 DEF Tick, R!Next
<1>7. CASE UNCHANGED clusterVars
  BY <1>7 DEF clusterVars, registryVars, R!vars
<1>. QED
  BY <1>1, <1>2, <1>3, <1>4, <1>5, <1>6, <1>7 DEF ClusterNext

\* The composition implements both components.
THEOREM Components == ClusterSpec => Spec /\ R!Spec
<1>1. ClusterInit => Init /\ R!Init
  BY DEF ClusterInit
<1>. QED
  BY <1>1, SessionStep, RegistryStep, PTL DEF ClusterSpec, clusterVars, Spec, R!Spec

-----------------------------------------------------------------------------
(* The two instances of the registry, of its module and of its proofs, are one *)

LEMMA SameInit == R!Init <=> RP!Init
BY DEF R!Init, RP!Init, R!Idle, RP!Idle

LEMMA SameStatements ==
    ASSUME NEW h \in Node \X Conn
    PROVE  R!HandlerNext(h) <=> RP!HandlerNext(h)
<1>1. R!RegisterNode(h) <=> RP!RegisterNode(h)
  BY DEF R!RegisterNode, RP!RegisterNode, R!HubRuns, RP!HubRuns, R!SweepVars, RP!SweepVars, R!Busy, RP!Busy, R!Advance, RP!Advance, R!Idle, RP!Idle, R!DefaultStatus, RP!DefaultStatus
<1>2. R!ProcessHeartbeat(h) <=> RP!ProcessHeartbeat(h)
  BY DEF R!ProcessHeartbeat, RP!ProcessHeartbeat, R!SweepVars, RP!SweepVars, R!Busy, RP!Busy, R!Advance, RP!Advance, R!Idle, RP!Idle, R!DefaultStatus, RP!DefaultStatus
<1>3. R!UpsertNode(h) <=> RP!UpsertNode(h)
  BY DEF R!UpsertNode, RP!UpsertNode, R!SweepVars, RP!SweepVars, R!Busy, RP!Busy, R!Advance, RP!Advance, R!Idle, RP!Idle, R!DefaultStatus, RP!DefaultStatus
<1>4. R!SetOnline(h) <=> RP!SetOnline(h)
  BY DEF R!SetOnline, RP!SetOnline, R!SweepVars, RP!SweepVars, R!Busy, RP!Busy, R!Advance, RP!Advance, R!Idle, RP!Idle, R!DefaultStatus, RP!DefaultStatus
<1>5. R!UpdateNode(h) <=> RP!UpdateNode(h)
  BY DEF R!UpdateNode, RP!UpdateNode, R!SweepVars, RP!SweepVars, R!Busy, RP!Busy, R!Advance, RP!Advance, R!Idle, RP!Idle, R!DefaultStatus, RP!DefaultStatus
<1>6. R!InsertHeartbeat(h) <=> RP!InsertHeartbeat(h)
  BY DEF R!InsertHeartbeat, RP!InsertHeartbeat, R!SweepVars, RP!SweepVars, R!Busy, RP!Busy, R!Advance, RP!Advance, R!Idle, RP!Idle, R!DefaultStatus, RP!DefaultStatus
<1>7. R!StatementFails(h) <=> RP!StatementFails(h)
  BY DEF R!StatementFails, RP!StatementFails, R!SweepVars, RP!SweepVars, R!Busy, RP!Busy, R!Advance, RP!Advance, R!Idle, RP!Idle, R!DefaultStatus, RP!DefaultStatus
<1>8. R!Disconnect(h) <=> RP!Disconnect(h)
  BY DEF R!Disconnect, RP!Disconnect, R!SweepVars, RP!SweepVars, R!Busy, RP!Busy, R!Advance, RP!Advance, R!Idle, RP!Idle, R!DefaultStatus, RP!DefaultStatus
<1>. QED
  BY <1>1, <1>2, <1>3, <1>4, <1>5, <1>6, <1>7, <1>8 DEF R!HandlerNext, RP!HandlerNext, R!Statement, RP!Statement

LEMMA SameNext == [R!Next]_(R!vars) <=> [RP!Next]_(RP!vars)
<1>1. R!StartSweep <=> RP!StartSweep
  BY DEF R!StartSweep, RP!StartSweep, R!SelectStale, RP!SelectStale, R!Overdue, RP!Overdue, R!BackToSleep, RP!BackToSleep, R!Idle, RP!Idle, R!Busy, RP!Busy, R!Older, RP!Older
<1>2. R!MarkStale <=> RP!MarkStale
  BY DEF R!MarkStale, RP!MarkStale, R!SelectStale, RP!SelectStale, R!Overdue, RP!Overdue, R!BackToSleep, RP!BackToSleep, R!Idle, RP!Idle, R!Busy, RP!Busy, R!Older, RP!Older
<1>3. R!SweepFails <=> RP!SweepFails
  BY DEF R!SweepFails, RP!SweepFails, R!HubRuns, RP!HubRuns, R!BackToSleep, RP!BackToSleep
<1>4. R!HubEnds <=> RP!HubEnds
  BY DEF R!HubEnds, RP!HubEnds, R!HubRuns, RP!HubRuns, R!Idle, RP!Idle
<1>4a. R!HubStarts <=> RP!HubStarts
  BY DEF R!HubStarts, RP!HubStarts, R!HubRuns, RP!HubRuns
<1>5. R!Tick <=> RP!Tick
  BY DEF R!Tick, RP!Tick, R!SweeperWaits, RP!SweeperWaits, R!StaysDown, RP!StaysDown,
     R!HubRuns, RP!HubRuns, R!Busy, RP!Busy, R!Older, RP!Older
<1>6. R!Next <=> RP!Next
  BY SameStatements, <1>1, <1>2, <1>3, <1>4, <1>4a, <1>5 DEF R!Next, RP!Next
<1>7. UNCHANGED R!vars <=> UNCHANGED RP!vars
  BY DEF R!vars, RP!vars
<1>. QED
  BY <1>6, <1>7

\* The bound on what is counted online holds of the whole, where the end of the hub
\* takes the connections and the calls along and lasts for any number of ticks.
THEOREM OnlineInCluster == ClusterSpec => []R!OnlineIsRecent
<1>1. RP!RegistryAssumption
  BY ClusterAssumption DEF RP!RegistryAssumption
<1>2. RP!Spec => []RP!OnlineIsRecent
  BY <1>1, RP!CountedIsRecent
<1>3. RP!OnlineIsRecent <=> R!OnlineIsRecent
  BY DEF R!OnlineIsRecent, RP!OnlineIsRecent, R!OnlineNodes, RP!OnlineNodes
<1>. QED
  BY <1>2, <1>3, Components, SameInit, SameNext, PTL DEF R!Spec, RP!Spec
-----------------------------------------------------------------------------
(* The two views of a handler *)

\* The strengthening of ViewsAgree: a connection that the hub has not accepted yet is
\* as it was in the beginning.
ViewInv ==
    /\ ViewsAgree
    /\ \A n \in Node, i \in Conn : i > epoch[n] => handler[n][i] = "none"
    /\ \A n \in Node, i \in Conn : handler[n][i] = "none" => first[n][i]

\* What ViewInv says of one connection.
Agree(n, i) ==
    /\ handler[n][i] = "storing" <=> op[<<n, i>>].pc # "idle"
    /\ <<n, i>> \in known <=> Open(n, i) /\ ~first[n][i]
    /\ Open(n, i) => sweeper # "down"
    /\ i > epoch[n] => handler[n][i] = "none"
    /\ handler[n][i] = "none" => first[n][i]

LEMMA ViewInvParts == ViewInv <=> \A n \in Node, i \in Conn : Agree(n, i)
BY DEF ViewInv, ViewsAgree, Agree, R!Busy, R!HubRuns

LEMMA ViewInvPartsNext == ViewInv' <=> \A n \in Node, i \in Conn : Agree(n, i)'
BY DEF ViewInv, ViewsAgree, Agree, R!Busy, R!HubRuns

OpType == op \in [Node \X Conn -> [pc : RP!OpState, age : 0 .. MaxDelay]]

LEMMA ViewInvInit == ClusterInit => ViewInv
BY ViewInvParts DEF ClusterInit, Init, R!Init, R!Idle, Agree, Open

\* A step that leaves the state of the handlers alone, or the registry.
LEMMA ViewInvFrame ==
    ASSUME ViewInv, UNCHANGED <<handler, first, epoch, known>>,
           sweeper' = "down" => sweeper = "down",
           \A h \in Node \X Conn : op'[h].pc # "idle" <=> op[h].pc # "idle"
    PROVE  ViewInv'
<1>1. ASSUME NEW n \in Node, NEW i \in Conn PROVE Agree(n, i)'
  <2>1. Agree(n, i) /\ <<n, i>> \in Node \X Conn
    BY ViewInvParts
  <2>. QED
    BY <2>1 DEF Agree, Open
<1>. QED
  BY <1>1, ViewInvPartsNext

LEMMA ViewInvConnect ==
    ASSUME TypeOK, ViewInv, NEW n \in Node, R!HubRuns, Connect(n), UNCHANGED registryVars
    PROVE  ViewInv'
<1>1. epoch[n] \in Nat /\ epoch[n] + 1 \in Conn
  BY SessionAssumption DEF Connect, TypeOK, Conn, NoConn
<1>2. handler[n][epoch[n] + 1] = "none"
  BY <1>1 DEF ViewInv
<1>3. PICK st \in {"receive", "closed"} : handler' = [handler EXCEPT ![n][epoch[n] + 1] = st]
  BY DEF Connect, Accept
<1>4. /\ epoch' = [epoch EXCEPT ![n] = @ + 1] /\ UNCHANGED <<first, op, known>>
      /\ sweeper' = sweeper /\ sweeper # "down"
  BY DEF Connect, registryVars, R!HubRuns
<1>5. ASSUME NEW m \in Node, NEW i \in Conn, Agree(m, i) PROVE Agree(m, i)'
  <2>1. CASE m = n /\ i = epoch[n] + 1
    <3>1. handler'[m][i] = st /\ epoch'[m] = i
      BY <1>1, <1>3, <1>4, <2>1 DEF TypeOK
    <3>. QED
      BY <1>1, <1>2, <1>4, <1>5, <2>1, <3>1 DEF Agree, Open
  <2>2. CASE ~(m = n /\ i = epoch[n] + 1)
    <3>1. handler'[m][i] = handler[m][i]
      BY <1>3, <2>2 DEF TypeOK
    <3>2. epoch[m] \in Nat /\ i \in Nat /\ epoch'[m] \in Nat /\ epoch'[m] >= epoch[m]
      BY <1>1, <1>4 DEF TypeOK, Conn, NoConn
    <3>. QED
      BY <1>4, <1>5, <3>1, <3>2 DEF Agree, Open
  <2>. QED
    BY <2>1, <2>2
<1>. QED
  BY <1>5, ViewInvParts, ViewInvPartsNext

\* A step of one handler moves both of its views.
LEMMA ViewInvHandler ==
    ASSUME TypeOK, OpType, ViewInv, NEW n \in Node, NEW i \in Conn,
           \A m \in Node, j \in Conn : <<m, j>> # <<n, i>> =>
               /\ handler'[m][j] = handler[m][j] /\ first'[m][j] = first[m][j]
               /\ op'[<<m, j>>] = op[<<m, j>>]
               /\ <<m, j>> \in known' <=> <<m, j>> \in known,
           UNCHANGED <<epoch, sweeper>>, Agree(n, i)'
    PROVE  ViewInv'
<1>1. ASSUME NEW m \in Node, NEW j \in Conn PROVE Agree(m, j)'
  <2>1. CASE <<m, j>> = <<n, i>>
    BY <2>1
  <2>2. CASE <<m, j>> # <<n, i>>
    BY <2>2, ViewInvParts DEF Agree, Open
  <2>. QED
    BY <2>1, <2>2
<1>. QED
  BY <1>1, ViewInvPartsNext

LEMMA ViewInvHandlers ==
    ASSUME TypeOK, OpType, ViewInv, NEW n \in Node, NEW i \in Conn, HandlerStep(n, i)
    PROVE  ViewInv'
<1>. DEFINE h == <<n, i>>
<1>0. h \in Node \X Conn /\ Agree(n, i)
  BY ViewInvParts
<1>a. sweeper' = sweeper
  BY DEF HandlerStep, Stores, Ends, R!RegisterNode, R!ProcessHeartbeat, R!InsertHeartbeat,
     R!StatementFails, R!Disconnect, R!SweepVars, registryVars
<1>1. CASE Stores(n, i)
  <2>1. /\ handler' = [handler EXCEPT ![n][i] = "storing"] /\ handler[n][i] = "receive"
        /\ UNCHANGED <<epoch, first>>
    BY <1>1 DEF Stores, ReceiveHeartbeat, Take
  <2>2. UNCHANGED known /\ \E pc1 \in {"upsert", "beat"} :
                               op' = [op EXCEPT ![h] = [pc |-> pc1, age |-> 0]]
    BY <1>1 DEF Stores, R!RegisterNode, R!ProcessHeartbeat
  <2>3. Agree(n, i)'
    BY <1>0, <1>a, <2>1, <2>2 DEF Agree, Open, TypeOK, OpType
  <2>. QED
    BY <1>a, <2>1, <2>2, <2>3, ViewInvHandler DEF TypeOK, OpType
<1>2. CASE Stored(n, i) /\ R!InsertHeartbeat(h)
  <2>1. /\ handler' = [handler EXCEPT ![n][i] = "receive"] /\ handler[n][i] = "storing"
        /\ first' = [first EXCEPT ![n][i] = FALSE] /\ UNCHANGED epoch
    BY <1>2 DEF Stored
  <2>2. known' = known \cup {h} /\ op' = [op EXCEPT ![h] = [pc |-> "idle", age |-> 0]]
    BY <1>2 DEF R!InsertHeartbeat, R!Idle
  <2>3. Agree(n, i)'
    BY <1>0, <1>a, <2>1, <2>2 DEF Agree, Open, TypeOK, OpType
  <2>. QED
    BY <1>a, <2>1, <2>2, <2>3, ViewInvHandler DEF TypeOK, OpType
<1>3. CASE StoreFail(n, i) /\ R!StatementFails(h)
  <2>1. /\ handler' = [handler EXCEPT ![n][i] = "closed"] /\ handler[n][i] = "storing"
        /\ UNCHANGED <<epoch, first>>
    BY <1>3 DEF StoreFail, CloseHandler
  <2>2. known' = known \ {h} /\ op' = [op EXCEPT ![h] = [pc |-> "idle", age |-> 0]]
    BY <1>3 DEF R!StatementFails, R!Idle
  <2>3. Agree(n, i)'
    BY <1>0, <1>a, <2>1, <2>2 DEF Agree, Open, TypeOK, OpType
  <2>. QED
    BY <1>a, <2>1, <2>2, <2>3, ViewInvHandler DEF TypeOK, OpType
<1>4. CASE Ends(n, i)
  <2>1. /\ handler' = [handler EXCEPT ![n][i] = "closed"] /\ handler[n][i] = "receive"
        /\ UNCHANGED <<epoch, first>>
    BY <1>4 DEF Ends, Disconnect, CloseHandler
  <2>2. known' = known \ {h} /\ UNCHANGED op
    BY <1>4 DEF Ends, R!Disconnect, registryVars
  <2>3. Agree(n, i)'
    BY <1>0, <1>a, <2>1, <2>2 DEF Agree, Open, TypeOK, OpType
  <2>. QED
    BY <1>a, <2>1, <2>2, <2>3, ViewInvHandler DEF TypeOK
<1>5. CASE ReceiveResult(n, i) /\ UNCHANGED registryVars
  BY <1>5, <1>a, ViewInvFrame DEF ReceiveResult, hubVars, registryVars
<1>6. CASE RejectMismatch(n, i) /\ UNCHANGED registryVars
  <2>1. /\ handler' = [handler EXCEPT ![n][i] = "closed"] /\ handler[n][i] = "receive"
        /\ first[n][i] /\ UNCHANGED <<epoch, first>>
    BY <1>6 DEF RejectMismatch, Take, CloseHandler
  <2>2. UNCHANGED <<known, op>>
    BY <1>6 DEF registryVars
  <2>3. Agree(n, i)'
    BY <1>0, <1>a, <2>1, <2>2 DEF Agree, Open, TypeOK
  <2>. QED
    BY <1>a, <2>1, <2>2, <2>3, ViewInvHandler DEF TypeOK
<1>. QED
  BY <1>1, <1>2, <1>3, <1>4, <1>5, <1>6 DEF HandlerStep

LEMMA ViewInvStep ==
    TypeOK /\ OpType /\ ViewInv /\ [ClusterNext]_clusterVars => ViewInv'
<1>. SUFFICES ASSUME TypeOK, OpType, ViewInv, [ClusterNext]_clusterVars PROVE ViewInv'
  OBVIOUS
<1>1. ASSUME NEW n \in Node, AgentStep(n) PROVE ViewInv'
  <2>1. CASE Joins(n)
    BY <1>1, <2>1, ViewInvConnect DEF AgentStep, Joins
  <2>2. CASE ~Joins(n)
    <3>1. UNCHANGED <<handler, first, epoch>>
      BY <1>1, <2>2 DEF AgentStep, Beats, Sleeps, Works, Replies, Leaves, SendHeartbeat,
         ReadOk, ReadCommand, Recv, Reply, Drop, Stop, Start, Leave, hubVars, netVars
    <3>2. UNCHANGED <<known, op, sweeper>>
      BY <1>1 DEF AgentStep, registryVars
    <3>. QED
      BY <3>1, <3>2, ViewInvFrame
  <2>. QED
    BY <2>1, <2>2
<1>2. ASSUME NEW n \in Node, NEW i \in Conn, HandlerStep(n, i) PROVE ViewInv'
  BY <1>2, ViewInvHandlers
<1>3. CASE StatementStep
  <2>1. UNCHANGED <<handler, first, epoch>>
    BY <1>3 DEF StatementStep, vars, hubVars, netVars
  <2>2. ASSUME NEW h \in Node \X Conn, R!UpsertNode(h) \/ R!SetOnline(h) \/ R!UpdateNode(h)
        PROVE  ViewInv'
    <3>1. op[h].pc # "idle" /\ \E pc1 \in {"online", "insert"} : op' = [op EXCEPT ![h].pc = pc1]
      BY <2>2 DEF R!UpsertNode, R!SetOnline, R!UpdateNode, R!Advance
    <3>2. UNCHANGED <<known, sweeper>>
      BY <2>2 DEF R!UpsertNode, R!SetOnline, R!UpdateNode, R!SweepVars
    <3>3. \A k \in Node \X Conn : op'[k].pc # "idle" <=> op[k].pc # "idle"
      BY <3>1 DEF OpType
    <3>. QED
      BY <2>1, <3>2, <3>3, ViewInvFrame
  <2>3. CASE R!StartSweep \/ R!MarkStale \/ R!SweepFails
    <3>1. UNCHANGED <<known, op>> /\ sweeper' # "down"
      BY <2>3 DEF R!StartSweep, R!MarkStale, R!SweepFails, R!BackToSleep
    <3>. QED
      BY <2>1, <3>1, ViewInvFrame
  <2>. QED
    BY <1>3, <2>2, <2>3 DEF StatementStep
<1>4. CASE CallStep
  <2>1. UNCHANGED <<handler, first, epoch, known, op, sweeper>>
    BY <1>4 DEF CallStep, CallNext, Issue, Put, SendFail, Return, Timeout, hubVars, netVars, registryVars
  <2>. QED
    BY <2>1, ViewInvFrame
<1>5. CASE HubEndStep
  <2>1. known' = {} /\ op' = [h \in Node \X Conn |-> [pc |-> "idle", age |-> 0]]
    BY <1>5 DEF HubEndStep, R!HubEnds, R!Idle
  <2>2. /\ \A n \in Node, i \in Conn : handler'[n][i] = IF Open(n, i) THEN "closed" ELSE handler[n][i]
        /\ UNCHANGED <<first, epoch>>
    BY <1>5 DEF HubEndStep, Restart
  <2>3. \A n \in Node, i \in Conn : Agree(n, i) => Agree(n, i)'
    BY <2>1, <2>2 DEF Agree, Open
  <2>. QED
    BY <2>3, ViewInvParts, ViewInvPartsNext
<1>6. CASE Tick
  <2>1. UNCHANGED <<handler, first, epoch>>
    BY <1>6 DEF Tick, vars, hubVars, netVars
  <2>2. UNCHANGED <<known, sweeper>> /\ \A h \in Node \X Conn : op'[h].pc = op[h].pc
    BY <1>6 DEF Tick, R!Tick, OpType
  <2>. QED
    BY <2>1, <2>2, ViewInvFrame
<1>7. CASE UNCHANGED clusterVars
  <2>1. UNCHANGED <<handler, first, epoch, known, op, sweeper>>
    BY <1>7 DEF clusterVars, vars, hubVars, netVars, registryVars
  <2>. QED
    BY <2>1, ViewInvFrame
<1>8. CASE HubStartStep
  <2>1. UNCHANGED <<handler, first, epoch, known, op>> /\ sweeper' = "sleep"
    BY <1>8 DEF HubStartStep, R!HubStarts, vars, hubVars, netVars
  <2>. QED
    BY <2>1, ViewInvFrame
<1>. QED
  BY <1>1, <1>2, <1>3, <1>4, <1>5, <1>6, <1>7, <1>8 DEF ClusterNext

\* The two views of a handler agree.
THEOREM HandlersAgree == ClusterSpec => []ViewsAgree
<1>1. RP!Spec => []RP!TypeOK
  <2>1. RP!RegistryAssumption
    BY ClusterAssumption DEF RP!RegistryAssumption
  <2>. QED
    BY <2>1, RP!TypeCorrect
<1>2. RP!TypeOK => OpType
  BY DEF RP!TypeOK, OpType
<1>3. ViewInv => ViewsAgree
  BY DEF ViewInv
<1>. QED
  BY <1>1, <1>2, <1>3, TypeCorrect, Components, SameInit, SameNext, ViewInvInit, ViewInvStep, PTL
     DEF ClusterSpec, R!Spec, RP!Spec, clusterVars

-----------------------------------------------------------------------------
(* A steady agent is counted online: how long the next heartbeat may take    *)

Cycle == Interval + 2 * MaxDelay

\* Where the handler of the connection in use is.
Mine(n) == op[<<n, ws[n]>>]

\* A heartbeat is on its way to the hub.
Coming(n) == \E k \in 1 .. Len(up[n][ws[n]]) : up[n][ws[n]][k] = Heartbeat

\* The ticks until the agent has sent its next heartbeat.
RestOf(coming, state, t) ==
    IF coming THEN 0 ELSE IF state = "idle" THEN Interval - t ELSE Interval

\* The ticks until the next UPDATE that writes the node's timestamp and status.
LeftOf(o, rest) ==
    IF o.pc = "idle" THEN rest + MaxDelay
    ELSE IF o.pc = "insert" THEN (MaxDelay - o.age) + (rest + MaxDelay)
    ELSE MaxDelay - o.age

Rest(n) == RestOf(Coming(n), pc[n], clock[n])
Left(n) == IF Undisturbed(n) THEN LeftOf(Mine(n), Rest(n)) ELSE 0

LEMMA RestOfBounds ==
    ASSUME NEW coming, NEW state, NEW t \in Nat, state = "idle" => t <= Interval
    PROVE  RestOf(coming, state, t) \in 0 .. Interval
BY ClusterAssumption DEF RestOf

LEMMA LeftOfBounds ==
    ASSUME NEW o \in [pc : RP!OpState, age : 0 .. MaxDelay], NEW rest \in 0 .. Interval
    PROVE  /\ LeftOf(o, rest) \in Nat
           /\ LeftOf(o, rest) <= Cycle
           /\ o.pc = "insert" => LeftOf(o, rest) + o.age <= Interval + 2 * MaxDelay
           /\ o.pc # "insert" => LeftOf(o, rest) <= Interval + MaxDelay
BY ClusterAssumption DEF LeftOf, Cycle

\* What the registry gives.
HubInv ==
    /\ row \in [Node -> [status : RP!Status, age : 0 .. MaxAge]]
    /\ OpType
    /\ sweeper \in {"sleep", "update", "down"}
    /\ timer \in Nat /\ (sweeper = "update" => timer <= MaxDelay)
    /\ stale_ids \in SUBSET Node
    /\ \A n \in Node, i \in Conn :
          /\ op[<<n, i>>].pc = "beat" => row[n].status # "absent"
          /\ op[<<n, i>>].pc \in {"online", "insert"} => row[n].age <= MaxDelay + op[<<n, i>>].age

LEMMA HubInvHolds == RP!TypeOK /\ RP!StatusInv /\ RP!RecentInv => HubInv
<1>. SUFFICES ASSUME RP!TypeOK, RP!StatusInv, RP!RecentInv PROVE HubInv
  OBVIOUS
<1>1. /\ row \in [Node -> [status : RP!Status, age : 0 .. MaxAge]]
      /\ OpType
      /\ sweeper \in {"sleep", "update", "down"}
      /\ timer \in Nat /\ (sweeper = "update" => timer <= MaxDelay)
      /\ stale_ids \in SUBSET Node
  BY ClusterAssumption DEF RP!TypeOK, RP!Age, OpType
<1>2. ASSUME NEW n \in Node, NEW i \in Conn
      PROVE  /\ op[<<n, i>>].pc = "beat" => row[n].status # "absent"
             /\ op[<<n, i>>].pc \in {"online", "insert"} =>
                    row[n].age <= MaxDelay + op[<<n, i>>].age
  <2>1. <<n, i>> \in Node \X Conn /\ [h \in Node \X Conn |-> h[1]][<<n, i>>] = n
    OBVIOUS
  <2>. QED
    BY <2>1 DEF RP!StatusInv, RP!RecentInv, RP!Listed
<1>. QED
  BY <1>1, <1>2 DEF HubInv

\* An agent sleeps for an interval at most.
ClockInv ==
    /\ clock \in [Node -> Nat]
    /\ steady \in [Node -> 0 .. Settled]
    /\ \A n \in Node : Asleep(n) => clock[n] <= Interval

Bounds ==
    \A n \in Node :
        /\ Left(n) \in Nat /\ Left(n) <= Cycle
        /\ IF Undisturbed(n) /\ Mine(n).pc = "insert"
           THEN row[n].age + Left(n) <= Interval + 3 * MaxDelay
           ELSE Left(n) <= Interval + MaxDelay

LEMMA BoundsHold == TypeOK /\ HubInv /\ ClockInv => Bounds
<1>. SUFFICES ASSUME TypeOK, HubInv, ClockInv, NEW n \in Node
              PROVE  /\ Left(n) \in Nat /\ Left(n) <= Cycle
                     /\ IF Undisturbed(n) /\ Mine(n).pc = "insert"
                        THEN row[n].age + Left(n) <= Interval + 3 * MaxDelay
                        ELSE Left(n) <= Interval + MaxDelay
  BY DEF Bounds
<1>0. Interval \in Nat /\ MaxDelay \in Nat
  BY ClusterAssumption
<1>1. CASE ~Undisturbed(n)
  BY <1>0, <1>1 DEF Left, Cycle
<1>2. CASE Undisturbed(n)
  <2>1. ws[n] \in Conn /\ <<n, ws[n]>> \in Node \X Conn
    BY <1>2 DEF Undisturbed, TypeOK
  <2>2. Mine(n) \in [pc : RP!OpState, age : 0 .. MaxDelay]
    BY <2>1 DEF Mine, HubInv, OpType
  <2>3. Rest(n) \in 0 .. Interval
    <3>1. pc[n] = "idle" => clock[n] <= Interval
      BY <1>2 DEF ClockInv, Asleep, Undisturbed
    <3>. QED
      BY <3>1, RestOfBounds DEF Rest, ClockInv
  <2>4. /\ Left(n) \in Nat /\ Left(n) <= Cycle
        /\ Mine(n).pc = "insert" => Left(n) + Mine(n).age <= Interval + 2 * MaxDelay
        /\ Mine(n).pc # "insert" => Left(n) <= Interval + MaxDelay
    BY <1>2, <2>2, <2>3, LeftOfBounds DEF Left
  <2>5. Mine(n).pc = "insert" => row[n].age <= MaxDelay + Mine(n).age
    BY <2>1 DEF HubInv, Mine
  <2>6. row[n].age \in Nat /\ Mine(n).age \in Nat
    BY <1>0, <2>2 DEF HubInv
  <2>. QED
    BY <1>0, <1>2, <2>4, <2>5, <2>6
<1>. QED
  BY <1>1, <1>2

\* What a step leaves of an agent and of the connection it uses.
SameAgent(n) ==
    /\ ws'[n] = ws[n] /\ pc'[n] = pc[n] /\ clock'[n] = clock[n] /\ steady'[n] = steady[n]
    /\ up'[n] = up[n] /\ handler'[n] = handler[n]

LEMMA LeftFrame ==
    ASSUME NEW n \in Node, ws'[n] = ws[n], pc'[n] = pc[n], clock'[n] = clock[n],
           Undisturbed(n) => /\ handler'[n][ws[n]] = handler[n][ws[n]]
                             /\ Coming(n)' = Coming(n)
                             /\ op'[<<n, ws[n]>>] = op[<<n, ws[n]>>],
           ~Undisturbed(n) => ~Undisturbed(n)'
    PROVE  Left(n)' = Left(n)
BY DEF Left, Undisturbed, Mine, Rest, Open

LEMMA SameAgentLeft ==
    ASSUME NEW n \in Node, SameAgent(n),
           Undisturbed(n) => op'[<<n, ws[n]>>] = op[<<n, ws[n]>>]
    PROVE  Left(n)' = Left(n)
<1>1. Coming(n)' = Coming(n)
  BY DEF SameAgent, Coming
<1>2. Undisturbed(n)' = Undisturbed(n)
  BY DEF SameAgent, Undisturbed, Open
<1>. QED
  BY <1>1, <1>2, LeftFrame DEF SameAgent

LEMMA OtherAgents ==
    ASSUME TypeOK, ClockInv, NEW n \in Node, AgentStep(n), NEW m \in Node, m # n
    PROVE  SameAgent(m)
<1>1. ws'[m] = ws[m] /\ pc'[m] = pc[m]
  BY DEF TypeOK, AgentStep, Joins, Beats, Sleeps, Works, Replies, Leaves, Connect, SendHeartbeat,
     ReadOk, ReadCommand, Recv, Reply, Drop, Stop, Start, Leave
<1>2. clock'[m] = clock[m] /\ steady'[m] = steady[m]
  BY DEF ClockInv, AgentStep, Joins, Beats, Sleeps, Works, Replies, Leaves, Wakes, Disturbs, clockVars
<1>3. up'[m] = up[m]
  BY DEF TypeOK, AgentStep, Joins, Beats, Sleeps, Works, Replies, Leaves, Connect, SendHeartbeat,
     ReadOk, ReadCommand, Recv, Reply, Drop, Stop, Start, Leave, SendUp, netVars
<1>4. handler'[m] = handler[m]
  BY DEF TypeOK, AgentStep, Joins, Beats, Sleeps, Works, Replies, Leaves, Connect, Accept,
     SendHeartbeat, ReadOk, ReadCommand, Recv, Reply, Drop, Stop, Start, Leave, hubVars
<1>. QED
  BY <1>1, <1>2, <1>3, <1>4 DEF SameAgent

LEMMA ClockInvStep ==
    ASSUME TypeOK, ClockInv, [ClusterNext]_clusterVars
    PROVE  ClockInv'
<1>. USE ClusterAssumption
<1>0. Settled \in Nat
  BY DEF Settled
<1>1. ASSUME NEW n \in Node, AgentStep(n) PROVE ClockInv'
  <2>1. \E t \in {0, Interval} : clock' = [clock EXCEPT ![n] = t] \/ clock' = clock
    BY <1>1 DEF AgentStep, Joins, Beats, Sleeps, Works, Replies, Leaves, Wakes, clockVars
  <2>2. steady' = steady \/ steady' = [steady EXCEPT ![n] = 0]
    BY <1>1 DEF AgentStep, Joins, Beats, Sleeps, Works, Replies, Leaves, Disturbs, clockVars
  <2>3. ASSUME NEW m \in Node, Asleep(m)' PROVE clock'[m] <= Interval
    <3>1. CASE m # n
      BY <1>1, <2>3, <3>1, OtherAgents DEF SameAgent, Asleep, ClockInv
    <3>2. CASE m = n /\ Beats(n)
      BY <2>3, <3>2 DEF Beats, SendHeartbeat, Asleep, TypeOK
    <3>3. CASE m = n /\ ~Beats(n)
      <4>1. \E t \in {0, Interval} : clock' = [clock EXCEPT ![n] = t]
        BY <1>1, <3>3 DEF AgentStep, Joins, Sleeps, Works, Replies, Leaves, Wakes
      <4>. QED
        BY <3>3, <4>1 DEF ClockInv
    <3>. QED
      BY <3>1, <3>2, <3>3
  <2>. QED
    BY <1>0, <2>1, <2>2, <2>3 DEF ClockInv
<1>2. CASE UNCHANGED <<pc, ws, clock, steady>>
  BY <1>2 DEF ClockInv, Asleep
<1>3. ASSUME NEW n \in Node, NEW i \in Conn, HandlerStep(n, i)
      PROVE  UNCHANGED <<pc, ws, clock, steady>>
  BY <1>3 DEF HandlerStep, Stores, Ends, ReceiveHeartbeat, Stored, StoreFail, Disconnect,
     ReceiveResult, RejectMismatch, agentVars, clockVars
<1>4. StatementStep => UNCHANGED <<pc, ws, clock, steady>>
  BY DEF StatementStep, vars, agentVars, clockVars
<1>5. CallStep => UNCHANGED <<pc, ws, clock, steady>>
  BY DEF CallStep, CallNext, Issue, Put, SendFail, Return, Timeout, agentVars, clockVars
<1>6. HubEndStep \/ HubStartStep => UNCHANGED <<pc, ws, clock, steady>>
  BY DEF HubEndStep, HubStartStep, Restart, vars, agentVars, clockVars
<1>7. CASE Tick
  <2>1. /\ clock' = [n \in Node |-> IF Asleep(n) \/ pc[n] = "running" THEN clock[n] + 1
                                    ELSE clock[n]]
        /\ steady' = [n \in Node |-> IF ~Undisturbed(n) THEN 0
                                     ELSE IF steady[n] < Settled THEN steady[n] + 1 ELSE Settled]
        /\ UNCHANGED <<pc, ws>>
    BY <1>7 DEF Tick, vars, agentVars
  <2>2. clock' \in [Node -> Nat] /\ steady' \in [Node -> 0 .. Settled]
    BY <1>0, <2>1 DEF ClockInv
  <2>3. ASSUME NEW n \in Node, Asleep(n)' PROVE clock'[n] <= Interval
    <3>1. Asleep(n) /\ clock[n] < Interval
      BY <1>7, <2>1, <2>3 DEF Tick, Waits, Asleep
    <3>. QED
      BY <2>1, <3>1 DEF ClockInv
  <2>. QED
    BY <2>2, <2>3 DEF ClockInv
<1>8. UNCHANGED clusterVars => UNCHANGED <<pc, ws, clock, steady>>
  BY DEF clusterVars, vars, agentVars, clockVars
<1>. QED
  BY <1>1, <1>2, <1>3, <1>4, <1>5, <1>6, <1>7, <1>8 DEF ClusterNext

\* An agent's own step disturbs it, or leaves the time until its next UPDATE.
LEMMA OwnAgent ==
    ASSUME TypeInv, NEW n \in Node, AgentStep(n), ClockInv
    PROVE  steady'[n] = 0 \/ (steady'[n] = steady[n] /\ Left(n)' = Left(n))
<1>. USE ClusterAssumption
<1>1. CASE Beats(n)
  <2>1. /\ clock[n] = Interval /\ pc[n] = "idle" /\ ws[n] # NoConn /\ pc'[n] = "reading"
        /\ UNCHANGED <<ws, handler, op, clock, steady>>
        /\ SendUp(n, Heartbeat)
    BY <1>1 DEF Beats, SendHeartbeat, AgentStep, TypeInv, TypeOK, hubVars, clockVars, registryVars
  <2>2. ASSUME Undisturbed(n) PROVE Coming(n)'
    <3>1. up' = [up EXCEPT ![n][ws[n]] = Append(@, Heartbeat)] /\ ws[n] \in Conn
      BY <2>1, <2>2 DEF SendUp, Undisturbed, TypeInv, TypeOK
    <3>2. up[n][ws[n]] \in Seq(UpMsg)
      BY <3>1 DEF TypeInv, TypeOK
    <3>3. up'[n][ws[n]] = Append(up[n][ws[n]], Heartbeat)
      BY <3>1 DEF TypeInv, TypeOK
    <3>4. /\ Len(up'[n][ws[n]]) \in 1 .. Len(up'[n][ws[n]])
          /\ up'[n][ws[n]][Len(up'[n][ws[n]])] = Heartbeat
      BY <3>2, <3>3, MessageTypes
    <3>. QED
      BY <2>1, <3>4 DEF Coming
  <2>3. Undisturbed(n)' = Undisturbed(n) /\ Mine(n)' = Mine(n)
    BY <2>1 DEF Undisturbed, Open, Mine
  <2>4. Undisturbed(n) => Rest(n)' = 0 /\ Rest(n) = 0
    BY <2>1, <2>2 DEF Rest, RestOf
  <2>5. Left(n)' = Left(n)
    BY <2>3, <2>4 DEF Left
  <2>. QED
    BY <2>1, <2>5
<1>2. CASE Sleeps(n)
  <2>1. /\ pc[n] = "reading" /\ pc'[n] = "idle" /\ clock'[n] = 0
        /\ UNCHANGED <<ws, up, handler, op, steady>>
    BY <1>2 DEF Sleeps, ReadOk, Recv, Wakes, AgentStep, TypeInv, TypeOK, hubVars, registryVars, ClockInv
  <2>2. Undisturbed(n)' = Undisturbed(n) /\ Mine(n)' = Mine(n) /\ Coming(n)' = Coming(n)
    BY <2>1 DEF Undisturbed, Open, Mine, Coming
  <2>3. Rest(n)' = Rest(n)
    BY <2>1, <2>2 DEF Rest, RestOf
  <2>. QED
    BY <2>1, <2>2, <2>3 DEF Left
<1>3. CASE ~Beats(n) /\ ~Sleeps(n)
  BY <1>3 DEF AgentStep, Joins, Works, Replies, Leaves, Disturbs, ClockInv
<1>. QED
  BY <1>1, <1>2, <1>3

\* Taking another message than a heartbeat leaves the heartbeats that are on their way.
LEMMA TakeOther ==
    ASSUME NEW s \in Seq(UpMsg), s # <<>>, Head(s).type # "heartbeat"
    PROVE  (\E k \in 1 .. Len(Tail(s)) : Tail(s)[k] = Heartbeat)
             <=> (\E k \in 1 .. Len(s) : s[k] = Heartbeat)
<1>1. /\ Len(s) \in Nat /\ Len(s) >= 1 /\ Len(Tail(s)) = Len(s) - 1
      /\ \A k \in 1 .. Len(Tail(s)) : Tail(s)[k] = s[k + 1]
      /\ s[1] # Heartbeat
  BY DEF Heartbeat
<1>2. ASSUME NEW k \in 1 .. Len(s), s[k] = Heartbeat
      PROVE  k - 1 \in 1 .. Len(Tail(s)) /\ Tail(s)[k - 1] = Heartbeat
  BY <1>1, <1>2
<1>3. ASSUME NEW k \in 1 .. Len(Tail(s)), Tail(s)[k] = Heartbeat
      PROVE  k + 1 \in 1 .. Len(s) /\ s[k + 1] = Heartbeat
  BY <1>1, <1>3
<1>. QED
  BY <1>2, <1>3

\* A step of a handler, a statement of the sweep or of the methods excepted, brings the
\* next UPDATE nearer, or closes the connection.
LEMMA HandlerLeft ==
    ASSUME TypeInv, HubInv, ClockInv, Bounds, Bounds',
           NEW m \in Node, NEW i \in Conn, HandlerStep(m, i), NEW n \in Node
    PROVE  Left(n)' <= Left(n)
<1>. USE ClusterAssumption DEF Bounds
<1>. DEFINE h == <<m, i>>
<1>0. h \in Node \X Conn /\ Open(m, i)
  <2>1. HandlerNext(m, i)
    BY DEF HandlerStep, Stores, Ends, HandlerNext
  <2>. QED
    BY <2>1, HandlerChanges
<1>1. /\ UNCHANGED <<ws, pc, clock, steady>> /\ Changes(m, i)
  <2>1. HandlerNext(m, i)
    BY DEF HandlerStep, Stores, Ends, HandlerNext
  <2>2. UNCHANGED <<ws, pc, clock, steady>>
    BY DEF HandlerStep, Stores, Ends, ReceiveHeartbeat, Stored, StoreFail, Disconnect,
       ReceiveResult, RejectMismatch, agentVars, clockVars
  <2>. QED
    BY <2>1, <2>2, HandlerChanges
<1>2. \A k \in Node \X Conn : k # h => op'[k] = op[k]
  BY <1>0 DEF HubInv, OpType, HandlerStep, Stores, Ends, registryVars,
     R!RegisterNode, R!ProcessHeartbeat, R!InsertHeartbeat, R!StatementFails, R!Disconnect
<1>3. CASE ~(n = m /\ i = ws[n])
  <2>1. Undisturbed(n) => ws[n] \in Conn
    BY DEF Undisturbed, TypeInv, TypeOK
  <2>2. ws[n] \in Conn => /\ up'[n][ws[n]] = up[n][ws[n]]
                          /\ handler'[n][ws[n]] = handler[n][ws[n]]
                          /\ op'[<<n, ws[n]>>] = op[<<n, ws[n]>>]
    BY <1>1, <1>2, <1>3 DEF Changes
  <2>3. Undisturbed(n) => Coming(n)' = Coming(n)
    BY <1>1, <2>1, <2>2 DEF Coming
  <2>4. ~Undisturbed(n) => ~Undisturbed(n)'
    BY <1>1, <2>2 DEF Undisturbed, Open, TypeInv, TypeOK
  <2>5. Left(n)' = Left(n)
    BY <1>1, <2>1, <2>2, <2>3, <2>4, LeftFrame
  <2>. QED
    BY <2>5
<1>4. CASE n = m /\ i = ws[n]
  <2>0. Mine(n) = op[h] /\ Mine(n)' = op'[h] /\ op[h] \in [pc : RP!OpState, age : 0 .. MaxDelay]
    BY <1>0, <1>1, <1>4 DEF Mine, HubInv, OpType
  <2>1. CASE ~Open(n, i)'
    BY <1>1, <1>4, <2>1 DEF Left, Undisturbed
  <2>2. CASE Open(n, i)' /\ pc[n] \notin {"idle", "reading"}
    BY <1>1, <2>2 DEF Left, Undisturbed
  <2>3. CASE Open(n, i)' /\ pc[n] \in {"idle", "reading"}
    <3>1. Undisturbed(n) /\ Undisturbed(n)'
      BY <1>0, <1>1, <1>4, <2>3 DEF Undisturbed, TypeInv, NoConn, Conn
    <3>2. Rest(n) \in 0 .. Interval
      <4>1. pc[n] = "idle" => clock[n] <= Interval
        BY <3>1 DEF ClockInv, Asleep, Undisturbed
      <4>. QED
        BY <4>1, RestOfBounds DEF Rest, ClockInv
    <3>3. CASE Stores(m, i)
      <4>1. op[h].pc = "idle" /\ op'[h].pc \in {"upsert", "beat"} /\ op'[h].age = 0
        BY <1>0, <3>3 DEF Stores, R!RegisterNode, R!ProcessHeartbeat, R!Busy, HubInv, OpType
      <4>2. Left(n) = Rest(n) + MaxDelay /\ Left(n)' = MaxDelay - 0
        BY <2>0, <3>1, <4>1 DEF Left, LeftOf
      <4>. QED
        BY <3>2, <4>2
    <3>4. CASE Stored(m, i) /\ R!InsertHeartbeat(h)
      <4>1. op[h].pc = "insert" /\ op'[h].pc = "idle"
        BY <1>0, <3>4 DEF R!InsertHeartbeat, R!Idle, HubInv, OpType
      <4>2. Rest(n)' = Rest(n)
        <5>1. up' = up
          BY <3>4 DEF Stored
        <5>. QED
          BY <1>1, <5>1 DEF Rest, Coming
      <4>3. /\ Left(n) = (MaxDelay - op[h].age) + (Rest(n) + MaxDelay)
            /\ Left(n)' = Rest(n) + MaxDelay
        BY <2>0, <3>1, <4>1, <4>2 DEF Left, LeftOf
      <4>. QED
        BY <2>0, <3>2, <4>3
    <3>5. CASE ReceiveResult(m, i) /\ UNCHANGED registryVars
      <4>0. up \in [Node -> [Conn -> Seq(UpMsg)]]
        BY DEF TypeInv, TypeOK
      <4>1. /\ up[n][i] \in Seq(UpMsg) /\ up[n][i] # <<>> /\ Head(up[n][i]).type # "heartbeat"
            /\ up'[n][i] = Tail(up[n][i])
        <5>1. Take(n, i, "command_result") /\ up' = [up EXCEPT ![n][i] = Tail(@)]
          BY <1>4, <3>5 DEF ReceiveResult
        <5>2. up[n][i] # <<>> /\ Head(up[n][i]).type = "command_result"
          BY <5>1 DEF Take
        <5>. QED
          BY <1>4, <4>0, <5>1, <5>2
      <4>2. Coming(n)' = Coming(n)
        <5>1. (\E k \in 1 .. Len(Tail(up[n][i])) : Tail(up[n][i])[k] = Heartbeat)
                <=> (\E k \in 1 .. Len(up[n][i]) : up[n][i][k] = Heartbeat)
          BY <4>1, TakeOther
        <5>. QED
          BY <1>1, <1>4, <4>1, <5>1 DEF Coming
      <4>3. Rest(n)' = Rest(n) /\ Mine(n)' = Mine(n)
        BY <1>1, <3>5, <4>2 DEF Rest, Mine, registryVars
      <4>4. Left(n)' = Left(n)
        BY <3>1, <4>3 DEF Left
      <4>. QED
        BY <4>4
    <3>6. CASE StoreFail(m, i) \/ Ends(m, i) \/ RejectMismatch(m, i)
      <4>1. handler'[m][i] = "closed"
        BY <3>6 DEF StoreFail, Ends, Disconnect, RejectMismatch, CloseHandler, TypeInv, TypeOK
      <4>. QED
        BY <1>4, <2>3, <4>1 DEF Open
    <3>. QED
      BY <3>3, <3>4, <3>5, <3>6 DEF HandlerStep
  <2>. QED
    BY <2>1, <2>2, <2>3
<1>. QED
  BY <1>3, <1>4

-----------------------------------------------------------------------------
(* A steady agent is counted online: the invariant                           *)

\* A node whose timestamp may get overdue has not been steady for long.  So one that
\* the SELECT found was steady for less than a cycle, and one that the UPDATE then
\* marked for less than two when its next heartbeat is written.
SilenceAt(n) ==
    /\ \/ row[n].age + Left(n) <= Interval + 3 * MaxDelay
       \/ steady[n] + Left(n) <= Interval + MaxDelay
    /\ n \in stale_ids => /\ sweeper = "update"
                          /\ steady[n] + Left(n) <= 2 * Cycle
                          /\ steady[n] <= Interval + MaxDelay + timer
    /\ row[n].status # "online" => steady[n] + Left(n) <= 2 * Cycle

Facts == TypeInv /\ LagInv /\ ViewsAgree /\ HubInv /\ ClockInv /\ Bounds

LEMMA Numbers ==
    ASSUME Facts, NEW n \in Node
    PROVE  /\ row[n].age \in Nat /\ steady[n] \in Nat /\ timer \in Nat
           /\ Left(n) \in Nat /\ Left(n) <= Cycle
           /\ Cycle = Interval + 2 * MaxDelay /\ Interval \in Nat /\ MaxDelay \in Nat
           /\ Settled = 2 * Cycle + 1
           /\ sweeper = "update" => timer <= MaxDelay
BY ClusterAssumption DEF Facts, HubInv, ClockInv, Bounds, Settled, Cycle

LEMMA NumbersNext ==
    ASSUME Facts', NEW n \in Node
    PROVE  /\ row'[n].age \in Nat /\ steady'[n] \in Nat /\ timer' \in Nat
           /\ Left(n)' \in Nat /\ Left(n)' <= Cycle
           /\ sweeper' = "update" => timer' <= MaxDelay
           /\ IF Undisturbed(n)' /\ Mine(n)'.pc = "insert"
              THEN row'[n].age + Left(n)' <= Interval + 3 * MaxDelay
              ELSE Left(n)' <= Interval + MaxDelay
BY ClusterAssumption DEF Facts, HubInv, ClockInv, Bounds, Settled

\* A disturbed agent starts again.
LEMMA SilenceDisturbed ==
    ASSUME Facts, Facts', NEW n \in Node, steady'[n] = 0, n \in stale_ids' => sweeper' = "update"
    PROVE  SilenceAt(n)'
BY Numbers, NumbersNext DEF SilenceAt

\* A step that takes no time and leaves the sweep alone.
LEMMA SilenceKept ==
    ASSUME Facts, Facts', NEW n \in Node, SilenceAt(n), steady'[n] = steady[n],
           n \in stale_ids' => n \in stale_ids /\ UNCHANGED <<sweeper, timer>>,
           \/ /\ Left(n)' <= Left(n)
              /\ row'[n].age <= row[n].age \/ row'[n].age <= MaxDelay
              /\ row'[n].status # "online" => row[n].status # "online"
           \/ row'[n].status = "online" /\ Undisturbed(n)' /\ Mine(n)'.pc = "insert"
    PROVE  SilenceAt(n)'
<1>. USE Numbers, NumbersNext
<1>1. CASE /\ Left(n)' <= Left(n)
           /\ row'[n].age <= row[n].age \/ row'[n].age <= MaxDelay
           /\ row'[n].status # "online" => row[n].status # "online"
  BY <1>1 DEF SilenceAt
<1>2. CASE row'[n].status = "online" /\ Undisturbed(n)' /\ Mine(n)'.pc = "insert"
  <2>1. row'[n].age + Left(n)' <= Interval + 3 * MaxDelay
    BY <1>2
  <2>. QED
    BY <1>2, <2>1 DEF SilenceAt
<1>. QED
  BY <1>1, <1>2

\* The statements of the methods: whoever writes a timestamp has just read the clock,
\* and the UPDATE of the handler in use sets the status.
LEMMA SilenceMethod ==
    ASSUME Facts, Facts', NEW n \in Node, SilenceAt(n), NEW h \in Node \X Conn,
           R!UpsertNode(h) \/ R!SetOnline(h) \/ R!UpdateNode(h), UNCHANGED <<vars, clockVars>>
    PROVE  SilenceAt(n)'
<1>. USE DEF HubInv, OpType
<1>0. /\ HubInv /\ TypeOK /\ h[1] \in Node /\ h[2] \in Conn /\ h = <<h[1], h[2]>>
      /\ [k \in Node \X Conn |-> k[1]][h] = h[1]
      /\ UNCHANGED <<sweeper, timer, stale_ids, steady>>
  BY DEF Facts, TypeInv, R!UpsertNode, R!SetOnline, R!UpdateNode, R!SweepVars, clockVars
<1>1. SameAgent(n)
  BY DEF SameAgent, vars, agentVars, netVars, hubVars, clockVars
<1>2. op[h].age \in 0 .. MaxDelay
  BY <1>0
<1>3. row'[n].age <= row[n].age \/ row'[n].age <= MaxDelay
  <2>1. row'[n].age = row[n].age \/ row'[n].age = op[h].age
    BY <1>0 DEF R!UpsertNode, R!SetOnline, R!UpdateNode
  <2>. QED
    BY <1>0, <1>2, <2>1
<1>4. row'[n].status # "online" => row[n].status # "online"
  BY <1>0 DEF R!UpsertNode, R!SetOnline, R!UpdateNode, R!DefaultStatus
<1>5. CASE Left(n)' <= Left(n)
  BY <1>0, <1>3, <1>4, <1>5, SilenceKept
<1>6. CASE h # <<n, ws[n]>>
  <2>1. Undisturbed(n) => op'[<<n, ws[n]>>] = op[<<n, ws[n]>>]
    <3>1. Undisturbed(n) => <<n, ws[n]>> \in Node \X Conn
      BY <1>0 DEF Undisturbed, TypeOK
    <3>. QED
      BY <1>0, <1>6, <3>1 DEF R!UpsertNode, R!SetOnline, R!UpdateNode, R!Advance
  <2>2. Left(n)' = Left(n)
    BY <1>1, <2>1, SameAgentLeft
  <2>3. Left(n)' <= Left(n)
    BY <2>2, Numbers
  <2>. QED
    BY <1>5, <2>3
<1>7. CASE h = <<n, ws[n]>> /\ ~(Left(n)' <= Left(n))
  <2>1. Undisturbed(n)
    <3>1. Undisturbed(n)' = Undisturbed(n)
      BY <1>1 DEF SameAgent, Undisturbed, Open
    <3>. QED
      BY <1>7, <3>1, Numbers DEF Left
  <2>2. Undisturbed(n)' /\ Mine(n) = op[h] /\ Mine(n)' = op'[h]
    BY <1>1, <1>7, <2>1 DEF SameAgent, Undisturbed, Open, Mine
  <2>3. CASE R!UpsertNode(h)
    <3>1. op[h].pc = "upsert" /\ op'[h].pc = "online" /\ op'[h].age = op[h].age
      BY <1>0, <2>3 DEF R!UpsertNode, R!Advance
    <3>2. Left(n) = MaxDelay - op[h].age /\ Left(n)' = MaxDelay - op[h].age
      BY <2>1, <2>2, <3>1 DEF Left, LeftOf
    <3>3. Left(n)' <= Left(n)
      BY <3>2, Numbers
    <3>. QED
      BY <1>7, <3>3
  <2>4. CASE R!SetOnline(h) \/ R!UpdateNode(h)
    <3>1. op'[h].pc = "insert" /\ row'[n].status = "online"
      BY <1>0, <1>7, <2>4 DEF R!SetOnline, R!UpdateNode, R!Advance
    <3>. QED
      BY <1>0, <2>2, <3>1, SilenceKept
  <2>. QED
    BY <2>3, <2>4
<1>. QED
  BY <1>5, <1>6, <1>7

\* The sweep: only a node that was not steady for long is selected, and so marked.
LEMMA SilenceSweep ==
    ASSUME Facts, Facts', NEW n \in Node, SilenceAt(n),
           R!StartSweep \/ R!MarkStale \/ R!SweepFails, UNCHANGED <<vars, clockVars>>
    PROVE  SilenceAt(n)'
<1>. USE Numbers, NumbersNext
<1>1. UNCHANGED op /\ UNCHANGED steady /\ SameAgent(n)
  BY DEF R!StartSweep, R!MarkStale, R!SweepFails, SameAgent, vars, agentVars, netVars, hubVars, clockVars
<1>2. Left(n)' = Left(n)
  BY <1>1, SameAgentLeft
<1>3. CASE R!StartSweep
  <2>1. /\ row' = row /\ timer' = 0
        /\ n \in stale_ids' => sweeper' = "update" /\ row[n].age > StaleInterval
    BY <1>3 DEF R!StartSweep, R!SelectStale, R!Overdue
  <2>2. n \in stale_ids' => steady[n] + Left(n) <= Interval + MaxDelay
    BY <2>1, ClusterAssumption DEF SilenceAt
  <2>. QED
    BY <1>1, <1>2, <2>1, <2>2 DEF SilenceAt
<1>4. CASE R!MarkStale
  <2>1. n \notin stale_ids' /\ row'[n].age = row[n].age
    BY <1>4 DEF R!MarkStale, R!BackToSleep, Facts, HubInv
  <2>2. row'[n].status # "online" => n \in stale_ids \/ row[n].status # "online"
    BY <1>4 DEF R!MarkStale
  <2>. QED
    BY <1>1, <1>2, <2>1, <2>2 DEF SilenceAt
<1>5. CASE R!SweepFails
  <2>1. n \notin stale_ids' /\ row' = row
    BY <1>5 DEF R!SweepFails, R!BackToSleep
  <2>. QED
    BY <1>1, <1>2, <2>1 DEF SilenceAt
<1>. QED
  BY <1>3, <1>4, <1>5

\* An undisturbed agent that reads has its answer on the way, so that at a tick it is
\* being stored: the next UPDATE comes nearer with every tick.
LEMMA TickLeft ==
    ASSUME Facts, Facts', NEW n \in Node, Tick, Undisturbed(n)
    PROVE  Left(n)' + 1 <= Left(n)
<1>. DEFINE h == <<n, ws[n]>>
<1>0. /\ TypeInv /\ TypeOK /\ HubInv /\ ClockInv /\ ws[n] \in Conn /\ h \in Node \X Conn
      /\ Open(n, ws[n]) /\ Interval \in Nat /\ MaxDelay \in Nat
  BY ClusterAssumption DEF Facts, TypeInv, TypeOK, Undisturbed
<1>1. /\ UNCHANGED <<ws, pc, up, handler>> /\ Waits(n)
      /\ clock'[n] = IF Asleep(n) \/ pc[n] = "running" THEN clock[n] + 1 ELSE clock[n]
  BY DEF Tick, vars, agentVars, netVars, hubVars
<1>2. /\ op[h] \in [pc : RP!OpState, age : 0 .. MaxDelay]
      /\ op[h].pc # "idle" => /\ op[h].age < MaxDelay
                              /\ op'[h] = [op[h] EXCEPT !.age = @ + 1]
      /\ op[h].pc = "idle" => op'[h] = op[h]
  BY <1>0 DEF Tick, R!Tick, R!Busy, HubInv, OpType
<1>3. Undisturbed(n)' /\ Mine(n) = op[h] /\ Mine(n)' = op'[h] /\ Coming(n)' = Coming(n)
  BY <1>1 DEF Undisturbed, Open, Mine, Coming
<1>4. /\ clock[n] \in Nat
      /\ pc[n] = "idle" => Asleep(n) /\ clock[n] < Interval /\ clock'[n] = clock[n] + 1
  BY <1>0, <1>1 DEF Undisturbed, Asleep, Waits, ClockInv
<1>5. pc[n] \in {"idle", "reading"}
  BY DEF Undisturbed
<1>6. Rest(n) \in Nat /\ Rest(n)' \in Nat /\ Rest(n)' <= Rest(n)
  BY <1>0, <1>1, <1>3, <1>4, <1>5 DEF Rest, RestOf
<1>7. CASE op[h].pc = "idle"
  <2>1. handler[n][ws[n]] = "receive"
    BY <1>0, <1>7 DEF Facts, ViewsAgree, R!Busy, Open
  <2>2. up[n][ws[n]] = <<>>
    BY <1>0, <1>1, <2>1 DEF Waits
  <2>3. ~Coming(n)
    BY <2>2 DEF Coming
  <2>4. pc[n] = "idle"
    <3>. SUFFICES ASSUME pc[n] = "reading" PROVE FALSE
      BY <1>5
    <3>1. down[n][ws[n]] = <<>>
      BY <1>1 DEF Waits
    <3>2. LagAt(n, ws[n])
      BY <1>0 DEF Facts, LagInv
    <3>3. /\ IsFiniteSet(Written(n, ws[n]))
          /\ Len(down[n][ws[n]]) + Len(up[n][ws[n]]) + Count(handler[n][ws[n]] = "storing")
               = Count(pc[n] = "reading")
                  + Cardinality(Written(n, ws[n])) + Cardinality(Answered(n, ws[n]))
      BY <1>0, <3>2 DEF LagAt
    <3>4. /\ Cardinality(Written(n, ws[n])) \in Nat
          /\ Cardinality(Answered(n, ws[n])) \in Nat
      BY <3>3, AnsweredType
    <3>5. Count(handler[n][ws[n]] = "storing") = 0 /\ Count(pc[n] = "reading") = 1
      BY <2>1 DEF Count
    <3>6. Len(down[n][ws[n]]) = 0 /\ Len(up[n][ws[n]]) = 0
      BY <2>2, <3>1
    <3>. QED
      BY <3>3, <3>4, <3>5, <3>6
  <2>5. Rest(n) = Interval - clock[n] /\ Rest(n)' = Interval - (clock[n] + 1)
    BY <1>1, <1>3, <1>4, <2>3, <2>4 DEF Rest, RestOf
  <2>6. Left(n) = Rest(n) + MaxDelay /\ Left(n)' = Rest(n)' + MaxDelay
    BY <1>2, <1>3, <1>7 DEF Left, LeftOf
  <2>. QED
    BY <1>0, <1>4, <2>4, <2>5, <2>6
<1>8. CASE op[h].pc # "idle"
  <2>1. op'[h].pc = op[h].pc /\ op'[h].age = op[h].age + 1 /\ op[h].age \in Nat
    BY <1>2, <1>8
  <2>2. CASE op[h].pc = "insert"
    <3>1. /\ Left(n) = (MaxDelay - op[h].age) + (Rest(n) + MaxDelay)
          /\ Left(n)' = (MaxDelay - (op[h].age + 1)) + (Rest(n)' + MaxDelay)
      BY <1>3, <2>1, <2>2 DEF Left, LeftOf
    <3>. QED
      BY <1>0, <1>6, <2>1, <3>1
  <2>3. CASE op[h].pc # "insert"
    <3>1. Left(n) = MaxDelay - op[h].age /\ Left(n)' = MaxDelay - (op[h].age + 1)
      BY <1>3, <1>8, <2>1, <2>3 DEF Left, LeftOf
    <3>. QED
      BY <1>0, <2>1, <3>1
  <2>. QED
    BY <2>2, <2>3
<1>. QED
  BY <1>7, <1>8

LEMMA SilenceTick ==
    ASSUME Facts, Facts', NEW n \in Node, SilenceAt(n), Tick
    PROVE  SilenceAt(n)'
<1>. USE Numbers, NumbersNext
<1>1. /\ UNCHANGED <<sweeper, stale_ids>> /\ (sweeper = "update" => timer' = timer + 1)
      /\ row'[n] = IF row[n].status = "absent" THEN row[n]
                   ELSE [row[n] EXCEPT !.age = R!Older(@)]
  BY DEF Tick, R!Tick, R!SweeperWaits, R!StaysDown, R!HubRuns
<1>2. row'[n].status = row[n].status /\ row'[n].age <= row[n].age + 1
  <2>1. row[n] \in [status : RP!Status, age : 0 .. MaxAge]
    BY DEF Facts, HubInv
  <2>2. R!Older(row[n].age) <= row[n].age + 1
    BY <2>1, ClusterAssumption DEF R!Older
  <2>. QED
    BY <1>1, <2>1, <2>2
<1>3. CASE ~Undisturbed(n)
  <2>1. steady'[n] = 0
    BY <1>3 DEF Tick
  <2>2. n \in stale_ids' => sweeper' = "update"
    BY <1>1 DEF SilenceAt
  <2>. QED
    BY <2>1, <2>2, SilenceDisturbed
<1>4. CASE Undisturbed(n)
  <2>1. steady'[n] <= steady[n] + 1
    BY <1>4 DEF Tick, Facts, ClockInv
  <2>2. Left(n)' + 1 <= Left(n)
    BY <1>4, TickLeft
  <2>3. /\ steady'[n] + Left(n)' <= steady[n] + Left(n)
        /\ row'[n].age + Left(n)' <= row[n].age + Left(n)
    BY <1>2, <2>1, <2>2
  <2>4. \/ row'[n].age + Left(n)' <= Interval + 3 * MaxDelay
        \/ steady'[n] + Left(n)' <= Interval + MaxDelay
    BY <2>3 DEF SilenceAt
  <2>5. n \in stale_ids' => /\ sweeper' = "update"
                            /\ steady'[n] + Left(n)' <= 2 * Cycle
                            /\ steady'[n] <= Interval + MaxDelay + timer'
    BY <1>1, <2>1, <2>3 DEF SilenceAt
  <2>6. row'[n].status # "online" => steady'[n] + Left(n)' <= 2 * Cycle
    BY <1>2, <2>3 DEF SilenceAt
  <2>. QED
    BY <2>4, <2>5, <2>6 DEF SilenceAt
<1>. QED
  BY <1>3, <1>4

LEMMA SilenceStep ==
    ASSUME Facts, Facts', [ClusterNext]_clusterVars, NEW n \in Node, SilenceAt(n)
    PROVE  SilenceAt(n)'
<1>. USE Numbers, NumbersNext
<1>0. /\ TypeInv /\ TypeOK /\ HubInv /\ ClockInv /\ Bounds /\ Bounds'
      /\ steady \in [Node -> 0 .. Settled]
      /\ n \in stale_ids => sweeper = "update"
  BY DEF Facts, TypeInv, ClockInv, SilenceAt
<1>1. ASSUME UNCHANGED <<row, sweeper, timer, stale_ids>>, steady'[n] = steady[n], Left(n)' <= Left(n)
      PROVE  SilenceAt(n)'
  <2>1. row'[n].age <= row[n].age
    BY <1>1
  <2>. QED
    BY <1>1, <2>1, SilenceKept
<1>2. ASSUME NEW m \in Node, AgentStep(m) PROVE SilenceAt(n)'
  <2>1. UNCHANGED <<row, op, sweeper, timer, stale_ids>>
    BY <1>2 DEF AgentStep, registryVars
  <2>2. CASE m = n
    <3>1. CASE steady'[n] = 0
      BY <1>0, <2>1, <3>1, SilenceDisturbed
    <3>2. CASE steady'[n] = steady[n] /\ Left(n)' = Left(n)
      BY <1>1, <2>1, <3>2
    <3>. QED
      BY <1>0, <1>2, <2>2, <3>1, <3>2, OwnAgent
  <2>3. CASE m # n
    <3>1. SameAgent(n)
      BY <1>0, <1>2, <2>3, OtherAgents
    <3>2. Left(n)' = Left(n)
      BY <2>1, <3>1, SameAgentLeft
    <3>. QED
      BY <1>1, <2>1, <3>1, <3>2 DEF SameAgent
  <2>. QED
    BY <2>2, <2>3
<1>3. ASSUME NEW m \in Node, NEW i \in Conn, HandlerStep(m, i) PROVE SilenceAt(n)'
  <2>1. UNCHANGED <<row, sweeper, timer, stale_ids, steady>>
    BY <1>3 DEF HandlerStep, Stores, Ends, R!RegisterNode, R!ProcessHeartbeat,
       R!InsertHeartbeat, R!StatementFails, R!Disconnect, R!SweepVars, registryVars, clockVars
  <2>2. Left(n)' <= Left(n)
    BY <1>0, <1>3, HandlerLeft
  <2>. QED
    BY <1>1, <2>1, <2>2
<1>4. CASE StatementStep
  BY <1>4, SilenceMethod, SilenceSweep DEF StatementStep
<1>5. CASE CallStep
  <2>1. UNCHANGED <<registryVars, clockVars, agentVars, up, handler>>
    BY <1>5 DEF CallStep, CallNext, Issue, Put, SendFail, Return, Timeout, netVars, hubVars
  <2>2. SameAgent(n) /\ UNCHANGED <<row, op, sweeper, timer, stale_ids, steady>>
    BY <2>1 DEF SameAgent, agentVars, clockVars, registryVars
  <2>3. Left(n)' = Left(n)
    BY <2>2, SameAgentLeft
  <2>. QED
    BY <1>1, <2>2, <2>3
<1>6. CASE HubEndStep
  <2>1. row' = row /\ n \notin stale_ids' /\ steady' = steady
    BY <1>6 DEF HubEndStep, R!HubEnds, clockVars
  <2>2. ~Undisturbed(n)'
    <3>1. ws' = ws /\ \A i \in Conn : ~Open(n, i)'
      BY <1>6 DEF HubEndStep, Restart, agentVars, Open
    <3>. QED
      BY <1>0, <3>1 DEF Undisturbed, TypeOK
  <2>3. Left(n)' = 0
    BY <2>2 DEF Left
  <2>4. Left(n)' <= Left(n) /\ row'[n].age <= row[n].age
    BY <2>1, <2>3
  <2>. QED
    BY <2>1, <2>4, SilenceKept
<1>7. CASE Tick
  BY <1>7, SilenceTick
<1>8. CASE HubStartStep
  <2>1. UNCHANGED <<row, op, timer, stale_ids, agentVars, up, handler, clockVars>>
    BY <1>8 DEF HubStartStep, R!HubStarts, vars, netVars, hubVars
  <2>2. SameAgent(n) /\ UNCHANGED <<row, op, timer, stale_ids, steady>>
    BY <2>1 DEF SameAgent, agentVars, clockVars
  <2>3. Left(n)' = Left(n) /\ row'[n].age <= row[n].age
    BY <2>2, SameAgentLeft
  <2>4. n \notin stale_ids'
    BY <1>0, <1>8, <2>2 DEF HubStartStep, R!HubStarts, R!HubRuns
  <2>. QED
    BY <2>2, <2>3, <2>4, SilenceKept
<1>9. CASE UNCHANGED clusterVars
  <2>1. UNCHANGED <<registryVars, clockVars, agentVars, up, handler>>
    BY <1>9 DEF clusterVars, vars, netVars, hubVars
  <2>2. SameAgent(n) /\ UNCHANGED <<row, op, sweeper, timer, stale_ids, steady>>
    BY <2>1 DEF SameAgent, agentVars, clockVars, registryVars
  <2>3. Left(n)' = Left(n)
    BY <2>2, SameAgentLeft
  <2>. QED
    BY <1>1, <2>2, <2>3
<1>. QED
  BY <1>2, <1>3, <1>4, <1>5, <1>6, <1>7, <1>8, <1>9 DEF ClusterNext

\* An agent whose cycles went undisturbed for longer than two of them take is counted
\* online (hub.py:88-128, 130-168; agent.py:83-131), whatever failed, was restarted or
\* came late before: for any interval and any timeout that leaves room for three
\* statements at their slowest.
THEOREM SteadyAreCounted == ClusterSpec => []SteadyIsOnline
<1>. DEFINE Silence == \A n \in Node : SilenceAt(n)
<1>1. ClusterSpec => [](TypeInv /\ LagInv /\ ViewsAgree /\ HubInv)
  <2>1. RP!RegistryAssumption
    BY ClusterAssumption DEF RP!RegistryAssumption
  <2>2. RP!Spec => [](RP!TypeOK /\ RP!StatusInv /\ RP!RecentInv)
    BY <2>1, RP!RegistryInvariant
  <2>. QED
    BY <2>2, HubInvHolds, LagInvariant, HandlersAgree, Components, SameInit, SameNext, PTL
       DEF R!Spec, RP!Spec
<1>2. ClusterInit => ClockInv
  BY ClusterAssumption DEF ClusterInit, Init, ClockInv, Asleep, Settled
<1>3. TypeInv /\ ClockInv /\ [ClusterNext]_clusterVars => ClockInv'
  BY ClockInvStep DEF TypeInv
<1>4. TypeInv /\ HubInv /\ ClockInv => Bounds
  BY BoundsHold DEF TypeInv
<1>5. ClusterSpec => []Facts
  BY <1>1, <1>2, <1>3, <1>4, PTL DEF ClusterSpec, Facts, clusterVars
<1>6. ClusterInit /\ Facts => Silence
  <2>. SUFFICES ASSUME ClusterInit, Facts, NEW n \in Node PROVE SilenceAt(n)
    OBVIOUS
  <2>1. steady[n] = 0 /\ row[n].age = 0 /\ stale_ids = {} /\ ~Undisturbed(n)
    BY DEF ClusterInit, Init, R!Init, Undisturbed
  <2>2. Left(n) = 0
    BY <2>1 DEF Left
  <2>. QED
    BY <2>1, <2>2, Numbers DEF SilenceAt
<1>7. Facts /\ Facts' /\ Silence /\ [ClusterNext]_clusterVars => Silence'
  BY SilenceStep
<1>8. Facts /\ Silence => SteadyIsOnline
  <2>. SUFFICES ASSUME Facts, NEW n \in Node, SilenceAt(n), steady[n] = Settled
                PROVE  row[n].status = "online"
    BY DEF SteadyIsOnline
  <2>. QED
    BY Numbers DEF SilenceAt
<1>. QED
  BY <1>5, <1>6, <1>7, <1>8, PTL DEF ClusterSpec, clusterVars
=============================================================================
