--------------------------- MODULE Transport_proofs ---------------------------
(***************************************************************************)
(* Theorems about Transport, for any peers and any number of tasks and     *)
(* inbound websockets.                                                     *)
(***************************************************************************)
EXTENDS Transport, TLAPS

LEMMA NextCases ==
    ASSUME Next
    PROVE  \/ Start \/ StartTasks \/ Stop \/ Gathered \/ Stopped
           \/ \E p \in Peer, e \in Entry : CloseOne(p, e)
           \/ \E p \in Peer, k \in Task : Loop(p, k) \/ Connected(p, k) \/ ConnectFails(p, k)
                                            \/ Cancelled(p, k) \/ Closed(p, k)
           \/ \E p \in Peer, i \in Inbound :
                 RegisterInbound(p, i) \/ InboundEnds(p, i) \/ Unregister(p, i)
           \/ Broadcast \/ (\E p \in Peer : CastTo(p)) \/ BroadcastEnds
BY DEF Next, Running

\* What a step of a task does: it moves the task k of p, and nothing else of tasks.
TaskMoves(p, k) ==
    /\ \E where \in TaskState \ {"none", "new"} : Go(p, k, where)
    /\ Live(p, k)
    /\ UNCHANGED <<ownerVars, tasks, cancelled, inbound, cast>>

LEMMA TaskStep ==
    ASSUME NEW p \in Peer, NEW k \in Task,
           Loop(p, k) \/ Connected(p, k) \/ ConnectFails(p, k) \/ Cancelled(p, k) \/ Closed(p, k)
    PROVE  TaskMoves(p, k)
<1>1. CASE Loop(p, k)
  BY <1>1 DEF Loop, TaskMoves, TaskState, Live
<1>2. CASE Connected(p, k) \/ ConnectFails(p, k) \/ Closed(p, k)
  BY <1>2 DEF Connected, ConnectFails, Closed, TaskMoves, TaskState, Live
<1>3. CASE Cancelled(p, k)
  BY <1>3 DEF Cancelled, TaskMoves, TaskState
<1>. QED
  BY <1>1, <1>2, <1>3

\* What start does for a peer: nothing, or a task that is new.
LEMMA NewTasks ==
    ASSUME TypeOK, StartTasks
    PROVE  /\ tasks' \in [Peer -> Task \cup {NoTask}] /\ pc' \in [Peer -> [Task -> TaskState]]
           /\ \A p \in Peer :
                 \/ tasks'[p] = tasks[p] /\ pc'[p] = pc[p]
                 \/ /\ tasks[p] = NoTask /\ tasks'[p] \in Task
                    /\ pc[p][tasks'[p]] = "none"
                    /\ \A k \in Task : pc'[p][k] = IF k = tasks'[p] THEN "new" ELSE pc[p][k]
<1>. PICK S \in SUBSET Listed : \E new \in [Unserved(S) -> Task] :
        /\ \A p \in Unserved(S) : Fresh(p, new[p])
        /\ tasks' = [p \in Peer |-> IF p \in Unserved(S) THEN new[p] ELSE tasks[p]]
        /\ pc' = [p \in Peer |-> IF p \in Unserved(S)
                                 THEN [pc[p] EXCEPT ![new[p]] = "new"] ELSE pc[p]]
  BY DEF StartTasks
<1>. PICK new \in [Unserved(S) -> Task] :
        /\ \A p \in Unserved(S) : Fresh(p, new[p])
        /\ tasks' = [p \in Peer |-> IF p \in Unserved(S) THEN new[p] ELSE tasks[p]]
        /\ pc' = [p \in Peer |-> IF p \in Unserved(S)
                                 THEN [pc[p] EXCEPT ![new[p]] = "new"] ELSE pc[p]]
  OBVIOUS
<1>1. \A p \in Unserved(S) : p \in Peer /\ tasks[p] = NoTask /\ new[p] \in Task /\ pc[p][new[p]] = "none"
  BY TransportAssumption DEF Unserved, Fresh
<1>2. tasks' \in [Peer -> Task \cup {NoTask}]
  BY <1>1 DEF TypeOK
<1>3. pc' \in [Peer -> [Task -> TaskState]]
  <2>1. \A f \in [Task -> TaskState], k \in Task : [f EXCEPT ![k] = "new"] \in [Task -> TaskState]
    BY DEF TaskState
  <2>. QED
    BY <1>1, <2>1 DEF TypeOK
<1>4. \A p \in Unserved(S), k \in Task : pc'[p][k] = IF k = new[p] THEN "new" ELSE pc[p][k]
  BY <1>1 DEF TypeOK
<1>. QED
  BY <1>1, <1>2, <1>3, <1>4

LEMMA NewPlaces ==
    ASSUME TypeOK, StartTasks
    PROVE  \A p \in Peer, k \in Task :
               pc'[p][k] = pc[p][k] \/ (pc[p][k] = "none" /\ pc'[p][k] = "new")
<1>. SUFFICES ASSUME NEW p \in Peer, NEW k \in Task
              PROVE  pc'[p][k] = pc[p][k] \/ (pc[p][k] = "none" /\ pc'[p][k] = "new")
  OBVIOUS
<1>1. CASE pc'[p] = pc[p]
  BY <1>1
<1>2. CASE /\ tasks'[p] \in Task /\ pc[p][tasks'[p]] = "none"
           /\ \A j \in Task : pc'[p][j] = IF j = tasks'[p] THEN "new" ELSE pc[p][j]
  BY <1>2
<1>. QED
  BY <1>1, <1>2, NewTasks

\* What a call of start, stop, or broadcast leaves alone.
LEMMA OwnerStep ==
    /\ Start \/ Stop \/ Gathered \/ Stopped => UNCHANGED <<pc, delay, inbound, cast>>
    /\ Broadcast \/ (\E p \in Peer : CastTo(p)) \/ BroadcastEnds
          => UNCHANGED <<ownerVars, taskVars, connections, inbound>>
BY DEF Start, Stop, Gathered, Stopped, Broadcast, CastTo, BroadcastEnds, taskVars

-----------------------------------------------------------------------------
(* Types *)

LEMMA TypeStep == TypeOK /\ [Next]_vars => TypeOK'
<1>. USE TransportAssumption DEF TypeOK
<1>. SUFFICES ASSUME TypeOK, [Next]_vars PROVE TypeOK'
  OBVIOUS
<1>0. /\ None \in Entry
      /\ \A k \in Task : Out(k) \in Entry
      /\ \A i \in Inbound : In(i) \in Entry
  BY DEF Entry
<1>1. CASE Start
  BY <1>1 DEF Start, taskVars
<1>2. CASE StartTasks
  BY <1>2, NewTasks DEF StartTasks
<1>3. CASE Stop
  <2>1. \A p \in Peer : tasks[p] # NoTask => Out(tasks[p]) \in Entry
    BY <1>0
  <2>2. cancelled' \in [Peer -> SUBSET Task] /\ todo' \in SUBSET (Peer \X Entry)
    BY <1>3, <2>1 DEF Stop, CancelTask
  <2>. QED
    BY <1>3, <2>2 DEF Stop
<1>4. CASE Gathered
  BY <1>0, <1>4 DEF Gathered, ClearAll
<1>5. CASE Stopped
  BY <1>0, <1>5 DEF Stopped, ClearAll
<1>6. ASSUME NEW p \in Peer, NEW e \in Entry, CloseOne(p, e) PROVE TypeOK'
  BY <1>6 DEF CloseOne, taskVars
<1>7. ASSUME NEW p \in Peer, NEW k \in Task,
             Loop(p, k) \/ Connected(p, k) \/ ConnectFails(p, k) \/ Cancelled(p, k) \/ Closed(p, k)
      PROVE  TypeOK'
  <2>1. TaskMoves(p, k)
    BY <1>7, TaskStep
  <2>2. pc' \in [Peer -> [Task -> TaskState]] /\ UNCHANGED <<ownerVars, tasks, cancelled, inbound, cast>>
    BY <2>1 DEF TaskMoves, Go
  <2>3. connections' \in [Peer -> Entry]
    BY <1>0, <1>7 DEF Loop, Connected, ConnectFails, Cancelled, Closed, Pop, PopOwn
  <2>4. delay' \in [Peer -> [Task -> 1 .. MaxDelay]]
    <3>1. \A d \in 1 .. MaxDelay : Twice(d) \in 1 .. MaxDelay
      BY DEF Twice
    <3>2. CASE UNCHANGED delay
      BY <3>2
    <3>3. CASE delay' = [delay EXCEPT ![p][k] = Twice(@)]
      BY <3>1, <3>3
    <3>4. CASE delay' = [delay EXCEPT ![p][k] = 1]
      BY <3>4
    <3>. QED
      BY <1>7, <3>2, <3>3, <3>4 DEF Loop, Connected, ConnectFails, Cancelled, Closed
  <2>. QED
    BY <2>2, <2>3, <2>4 DEF ownerVars
<1>8. ASSUME NEW p \in Peer, NEW i \in Inbound,
             RegisterInbound(p, i) \/ InboundEnds(p, i) \/ Unregister(p, i)
      PROVE  TypeOK'
  <2>1. CASE RegisterInbound(p, i)
    BY <1>0, <2>1 DEF RegisterInbound, ownerVars, taskVars
  <2>2. CASE InboundEnds(p, i)
    BY <2>2 DEF InboundEnds, ownerVars, taskVars
  <2>3. CASE Unregister(p, i)
    BY <1>0, <2>3 DEF Unregister, Pop, CancelTask, ownerVars
  <2>. QED
    BY <1>8, <2>1, <2>2, <2>3
<1>9. CASE Broadcast \/ (\E p \in Peer : CastTo(p)) \/ BroadcastEnds
  <2>1. UNCHANGED <<ownerVars, taskVars, connections, inbound>>
    BY <1>9, OwnerStep
  <2>2. cast' \in [left : SUBSET Peer, before : [Peer -> Entry], sent : SUBSET Peer]
    <3>1. CASE Broadcast
      BY <3>1 DEF Broadcast
    <3>2. CASE \E p \in Peer : CastTo(p)
      <4>. PICK p \in Peer :
              cast' = [cast EXCEPT !.left = cast.left \ {p},
                                   !.sent = IF Open(p, connections[p]) THEN @ \cup {p} ELSE @]
        BY <3>2 DEF CastTo, Rest
      <4>. QED
        OBVIOUS
    <3>3. CASE BroadcastEnds
      BY <1>0, <3>3 DEF BroadcastEnds, NoCast
    <3>. QED
      BY <1>9, <3>1, <3>2, <3>3
  <2>. QED
    BY <2>1, <2>2 DEF ownerVars, taskVars
<1>10. CASE UNCHANGED vars
  BY <1>10 DEF vars, ownerVars, taskVars
<1>. QED
  BY <1>1, <1>2, <1>3, <1>4, <1>5, <1>6, <1>7, <1>8, <1>9, <1>10, NextCases

\* The types of the transport are invariant: the delay never exceeds
\* MAX_RECONNECT_DELAY (_connect_with_backoff).
THEOREM TypeCorrect == Spec => []TypeOK
<1>1. Init => TypeOK
  <2>. SUFFICES ASSUME Init PROVE TypeOK
    OBVIOUS
  <2>1. None \in Entry /\ NoTask \in Task \cup {NoTask} /\ 1 \in 1 .. MaxDelay
    BY TransportAssumption DEF Entry
  <2>2. cast \in [left : SUBSET Peer, before : [Peer -> Entry], sent : SUBSET Peer]
    BY <2>1 DEF Init, NoCast
  <2>. QED
    BY <2>1, <2>2 DEF Init, TypeOK, TaskState
<1>. QED
  BY <1>1, TypeStep, PTL DEF Spec

-----------------------------------------------------------------------------
(* The tasks *)

\* stop has cancelled every task of the table when it clears it.
TaskInv ==
    /\ OneTaskPerPeer
    /\ owner \in {"cancelling", "closing"} =>
          \A p \in Peer : tasks[p] # NoTask => tasks[p] \in cancelled[p]

LEMMA TaskInvStep == TypeOK /\ TaskInv /\ [Next]_vars => TaskInv'
<1>. USE TransportAssumption DEF TypeOK
<1>. SUFFICES ASSUME TypeOK, TaskInv, [Next]_vars PROVE TaskInv'
  OBVIOUS
<1>0. NoTask \notin Task
  BY DEF NoTask, Task
<1>1. CASE Start
  BY <1>1 DEF Start, TaskInv, OneTaskPerPeer, taskVars, Live
<1>2. CASE StartTasks
  <2>1. UNCHANGED cancelled /\ owner' = "up"
    BY <1>2 DEF StartTasks
  <2>2. ASSUME NEW p \in Peer, NEW k \in Task, Live(p, k)', k \notin cancelled[p]
        PROVE  tasks'[p] = k
    <3>1. CASE tasks'[p] = tasks[p] /\ pc'[p] = pc[p]
      BY <2>2, <3>1 DEF Live, TaskInv, OneTaskPerPeer
    <3>2. CASE tasks[p] = NoTask /\ pc'[p][k] = IF k = tasks'[p] THEN "new" ELSE pc[p][k]
      BY <1>0, <2>2, <3>2 DEF Live, TaskInv, OneTaskPerPeer
    <3>. QED
      BY <1>2, <3>1, <3>2, NewTasks
  <2>. QED
    BY <2>1, <2>2 DEF TaskInv, OneTaskPerPeer
<1>3. CASE Stop
  BY <1>3 DEF Stop, CancelTask, TaskInv, OneTaskPerPeer, Live
<1>4. CASE Gathered \/ Stopped
  <2>1. UNCHANGED <<pc, cancelled>> /\ owner \in {"cancelling", "closing"}
    BY <1>4 DEF Gathered, Stopped
  <2>2. CASE UNCHANGED tasks
    BY <2>1, <2>2 DEF TaskInv, OneTaskPerPeer, Live
  <2>3. CASE tasks' = [p \in Peer |-> NoTask] /\ owner' = "down"
    BY <1>0, <2>1, <2>3 DEF TaskInv, OneTaskPerPeer, Live
  <2>. QED
    BY <1>4, <2>2, <2>3 DEF Gathered, Stopped, ClearAll
<1>5. ASSUME NEW p \in Peer, NEW k \in Task, TaskMoves(p, k) PROVE TaskInv'
  <2>1. /\ UNCHANGED <<owner, tasks, cancelled>>
        /\ \A q \in Peer, j \in Task : Live(q, j)' => Live(q, j)
    BY <1>5 DEF TaskMoves, Go, Live, ownerVars
  <2>. QED
    BY <2>1 DEF TaskInv, OneTaskPerPeer
<1>6. ASSUME NEW p \in Peer, NEW i \in Inbound, Unregister(p, i) PROVE TaskInv'
  BY <1>0, <1>6 DEF Unregister, CancelTask, TaskInv, OneTaskPerPeer, Live, ownerVars
<1>7. ASSUME UNCHANGED <<owner, taskVars>> PROVE TaskInv'
  BY <1>7 DEF TaskInv, OneTaskPerPeer, Live, taskVars
<1>8. ASSUME \/ \E p \in Peer, e \in Entry : CloseOne(p, e)
             \/ \E p \in Peer, i \in Inbound : RegisterInbound(p, i) \/ InboundEnds(p, i)
             \/ Broadcast \/ (\E p \in Peer : CastTo(p)) \/ BroadcastEnds
             \/ UNCHANGED vars
      PROVE  UNCHANGED <<owner, taskVars>>
  BY <1>8, OwnerStep DEF CloseOne, RegisterInbound, InboundEnds, vars, ownerVars
<1>. QED
  BY <1>1, <1>2, <1>3, <1>4, <1>5, <1>6, <1>7, <1>8, NextCases, TaskStep

\* A peer never has two tasks that both go on reconnecting, and none that the table
\* has lost, in whatever order start, stop and unregister are called.
THEOREM OneTask == Spec => []OneTaskPerPeer
<1>1. Init => TaskInv
  BY DEF Init, TaskInv, OneTaskPerPeer, Live
<1>2. TaskInv => OneTaskPerPeer
  BY DEF TaskInv
<1>. QED
  BY <1>1, <1>2, TaskInvStep, TypeCorrect, PTL DEF Spec

\* No exception ends the reconnecting of _connect_with_backoff: only a
\* cancellation, or the test of _running.
THEOREM TasksGoOn == Spec => EndsOnlyWhenTold
<1>1. ASSUME TypeOK, [Next]_vars
      PROVE  \A p \in Peer, k \in Task :
                 pc[p][k] # "ended" /\ pc'[p][k] = "ended" => k \in cancelled[p] \/ ~running
  <2>. SUFFICES ASSUME NEW p \in Peer, NEW k \in Task, pc[p][k] # "ended", pc'[p][k] = "ended"
                PROVE  k \in cancelled[p] \/ ~running
    OBVIOUS
  <2>1. CASE StartTasks
    BY <1>1, <2>1, NewPlaces
  <2>2. ASSUME NEW q \in Peer, NEW j \in Task,
               Loop(q, j) \/ Connected(q, j) \/ ConnectFails(q, j) \/ Cancelled(q, j) \/ Closed(q, j)
        PROVE  k \in cancelled[p] \/ ~running
    <3>1. \A w : pc' = [pc EXCEPT ![q][j] = w] /\ w # "ended" => pc'[p][k] # "ended"
      BY <1>1 DEF TypeOK
    <3>2. pc' = [pc EXCEPT ![q][j] = "ended"] => p = q /\ k = j
      BY <1>1 DEF TypeOK
    <3>3. /\ Connected(q, j) \/ ConnectFails(q, j) \/ Closed(q, j) =>
                pc' = [pc EXCEPT ![q][j] = "open"] \/ pc' = [pc EXCEPT ![q][j] = "sleep"]
          /\ Loop(q, j) => \/ pc' = [pc EXCEPT ![q][j] = "connecting"]
                           \/ ~running
          /\ Cancelled(q, j) => j \in cancelled[q] /\ pc' = [pc EXCEPT ![q][j] = "ended"]
      BY DEF Loop, Connected, ConnectFails, Cancelled, Closed, Go
    <3>. QED
      BY <1>1, <2>2, <3>1, <3>2, <3>3
  <2>3. ASSUME \/ Start \/ Stop \/ Gathered \/ Stopped
               \/ \E q \in Peer, e \in Entry : CloseOne(q, e)
               \/ \E q \in Peer, i \in Inbound :
                     RegisterInbound(q, i) \/ InboundEnds(q, i) \/ Unregister(q, i)
               \/ Broadcast \/ (\E q \in Peer : CastTo(q)) \/ BroadcastEnds
               \/ UNCHANGED vars
        PROVE  UNCHANGED pc
    BY <2>3, OwnerStep DEF CloseOne, RegisterInbound, InboundEnds, Unregister, vars, taskVars
  <2>. QED
    BY <1>1, <2>1, <2>2, <2>3, NextCases
<1>. QED
  BY <1>1, TypeCorrect, PTL DEF Spec, EndsOnlyWhenTold

-----------------------------------------------------------------------------
(* The table of connections *)

\* An entry, and one that a broadcast found, is of a websocket handed in before.
Handed(p, e) == e.kind = "in" => inbound[p][e.id] # "none"

EntryInv ==
    /\ EntryIsOwned
    /\ \A p \in Peer : Handed(p, connections[p]) /\ Handed(p, cast.before[p])

LEMMA EntryKinds ==
    /\ None.kind = "none"
    /\ \A k : Out(k).kind = "out" /\ Out(k).id = k
    /\ \A i : In(i).kind = "in" /\ In(i).id = i
    /\ \A e \in Entry : /\ e.kind = "out" => e.id \in Task /\ e = Out(e.id)
                        /\ e.kind = "in" => e.id \in Inbound /\ e = In(e.id)
BY DEF None, Out, In, Entry

LEMMA EntryInvStep == TypeOK /\ EntryInv /\ [Next]_vars => EntryInv'
<1>. USE TransportAssumption, EntryKinds DEF TypeOK
<1>. SUFFICES ASSUME TypeOK, EntryInv, [Next]_vars PROVE EntryInv'
  OBVIOUS
<1>1. CASE StartTasks
  <2>1. \A p \in Peer, k \in Task : pc[p][k] = "open" => pc'[p][k] = "open"
    BY <1>1, NewPlaces
  <2>2. UNCHANGED <<connections, inbound, cast>>
    BY <1>1 DEF StartTasks
  <2>. QED
    BY <2>1, <2>2 DEF EntryInv, EntryIsOwned, Open, Handed
<1>2. CASE Start \/ Stop \/ Gathered \/ Stopped
  <2>1. UNCHANGED <<pc, inbound, cast>>
    BY <1>2, OwnerStep
  <2>2. UNCHANGED connections \/ connections' = [p \in Peer |-> None]
    BY <1>2 DEF Start, Stop, Gathered, Stopped, ClearAll
  <2>. QED
    BY <2>1, <2>2 DEF EntryInv, EntryIsOwned, Open, Handed
<1>3. ASSUME NEW p \in Peer, NEW e \in Entry, CloseOne(p, e) PROVE EntryInv'
  <2>1. UNCHANGED <<pc, connections, cast>>
    BY <1>3 DEF CloseOne, taskVars
  <2>2. \A q \in Peer, i \in Inbound : /\ inbound[q][i] # "none" => inbound'[q][i] # "none"
                                       /\ inbound'[q][i] = "unregistered" => inbound[q][i] = "unregistered"
    BY <1>3 DEF CloseOne, Open
  <2>. QED
    BY <2>1, <2>2 DEF EntryInv, EntryIsOwned, Open, Handed
<1>4. ASSUME NEW p \in Peer, NEW k \in Task, Connected(p, k) PROVE EntryInv'
  BY <1>4 DEF Connected, Go, EntryInv, EntryIsOwned, Open, Handed
<1>5. ASSUME NEW p \in Peer, NEW k \in Task, Loop(p, k) \/ ConnectFails(p, k) PROVE EntryInv'
  <2>1. /\ UNCHANGED <<inbound, cast, connections>>
        /\ pc[p][k] # "open"
        /\ \E w : pc' = [pc EXCEPT ![p][k] = w]
    BY <1>5 DEF Loop, ConnectFails, Go
  <2>. QED
    BY <2>1 DEF EntryInv, EntryIsOwned, Open, Handed
<1>6. ASSUME NEW p \in Peer, NEW k \in Task, Cancelled(p, k) \/ Closed(p, k) PROVE EntryInv'
  <2>1. /\ UNCHANGED <<inbound, cast>>
        /\ \E w : pc' = [pc EXCEPT ![p][k] = w]
        /\ \/ connections' = [connections EXCEPT ![p] = None]
           \/ UNCHANGED connections /\ pc[p][k] # "open"
    BY <1>6 DEF Cancelled, Closed, Go, Pop, PopOwn
  <2>. QED
    BY <2>1 DEF EntryInv, EntryIsOwned, Open, Handed
<1>7. ASSUME NEW p \in Peer, NEW i \in Inbound,
             RegisterInbound(p, i) \/ InboundEnds(p, i) \/ Unregister(p, i)
      PROVE  EntryInv'
  <2>1. UNCHANGED <<pc, cast>>
    BY <1>7 DEF RegisterInbound, InboundEnds, Unregister, taskVars
  <2>2. CASE RegisterInbound(p, i)
    BY <2>1, <2>2 DEF RegisterInbound, EntryInv, EntryIsOwned, Open, Handed
  <2>3. CASE InboundEnds(p, i)
    BY <2>1, <2>3 DEF InboundEnds, EntryInv, EntryIsOwned, Open, Handed
  <2>4. CASE Unregister(p, i)
    BY <2>1, <2>4 DEF Unregister, Pop, EntryInv, EntryIsOwned, Open, Handed
  <2>. QED
    BY <1>7, <2>2, <2>3, <2>4
<1>8. CASE Broadcast \/ (\E p \in Peer : CastTo(p)) \/ BroadcastEnds
  <2>1. UNCHANGED <<pc, connections, inbound>>
    BY <1>8, OwnerStep DEF taskVars
  <2>2. \A p \in Peer : cast'.before[p] \in {cast.before[p], connections[p], None}
    <3>1. CASE Broadcast
      BY <3>1 DEF Broadcast
    <3>2. CASE \E p \in Peer : CastTo(p)
      BY <3>2 DEF CastTo
    <3>3. CASE BroadcastEnds
      BY <3>3 DEF BroadcastEnds, NoCast
    <3>. QED
      BY <1>8, <3>1, <3>2, <3>3
  <2>. QED
    BY <2>1, <2>2 DEF EntryInv, EntryIsOwned, Open, Handed
<1>9. CASE UNCHANGED vars
  BY <1>9 DEF vars, taskVars, EntryInv, EntryIsOwned, Open, Handed
<1>. QED
  BY <1>1, <1>2, <1>3, <1>4, <1>5, <1>6, <1>7, <1>8, <1>9, NextCases

LEMMA EntryInvInit == Init => EntryInv
BY EntryKinds DEF Init, EntryInv, EntryIsOwned, Handed, NoCast

\* An entry of _connections never outlives the coroutine that answers for its
\* websocket (_connect_to_peer's finally, unregister).
THEOREM EntriesAreOwned == Spec => []EntryIsOwned
<1>1. EntryInv => EntryIsOwned
  BY DEF EntryInv
<1>. QED
  BY <1>1, EntryInvInit, EntryInvStep, TypeCorrect, PTL DEF Spec

\* A peer that the broadcast has missed cannot come back with the websocket it had:
\* that one has ended, or lost its entry, for good.
LEMMA StableStep ==
    TypeOK /\ EntryInv /\ BroadcastReachesStable /\ [Next]_vars => BroadcastReachesStable'
<1>. USE TransportAssumption, EntryKinds DEF TypeOK
<1>. SUFFICES ASSUME TypeOK, EntryInv, BroadcastReachesStable, [Next]_vars,
                     NEW p \in Peer, cast'.before[p].kind = "in",
                     connections'[p] = cast'.before[p], Open(p, cast.before[p])'
              PROVE  p \in cast'.left \cup cast'.sent
  BY DEF BroadcastReachesStable
<1>. DEFINE e == cast.before[p]
<1>1. ASSUME UNCHANGED cast, connections[p] = e, inbound'[p][e.id] = inbound[p][e.id]
      PROVE  p \in cast'.left \cup cast'.sent
  BY <1>1 DEF BroadcastReachesStable, Open
<1>2. CASE StartTasks \/ Start \/ Stop \/ Gathered \/ Stopped
  <2>1. UNCHANGED <<inbound, cast>> /\ (UNCHANGED connections \/ connections' = [q \in Peer |-> None])
    BY <1>2 DEF StartTasks, Start, Stop, Gathered, Stopped, ClearAll
  <2>. QED
    BY <1>1, <2>1
<1>3. ASSUME NEW q \in Peer, NEW f \in Entry, CloseOne(q, f) PROVE p \in cast'.left \cup cast'.sent
  <2>1. UNCHANGED <<connections, cast>>
    BY <1>3 DEF CloseOne
  <2>2. inbound'[p][e.id] = "open" => inbound[p][e.id] = "open"
    BY <1>3 DEF CloseOne, Open
  <2>. QED
    BY <1>1, <2>1, <2>2 DEF Open
<1>4. ASSUME NEW q \in Peer, NEW k \in Task,
             Loop(q, k) \/ Connected(q, k) \/ ConnectFails(q, k) \/ Cancelled(q, k) \/ Closed(q, k)
      PROVE  p \in cast'.left \cup cast'.sent
  <2>1. UNCHANGED <<inbound, cast>>
    BY <1>4, TaskStep DEF TaskMoves
  <2>2. \/ UNCHANGED connections
        \/ connections' = [connections EXCEPT ![q] = None]
        \/ connections' = [connections EXCEPT ![q] = Out(k)]
    BY <1>4 DEF Loop, Connected, ConnectFails, Cancelled, Closed, Pop, PopOwn
  <2>. QED
    BY <1>1, <2>1, <2>2
<1>5. ASSUME NEW q \in Peer, NEW i \in Inbound, RegisterInbound(q, i)
      PROVE  p \in cast'.left \cup cast'.sent
  <2>1. UNCHANGED cast /\ inbound[q][i] = "none"
    BY <1>5 DEF RegisterInbound
  <2>2. ~(p = q /\ e.id = i)
    BY <2>1 DEF EntryInv, Handed
  <2>. QED
    BY <1>1, <1>5, <2>1, <2>2 DEF RegisterInbound
<1>6. ASSUME NEW q \in Peer, NEW i \in Inbound, InboundEnds(q, i) \/ Unregister(q, i)
      PROVE  p \in cast'.left \cup cast'.sent
  <2>1. /\ UNCHANGED cast
        /\ UNCHANGED connections \/ connections' = [connections EXCEPT ![q] = None]
        /\ \E w \in {"ended", "unregistered"} : inbound' = [inbound EXCEPT ![q][i] = w]
    BY <1>6 DEF InboundEnds, Unregister, Pop
  <2>2. e \in Entry
    BY <2>1
  <2>3. connections[p] = e /\ e.kind = "in" /\ e.id \in Inbound /\ inbound'[p][e.id] = "open"
    BY <2>1, <2>2 DEF Open
  <2>4. inbound[p][e.id] = "open"
    BY <2>1, <2>3
  <2>. QED
    BY <1>1, <2>1, <2>3, <2>4
<1>7. CASE Broadcast
  BY <1>7 DEF Broadcast
<1>8. ASSUME NEW q \in Peer, CastTo(q) PROVE p \in cast'.left \cup cast'.sent
  BY <1>8 DEF CastTo, Rest, BroadcastReachesStable, Open
<1>9. CASE BroadcastEnds
  BY <1>9 DEF BroadcastEnds, NoCast
<1>10. CASE UNCHANGED vars
  BY <1>1, <1>10 DEF vars
<1>. QED
  BY <1>2, <1>3, <1>4, <1>5, <1>6, <1>7, <1>8, <1>9, <1>10, NextCases

\* broadcast misses no peer whose websocket stays registered and open while it is
\* sending.
THEOREM StableAreReached == Spec => []BroadcastReachesStable
<1>1. Init => BroadcastReachesStable
  BY EntryKinds DEF Init, BroadcastReachesStable, NoCast
<1>. QED
  BY <1>1, StableStep, EntryInvInit, EntryInvStep, TypeCorrect, PTL DEF Spec
=============================================================================
