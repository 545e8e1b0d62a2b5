--------------------------- MODULE Registry_proofs ---------------------------
(***************************************************************************)
(* Proofs about Registry, for any nodes and connections and any timeout.   *)
(***************************************************************************)
EXTENDS Registry, TLAPS

\* Every action of Next, one named alternative for each.
LEMMA NextCases ==
    ASSUME Next
    PROVE  \/ \E h \in Handler : \/ RegisterNode(h) \/ ProcessHeartbeat(h)
                                 \/ UpsertNode(h) \/ SetOnline(h) \/ UpdateNode(h)
                                 \/ InsertHeartbeat(h) \/ StatementFails(h)
                                 \/ Disconnect(h)
           \/ StartSweep \/ MarkStale \/ SweepFails \/ HubEnds \/ HubStarts \/ Tick
BY DEF Next, HandlerNext, Statement

-----------------------------------------------------------------------------
(* Types *)

LEMMA OlderType ==
    ASSUME NEW a \in Age
    PROVE  Older(a) \in Age /\ Older(a) <= a + 1 /\ Older(a) >= a
BY RegistryAssumption DEF Older, Age

LEMMA DelayIsAge == 0 .. MaxDelay \subseteq Age
<1>1. ASSUME NEW p \in Nat, NEW l \in Nat PROVE (2 + l) * p >= p
  OBVIOUS
<1>2. (2 + MaxLost) * (StaleInterval + MaxDelay) >= StaleInterval + MaxDelay
  BY <1>1, RegistryAssumption
<1>3. (2 + MaxLost) * (StaleInterval + MaxDelay) \in Nat
  BY RegistryAssumption
<1>. QED
  BY <1>2, <1>3, RegistryAssumption DEF Age

LEMMA TypeInit == Init => TypeOK
BY RegistryAssumption DEF Init, TypeOK, Idle, Status, OpState, Age

LEMMA TypeStep == TypeOK /\ [Next]_vars => TypeOK'
<1>. USE RegistryAssumption
<1>. SUFFICES ASSUME TypeOK, [Next]_vars PROVE TypeOK'
  OBVIOUS
<1>. USE DEF TypeOK, SweepVars
<1>1. ASSUME NEW h \in Handler, RegisterNode(h) PROVE TypeOK'
  BY <1>1 DEF RegisterNode, OpState
<1>2. ASSUME NEW h \in Handler, ProcessHeartbeat(h) PROVE TypeOK'
  BY <1>2 DEF ProcessHeartbeat, OpState
<1>3. ASSUME NEW h \in Handler, UpsertNode(h) PROVE TypeOK'
  <2>1. op[h].age \in Age
    BY DelayIsAge
  <2>2. row' \in [Node -> [status : Status, age : Age]]
    BY <1>3, <2>1 DEF UpsertNode, Status, DefaultStatus
  <2>3. op' \in [Handler -> [pc : OpState, age : 0 .. MaxDelay]]
    BY <1>3 DEF UpsertNode, Advance, OpState
  <2>. QED
    BY <1>3, <2>2, <2>3 DEF UpsertNode
<1>4. ASSUME NEW h \in Handler, SetOnline(h) PROVE TypeOK'
  BY <1>4 DEF SetOnline, Advance, OpState, Status
<1>5. ASSUME NEW h \in Handler, UpdateNode(h) PROVE TypeOK'
  <2>1. op[h].age \in Age
    BY DelayIsAge
  <2>2. row' \in [Node -> [status : Status, age : Age]]
    BY <1>5, <2>1 DEF UpdateNode, Status
  <2>3. op' \in [Handler -> [pc : OpState, age : 0 .. MaxDelay]]
    BY <1>5 DEF UpdateNode, Advance, OpState
  <2>. QED
    BY <1>5, <2>2, <2>3 DEF UpdateNode
<1>6. ASSUME NEW h \in Handler, InsertHeartbeat(h) PROVE TypeOK'
  BY <1>6 DEF InsertHeartbeat, Idle, OpState
<1>7. ASSUME NEW h \in Handler, StatementFails(h) PROVE TypeOK'
  BY <1>7 DEF StatementFails, Idle, OpState
<1>8. ASSUME NEW h \in Handler, Disconnect(h) PROVE TypeOK'
  BY <1>8 DEF Disconnect
<1>9. CASE StartSweep
  BY <1>9 DEF StartSweep, SelectStale
<1>10. CASE MarkStale
  BY <1>10 DEF MarkStale, BackToSleep, Status
<1>11. CASE SweepFails
  BY <1>11 DEF SweepFails, BackToSleep
<1>12. CASE HubEnds \/ HubStarts
  BY <1>12 DEF HubEnds, HubStarts, HubRuns, Idle, OpState
<1>13. CASE Tick
  <2>1. row' \in [Node -> [status : Status, age : Age]]
    BY <1>13, OlderType DEF Tick
  <2>2. op' \in [Handler -> [pc : OpState, age : 0 .. MaxDelay]]
    BY <1>13 DEF Tick, Busy, OpState
  <2>. QED
    BY <1>13, <2>1, <2>2 DEF Tick, SweeperWaits, StaysDown, HubRuns
<1>14. CASE UNCHANGED vars
  BY <1>14 DEF vars
<1>. QED
  BY <1>1, <1>2, <1>3, <1>4, <1>5, <1>6, <1>7, <1>8, <1>9, <1>10, <1>11, <1>12,
     <1>13, <1>14, NextCases

\* The types are invariant.
THEOREM TypeCorrect == Spec => []TypeOK
BY TypeInit, TypeStep, PTL DEF Spec

-----------------------------------------------------------------------------
(* What an established connection says of the tables *)

Listed(n) == row[n].status \in {"online", "stale"}

\* The strengthening of EstablishedIsListed: a heartbeat is processed for an
\* established connection only, and both methods reach their last statement
\* with the node listed.
ListInv ==
    /\ EstablishedIsListed
    /\ \A h \in Handler : /\ op[h].pc = "beat" => h \in known
                          /\ op[h].pc = "insert" => Listed(NodeOf[h])

LEMMA ListInvStep == TypeOK /\ ListInv /\ [Next]_vars => ListInv'
<1>. USE RegistryAssumption
<1>. SUFFICES ASSUME TypeOK, ListInv, [Next]_vars PROVE ListInv'
  OBVIOUS
<1>. USE DEF TypeOK, ListInv, EstablishedIsListed, Listed, SweepVars
<1>1. ASSUME NEW h \in Handler, RegisterNode(h) PROVE ListInv'
  BY <1>1 DEF RegisterNode
<1>2. ASSUME NEW h \in Handler, ProcessHeartbeat(h) PROVE ListInv'
  BY <1>2 DEF ProcessHeartbeat
<1>3. ASSUME NEW h \in Handler, UpsertNode(h) PROVE ListInv'
  <2>1. \A n \in Node : Listed(n) => Listed(n)'
    BY <1>3 DEF UpsertNode
  <2>. QED
    BY <1>3, <2>1 DEF UpsertNode, Advance
<1>4. ASSUME NEW h \in Handler, SetOnline(h) PROVE ListInv'
  <2>1. Listed(NodeOf[h])' /\ \A n \in Node : Listed(n) => Listed(n)'
    BY <1>4 DEF SetOnline
  <2>. QED
    BY <1>4, <2>1 DEF SetOnline, Advance
<1>5. ASSUME NEW h \in Handler, UpdateNode(h) PROVE ListInv'
  <2>1. Listed(NodeOf[h])' /\ \A n \in Node : Listed(n) => Listed(n)'
    BY <1>5 DEF UpdateNode
  <2>. QED
    BY <1>5, <2>1 DEF UpdateNode, Advance
<1>6. ASSUME NEW h \in Handler, InsertHeartbeat(h) PROVE ListInv'
  BY <1>6 DEF InsertHeartbeat, Idle
<1>7. ASSUME NEW h \in Handler, StatementFails(h) PROVE ListInv'
  BY <1>7 DEF StatementFails, Idle
<1>8. ASSUME NEW h \in Handler, Disconnect(h) PROVE ListInv'
  BY <1>8 DEF Disconnect, Busy
<1>9. CASE StartSweep
  BY <1>9 DEF StartSweep
<1>10. CASE MarkStale
  <2>1. \A n \in Node : Listed(n) => Listed(n)'
    BY <1>10 DEF MarkStale
  <2>. QED
    BY <1>10, <2>1 DEF MarkStale
<1>11. CASE SweepFails
  BY <1>11 DEF SweepFails
<1>12. CASE HubEnds \/ HubStarts
  BY <1>12 DEF HubEnds, HubStarts, Idle
<1>13. CASE Tick
  <2>1. \A n \in Node : Listed(n) => Listed(n)'
    BY <1>13 DEF Tick
  <2>2. \A h \in Handler : op'[h].pc = op[h].pc
    BY <1>13 DEF Tick
  <2>. QED
    BY <1>13, <2>1, <2>2 DEF Tick
<1>14. CASE UNCHANGED vars
  BY <1>14 DEF vars
<1>. QED
  BY <1>1, <1>2, <1>3, <1>4, <1>5, <1>6, <1>7, <1>8, <1>9, <1>10, <1>11, <1>12,
     <1>13, <1>14, NextCases

\* A node with a connection past its first message is in both tables, online or
\* stale (hub.py:31-128), with failing statements and restarts included.
THEOREM Established == Spec => []EstablishedIsListed
<1>1. Init => ListInv
  BY RegistryAssumption DEF Init, ListInv, EstablishedIsListed, Idle
<1>2. ListInv => EstablishedIsListed
  BY DEF ListInv
<1>. QED
  BY <1>1, <1>2, ListInvStep, TypeCorrect, PTL DEF Spec

-----------------------------------------------------------------------------
(* What the sweep marks *)

\* A node that the SELECT found is still overdue, or was heard from since: its
\* timestamp is then no older than the sweep's UPDATE and the method that wrote it.
MarkInv ==
    sweeper = "update" =>
        \A n \in stale_ids : row[n].age > StaleInterval \/ row[n].age <= MaxDelay + timer

LEMMA MarkInvStep == TypeOK /\ MarkInv /\ [Next]_vars => MarkInv'
<1>. USE RegistryAssumption
<1>. SUFFICES ASSUME TypeOK, MarkInv, [Next]_vars PROVE MarkInv'
  OBVIOUS
<1>. USE DEF TypeOK, MarkInv, SweepVars
<1>1. ASSUME NEW h \in Handler,
             RegisterNode(h) \/ ProcessHeartbeat(h) \/ InsertHeartbeat(h)
               \/ StatementFails(h) \/ Disconnect(h)
      PROVE  MarkInv'
  BY <1>1 DEF RegisterNode, ProcessHeartbeat, InsertHeartbeat, StatementFails, Disconnect
<1>2. ASSUME NEW h \in Handler, UpsertNode(h) \/ SetOnline(h) \/ UpdateNode(h)
      PROVE  MarkInv'
  <2>1. UNCHANGED SweepVars
    BY <1>2 DEF UpsertNode, SetOnline, UpdateNode
  <2>2. op[h].age <= MaxDelay
    OBVIOUS
  <2>3. \A n \in Node : row'[n].age = row[n].age \/ row'[n].age = op[h].age
    BY <1>2 DEF UpsertNode, SetOnline, UpdateNode
  <2>4. sweeper = "update" => timer \in Nat
    OBVIOUS
  <2>5. \A n \in Node : row[n].age \in Nat /\ op[h].age \in Nat
    BY DEF Age
  <2>. QED
    BY <2>1, <2>2, <2>3, <2>4, <2>5
<1>3. CASE StartSweep
  <2>1. row' = row /\ stale_ids' = SelectStale
    BY <1>3 DEF StartSweep
  <2>. QED
    BY <2>1 DEF SelectStale, Overdue
<1>4. CASE MarkStale \/ SweepFails \/ HubEnds \/ HubStarts
  BY <1>4 DEF MarkStale, SweepFails, HubEnds, HubStarts, BackToSleep
<1>5. CASE Tick
  <2>1. UNCHANGED <<sweeper, stale_ids>> /\ (sweeper = "update" => timer' = timer + 1)
    BY <1>5 DEF Tick, SweeperWaits, StaysDown, HubRuns
  <2>2. \A n \in Node : row'[n].age >= row[n].age /\ row'[n].age <= row[n].age + 1
    BY <1>5, OlderType DEF Tick, Age
  <2>3. \A n \in Node : row[n].age \in Nat /\ row'[n].age \in Nat
    BY TypeStep DEF Age
  <2>. QED
    BY <2>1, <2>2, <2>3
<1>6. CASE UNCHANGED vars
  BY <1>6 DEF vars
<1>. QED
  BY <1>1, <1>2, <1>3, <1>4, <1>5, <1>6, NextCases

LEMMA OnlyMarkStaleMarks ==
    ASSUME TypeOK, Next, NEW n \in Node, row[n].status # "stale", row'[n].status = "stale"
    PROVE  sweeper = "update" /\ n \in stale_ids
<1>. USE RegistryAssumption DEF TypeOK
<1>1. ASSUME NEW h \in Handler,
             RegisterNode(h) \/ ProcessHeartbeat(h) \/ InsertHeartbeat(h)
               \/ StatementFails(h) \/ Disconnect(h)
      PROVE  FALSE
  BY <1>1 DEF RegisterNode, ProcessHeartbeat, InsertHeartbeat, StatementFails, Disconnect
<1>2. ASSUME NEW h \in Handler, UpsertNode(h) \/ SetOnline(h) \/ UpdateNode(h)
      PROVE  FALSE
  <2>1. row'[n].status # "stale"
    BY <1>2 DEF UpsertNode, SetOnline, UpdateNode, DefaultStatus
  <2>. QED
    BY <2>1
<1>3. CASE StartSweep \/ SweepFails \/ HubEnds \/ HubStarts
  BY <1>3 DEF StartSweep, SweepFails, HubEnds, HubStarts
<1>4. CASE MarkStale
  BY <1>4 DEF MarkStale
<1>5. CASE Tick
  BY <1>5 DEF Tick
<1>. QED
  BY <1>1, <1>2, <1>3, <1>4, <1>5, NextCases

\* Silence is all that a node is marked stale for, but for a heartbeat that
\* overtakes the UPDATE (hub.py:143-158).
THEOREM MarksAreJustified == Spec => MarkedIsOverdueOrJustHeard
<1>1. Init => MarkInv
  BY DEF Init, MarkInv
<1>2. TypeOK /\ MarkInv /\ [Next]_vars =>
        [\A n \in Node :
            row[n].status # "stale" /\ row'[n].status = "stale"
              => row[n].age > StaleInterval \/ row[n].age <= 2 * MaxDelay]_vars
  <2>. SUFFICES ASSUME TypeOK, MarkInv, Next, NEW n \in Node,
                       row[n].status # "stale", row'[n].status = "stale"
                PROVE  row[n].age > StaleInterval \/ row[n].age <= 2 * MaxDelay
    OBVIOUS
  <2>1. sweeper = "update" /\ n \in stale_ids
    BY OnlyMarkStaleMarks
  <2>2. row[n].age > StaleInterval \/ row[n].age <= MaxDelay + timer
    BY <2>1 DEF MarkInv
  <2>3. timer \in Nat /\ timer <= MaxDelay /\ row[n].age \in Nat
    BY <2>1, RegistryAssumption DEF TypeOK, Age
  <2>. QED
    BY <2>2, <2>3, RegistryAssumption
<1>. QED
  BY <1>1, <1>2, MarkInvStep, TypeCorrect, PTL DEF Spec, MarkedIsOverdueOrJustHeard

-----------------------------------------------------------------------------
(* How old the heartbeat of a node counted online may be *)

Period == StaleInterval + MaxDelay

\* The age that a node online may have had when the loop last went to sleep, and
\* what an outage since then has added.
Slack == Period + lost * Period + outage

\* What a node online may be aged: after the last sweep that came to something it
\* was not overdue, and every sweep since takes one period at most, every outage its
\* length.  While an UPDATE is on its way, a node that is not in its list was not
\* overdue at the SELECT.  A method that is about to set its node online has written
\* a timestamp just before, or another connection of the node has.
AgeInv ==
    /\ \A h \in Handler : op[h].pc = "online" => row[NodeOf[h]].age <= MaxDelay + op[h].age
    /\ sweeper # "update" =>
          \A n \in OnlineNodes : row[n].age <= Slack + timer
    /\ sweeper = "update" =>
          \A n \in OnlineNodes :
              IF n \in stale_ids THEN row[n].age <= Slack + StaleInterval + timer
                                 ELSE row[n].age <= StaleInterval + timer

LEMMA SlackType ==
    ASSUME TypeOK
    PROVE  /\ lost \in Nat /\ timer \in Nat /\ StaleInterval \in Nat /\ MaxDelay \in Nat
           /\ outage \in Nat /\ Slack \in Nat /\ Slack = Period + lost * Period + outage
           /\ Period \in Nat /\ 2 * MaxDelay <= StaleInterval /\ Period >= StaleInterval
           /\ lost * Period \in Nat /\ 0 * Period = 0
           /\ (lost + 1) * Period = lost * Period + Period
           /\ (2 + lost) * Period = 2 * Period + lost * Period
           /\ timer <= StaleInterval /\ (sweeper = "update" => timer <= MaxDelay)
           /\ \A n \in Node : row[n].age \in Nat
           /\ \A h \in Handler : op[h].age \in Nat /\ op[h].age <= MaxDelay
           /\ sweeper \in {"sleep", "update", "down"}
<1>1. /\ lost \in Nat /\ timer \in Nat /\ StaleInterval \in Nat /\ MaxDelay \in Nat
      /\ 2 * MaxDelay <= StaleInterval
      /\ timer <= StaleInterval /\ (sweeper = "update" => timer <= MaxDelay)
      /\ \A n \in Node : row[n].age \in Nat
      /\ \A h \in Handler : op[h].age \in Nat /\ op[h].age <= MaxDelay
      /\ sweeper \in {"sleep", "update", "down"}
      /\ outage \in Nat
  BY RegistryAssumption DEF TypeOK, Age
<1>2. Period \in Nat /\ Period >= StaleInterval
  BY <1>1 DEF Period
<1>3. ASSUME NEW p \in Nat, NEW l \in Nat
      PROVE  /\ l * p \in Nat /\ 0 * p = 0
             /\ (l + 1) * p = l * p + p /\ (2 + l) * p = 2 * p + l * p
  OBVIOUS
<1>4. Slack \in Nat /\ Slack = Period + lost * Period + outage
  BY <1>1, <1>2, <1>3 DEF Slack
<1>. QED
  BY <1>1, <1>2, <1>3, <1>4

\* A step of a handler, where it leaves the sweep alone, keeps the invariant if
\* what it writes is as recent as its own look at the clock.
LEMMA AgeInvWrite ==
    ASSUME TypeOK, AgeInv, NEW h \in Handler, UNCHANGED SweepVars,
           \A n \in Node : \/ row'[n] = row[n]
                           \/ row'[n].age = op[h].age
                           \/ op[h].pc = "online" /\ n = NodeOf[h] /\ row'[n].age = row[n].age,
           \A k \in Handler : op'[k].pc = "online" =>
                  \/ op'[k] = op[k]
                  \/ k = h /\ op'[k].age = op[k].age /\ row'[NodeOf[k]].age = op[k].age
    PROVE  AgeInv'
<1>. USE SlackType, RegistryAssumption
<1>1. \A n \in Node : \/ row'[n] = row[n]
                      \/ row'[n].age <= 2 * MaxDelay /\ row'[n].age \in Nat
  BY DEF AgeInv
<1>2. \A k \in Handler : op'[k].pc = "online" => row'[NodeOf[k]].age <= MaxDelay + op'[k].age
  <2>. SUFFICES ASSUME NEW k \in Handler, op'[k].pc = "online"
                PROVE  row'[NodeOf[k]].age <= MaxDelay + op'[k].age
    OBVIOUS
  <2>1. CASE op'[k] = op[k]
    <3>1. row[NodeOf[k]].age <= MaxDelay + op[k].age
      BY <2>1 DEF AgeInv
    <3>2. row'[NodeOf[k]].age = row[NodeOf[k]].age \/ row'[NodeOf[k]].age = op[h].age
      OBVIOUS
    <3>. QED
      BY <2>1, <3>1, <3>2
  <2>2. CASE k = h /\ op'[k].age = op[k].age /\ row'[NodeOf[k]].age = op[k].age
    BY <2>2
  <2>. QED
    BY <2>1, <2>2
<1>3. \A n \in Node : n \in OnlineNodes' =>
                        \/ n \in OnlineNodes /\ row'[n] = row[n]
                        \/ row'[n].age <= StaleInterval /\ row'[n].age \in Nat
  BY <1>1 DEF OnlineNodes
<1>4. UNCHANGED <<sweeper, timer, stale_ids, Slack>>
  BY DEF SweepVars, Slack
<1>5. sweeper # "update" =>
        \A n \in OnlineNodes' : row'[n].age <= Slack + timer
  BY <1>3 DEF AgeInv, OnlineNodes
<1>6. sweeper = "update" =>
        \A n \in OnlineNodes' :
            IF n \in stale_ids THEN row'[n].age <= Slack + StaleInterval + timer
                               ELSE row'[n].age <= StaleInterval + timer
  BY <1>3 DEF AgeInv, OnlineNodes
<1>. QED
  BY <1>2, <1>4, <1>5, <1>6 DEF AgeInv

\* Where a sweep that comes to nothing leaves the ages, the hub running on or not.
LEMMA AgeInvLost ==
    ASSUME TypeOK, AgeInv, sweeper' # "update", timer' = 0, lost' = lost + 1,
           outage' = outage, row' = row,
           \A h \in Handler : op'[h] = op[h] \/ op'[h].pc # "online"
    PROVE  AgeInv'
<1>. USE SlackType
<1>1. Slack' = Slack + Period
  <2>1. lost' * Period = lost * Period + Period
    OBVIOUS
  <2>. QED
    BY <2>1 DEF Slack, Period
<1>2. \A n \in OnlineNodes : row[n].age <= Slack + StaleInterval + timer
  BY DEF AgeInv, OnlineNodes
<1>3. \A n \in OnlineNodes : row[n].age <= Slack + Period
  <2>1. CASE sweeper = "update"
    BY <1>2, <2>1 DEF OnlineNodes, Period
  <2>2. CASE sweeper # "update"
    BY <2>2 DEF AgeInv, OnlineNodes
  <2>. QED
    BY <2>1, <2>2
<1>4. OnlineNodes' = OnlineNodes
  BY DEF OnlineNodes
<1>. QED
  BY <1>1, <1>3, <1>4 DEF AgeInv, OnlineNodes

LEMMA AgeInvStep == TypeOK /\ AgeInv /\ [Next]_vars => AgeInv'
<1>. USE RegistryAssumption
<1>. SUFFICES ASSUME TypeOK, AgeInv, [Next]_vars PROVE AgeInv'
  OBVIOUS
<1>. USE DEF TypeOK
<1>1. ASSUME NEW h \in Handler,
             RegisterNode(h) \/ ProcessHeartbeat(h) \/ InsertHeartbeat(h)
               \/ StatementFails(h) \/ Disconnect(h)
      PROVE  AgeInv'
  <2>1. row' = row /\ UNCHANGED SweepVars
    BY <1>1 DEF RegisterNode, ProcessHeartbeat, InsertHeartbeat, StatementFails, Disconnect
  <2>2. \A k \in Handler : op'[k].pc = "online" => op'[k] = op[k]
    BY <1>1 DEF RegisterNode, ProcessHeartbeat, InsertHeartbeat, StatementFails, Disconnect, Idle
  <2>. QED
    BY <2>1, <2>2, AgeInvWrite
<1>2. ASSUME NEW h \in Handler, UpsertNode(h) PROVE AgeInv'
  <2>1. \A n \in Node : row'[n] = row[n] \/ row'[n].age = op[h].age
    BY <1>2 DEF UpsertNode
  <2>2. \A k \in Handler : op'[k].pc = "online" =>
            \/ op'[k] = op[k]
            \/ k = h /\ op'[k].age = op[k].age /\ row'[NodeOf[k]].age = op[k].age
    BY <1>2 DEF UpsertNode, Advance
  <2>3. UNCHANGED SweepVars
    BY <1>2 DEF UpsertNode
  <2>. QED
    BY <2>1, <2>2, <2>3, AgeInvWrite
<1>3. ASSUME NEW h \in Handler, SetOnline(h) PROVE AgeInv'
  <2>1. \A n \in Node : \/ row'[n] = row[n]
                        \/ op[h].pc = "online" /\ n = NodeOf[h] /\ row'[n].age = row[n].age
    BY <1>3 DEF SetOnline
  <2>2. \A k \in Handler : op'[k].pc = "online" => op'[k] = op[k]
    BY <1>3 DEF SetOnline, Advance
  <2>3. UNCHANGED SweepVars
    BY <1>3 DEF SetOnline
  <2>. QED
    BY <2>1, <2>2, <2>3, AgeInvWrite
<1>4. ASSUME NEW h \in Handler, UpdateNode(h) PROVE AgeInv'
  <2>1. \A n \in Node : row'[n] = row[n] \/ row'[n].age = op[h].age
    BY <1>4 DEF UpdateNode
  <2>2. \A k \in Handler : op'[k].pc = "online" => op'[k] = op[k]
    BY <1>4 DEF UpdateNode, Advance
  <2>3. UNCHANGED SweepVars
    BY <1>4 DEF UpdateNode
  <2>. QED
    BY <2>1, <2>2, <2>3, AgeInvWrite
<1>5. CASE StartSweep
  <2>1. /\ sweeper = "sleep" /\ timer = StaleInterval /\ timer' = 0 /\ row' = row /\ op' = op
        /\ stale_ids' = SelectStale
        /\ sweeper' = IF SelectStale = {} THEN "sleep" ELSE "update"
        /\ lost' = IF SelectStale = {} THEN 0 ELSE lost
        /\ outage' = IF SelectStale = {} THEN 0 ELSE outage
    BY <1>5 DEF StartSweep
  <2>2. OnlineNodes' = OnlineNodes
    BY <2>1 DEF OnlineNodes
  <2>3. \A n \in OnlineNodes : /\ n \notin SelectStale => row[n].age <= StaleInterval
                               /\ row[n].age <= Slack + StaleInterval
    <3>1. \A n \in OnlineNodes : row[n].age <= Slack + StaleInterval
      BY <2>1 DEF AgeInv
    <3>2. \A n \in OnlineNodes : n \notin SelectStale => row[n].age <= StaleInterval
      BY SlackType DEF OnlineNodes, SelectStale, Overdue
    <3>. QED
      BY <3>1, <3>2
  <2>4. CASE SelectStale = {}
    <3>1. Slack' = Period
      BY <2>1, <2>4, SlackType DEF Slack, Period
    <3>. QED
      BY <2>1, <2>2, <2>3, <2>4, <3>1, SlackType DEF AgeInv, OnlineNodes
  <2>5. CASE SelectStale # {}
    <3>1. sweeper' = "update" /\ Slack' = Slack /\ stale_ids' = SelectStale
      BY <2>1, <2>5 DEF Slack, Period
    <3>2. \A n \in OnlineNodes :
             IF n \in SelectStale THEN row[n].age <= Slack + StaleInterval + 0
                                  ELSE row[n].age <= StaleInterval + 0
      BY <2>3, SlackType DEF OnlineNodes
    <3>3. \A h \in Handler : op'[h].pc = "online" =>
             row'[NodeOf[h]].age <= MaxDelay + op'[h].age
      BY <2>1 DEF AgeInv
    <3>. QED
      BY <2>1, <2>2, <3>1, <3>2, <3>3 DEF AgeInv
  <2>. QED
    BY <2>4, <2>5
<1>6. CASE MarkStale
  <2>1. /\ sweeper = "update" /\ sweeper' = "sleep" /\ timer' = 0 /\ op' = op
        /\ lost' = 0 /\ outage' = 0
        /\ \A n \in Node : row'[n].age = row[n].age
        /\ \A n \in OnlineNodes' : n \in OnlineNodes /\ n \notin stale_ids
    BY <1>6 DEF MarkStale, BackToSleep, OnlineNodes
  <2>2. \A n \in OnlineNodes' : row'[n].age <= Period
    BY <2>1, SlackType DEF AgeInv, OnlineNodes, Period
  <2>3. Slack' = Period
    BY <2>1, SlackType DEF Slack, Period
  <2>. QED
    BY <2>1, <2>2, <2>3, SlackType DEF AgeInv, OnlineNodes
<1>7. CASE SweepFails
  BY <1>7, AgeInvLost DEF SweepFails, BackToSleep
<1>8. CASE HubEnds
  BY <1>8, AgeInvLost DEF HubEnds, Idle
<1>9. CASE HubStarts
  BY <1>9 DEF HubStarts, HubRuns, AgeInv, OnlineNodes, Slack, Period
<1>10. CASE Tick
  <2>1. /\ UNCHANGED <<sweeper, stale_ids>> /\ Slack' + timer' = Slack + timer + 1
        /\ Slack' >= Slack /\ Slack' \in Nat /\ timer' \in Nat
        /\ sweeper = "update" => Slack' = Slack /\ timer' = timer + 1
    <3>1. UNCHANGED <<sweeper, stale_ids, lost>>
      BY <1>10 DEF Tick
    <3>2. \/ timer' = timer + 1 /\ outage' = outage
          \/ sweeper = "down" /\ timer' = timer /\ outage' = outage + 1
      BY <1>10 DEF Tick, SweeperWaits, StaysDown, HubRuns
    <3>3. Slack' = Period + lost * Period + outage'
      BY <3>1 DEF Slack, Period
    <3>. QED
      BY <3>1, <3>2, <3>3, SlackType
  <2>2. \A n \in Node : row'[n].age <= row[n].age + 1 /\ row'[n].status = row[n].status
    BY <1>10, OlderType DEF Tick, Age
  <2>3. \A n \in Node : row'[n].age \in Nat
    BY TypeStep DEF Age
  <2>4. \A h \in Handler : op'[h].pc = op[h].pc
                           /\ (op[h].pc = "online" => op'[h].age = op[h].age + 1)
    BY <1>10 DEF Tick, Busy
  <2>5. OnlineNodes' = OnlineNodes
    BY <2>2 DEF OnlineNodes
  <2>6. \A h \in Handler : op'[h].pc = "online" => row'[NodeOf[h]].age <= MaxDelay + op'[h].age
    BY <2>2, <2>3, <2>4, SlackType DEF AgeInv
  <2>7. sweeper' # "update" =>
          \A n \in OnlineNodes' : row'[n].age <= Slack' + timer'
    BY <2>1, <2>2, <2>3, <2>5, SlackType DEF AgeInv, OnlineNodes
  <2>8. sweeper' = "update" =>
          \A n \in OnlineNodes' :
              IF n \in stale_ids' THEN row'[n].age <= Slack' + StaleInterval + timer'
                                  ELSE row'[n].age <= StaleInterval + timer'
    BY <2>1, <2>2, <2>3, <2>5, SlackType DEF AgeInv, OnlineNodes
  <2>. QED
    BY <2>6, <2>7, <2>8 DEF AgeInv
<1>11. CASE UNCHANGED vars
  BY <1>11 DEF vars, AgeInv, OnlineNodes, Slack, Period
<1>. QED
  BY <1>1, <1>2, <1>3, <1>4, <1>5, <1>6, <1>7, <1>8, <1>9, <1>10, <1>11, NextCases

\* A node is counted online (hub.py:199-215) for two periods of the sweep at most
\* after its last heartbeat, one more for each sweep in a row that failed or that the
\* end of the hub cut off, and as long as the hub was down, which no code bounds: the
\* hub that is started again sleeps for a period before it looks (server.py:32-35).
THEOREM CountedIsRecent == Spec => []OnlineIsRecent
<1>1. Init => AgeInv
  BY RegistryAssumption DEF Init, AgeInv, OnlineNodes, Idle
<1>2. TypeOK /\ AgeInv => OnlineIsRecent
  <2>. SUFFICES ASSUME TypeOK, AgeInv, NEW n \in OnlineNodes
                PROVE  row[n].age <= (2 + lost) * Period + outage
    BY DEF OnlineIsRecent, Period
  <2>1. n \in Node
    BY DEF OnlineNodes
  <2>2. CASE sweeper # "update"
    BY <2>1, <2>2, SlackType DEF AgeInv
  <2>3. CASE sweeper = "update"
    BY <2>1, <2>3, SlackType DEF AgeInv, Period
  <2>. QED
    BY <2>2, <2>3, SlackType
<1>. QED
  BY <1>1, <1>2, AgeInvStep, TypeCorrect, PTL DEF Spec

-----------------------------------------------------------------------------
(* The abstract table *)

Statuses == [n \in Node |-> row[n].status]

\* Nobody but the sweep takes a node off "online", so that what the SELECT found
\* online the UPDATE finds online; and register_node writes a row before it sets
\* its status.
StatusInv ==
    /\ sweeper = "update" => \A n \in stale_ids : row[n].status = "online"
    /\ \A h \in Handler : op[h].pc = "online" => row[NodeOf[h]].status # "absent"
    /\ \A h \in Handler : op[h].pc = "beat" => Listed(NodeOf[h])

\* What a step may do to the statuses.
StatusMoves ==
    \A n \in Node : \/ row'[n].status = row[n].status
                    \/ <<row[n].status, row'[n].status>> \in Table!Edges

LEMMA StatusStep ==
    ASSUME TypeOK, StatusInv, ListInv, [Next]_vars
    PROVE  StatusMoves /\ StatusInv'
<1>. USE RegistryAssumption DEF TypeOK, Table!Edges
<1>1. ASSUME NEW h \in Handler,
             RegisterNode(h) \/ ProcessHeartbeat(h) \/ InsertHeartbeat(h)
               \/ StatementFails(h) \/ Disconnect(h)
      PROVE  StatusMoves /\ StatusInv'
  <2>1. row' = row /\ UNCHANGED SweepVars
    BY <1>1 DEF RegisterNode, ProcessHeartbeat, InsertHeartbeat, StatementFails, Disconnect
  <2>2. \A k \in Handler : /\ op'[k].pc = "online" => op[k].pc = "online"
                           /\ op'[k].pc = "beat" => op[k].pc = "beat" \/ Listed(NodeOf[k])
    BY <1>1 DEF RegisterNode, ProcessHeartbeat, InsertHeartbeat, StatementFails, Disconnect, Idle,
                ListInv, EstablishedIsListed, Listed
  <2>. QED
    BY <2>1, <2>2 DEF StatusMoves, StatusInv, SweepVars, Listed
<1>2. ASSUME NEW h \in Handler, UpsertNode(h) PROVE StatusMoves /\ StatusInv'
  <2>1. \A n \in Node : \/ row'[n].status = row[n].status
                        \/ row[n].status = "absent" /\ row'[n].status = "offline"
    BY <1>2 DEF UpsertNode, DefaultStatus
  <2>2. row'[NodeOf[h]].status # "absent"
    BY <1>2 DEF UpsertNode, DefaultStatus
  <2>3. \A k \in Handler : /\ op'[k].pc = "online" => op[k].pc = "online" \/ k = h
                           /\ op'[k].pc = "beat" => op[k].pc = "beat"
    BY <1>2 DEF UpsertNode, Advance
  <2>4. UNCHANGED SweepVars
    BY <1>2 DEF UpsertNode
  <2>. QED
    BY <2>1, <2>2, <2>3, <2>4 DEF StatusMoves, StatusInv, SweepVars, Listed
<1>3. ASSUME NEW h \in Handler, SetOnline(h) \/ UpdateNode(h) PROVE StatusMoves /\ StatusInv'
  <2>1. row[NodeOf[h]].status \in {"offline", "online", "stale"}
    BY <1>3 DEF SetOnline, UpdateNode, StatusInv, Listed, Status
  <2>2. \A n \in Node : \/ row'[n].status = row[n].status
                        \/ n = NodeOf[h] /\ row'[n].status = "online"
    BY <1>3 DEF SetOnline, UpdateNode
  <2>3. \A k \in Handler : /\ op'[k].pc = "online" => op[k].pc = "online"
                           /\ op'[k].pc = "beat" => op[k].pc = "beat"
    BY <1>3 DEF SetOnline, UpdateNode, Advance
  <2>4. UNCHANGED SweepVars
    BY <1>3 DEF SetOnline, UpdateNode
  <2>. QED
    BY <2>1, <2>2, <2>3, <2>4 DEF StatusMoves, StatusInv, SweepVars, Listed
<1>4. CASE StartSweep
  BY <1>4 DEF StartSweep, SelectStale, Overdue, StatusMoves, StatusInv, Listed
<1>5. CASE MarkStale
  <2>1. \A n \in Node : \/ row'[n].status = row[n].status
                        \/ row[n].status = "online" /\ row'[n].status = "stale"
    BY <1>5 DEF MarkStale, StatusInv
  <2>2. sweeper' = "sleep" /\ op' = op
    BY <1>5 DEF MarkStale, BackToSleep
  <2>. QED
    BY <2>1, <2>2 DEF StatusMoves, StatusInv, Listed
<1>6. CASE SweepFails \/ HubEnds \/ HubStarts
  BY <1>6 DEF SweepFails, HubEnds, HubStarts, BackToSleep, Idle, StatusMoves, StatusInv, Listed
<1>7. CASE Tick
  <2>1. \A n \in Node : row'[n].status = row[n].status
    BY <1>7 DEF Tick
  <2>2. (\A h \in Handler : op'[h].pc = op[h].pc) /\ UNCHANGED <<sweeper, stale_ids>>
    BY <1>7 DEF Tick
  <2>. QED
    BY <2>1, <2>2 DEF StatusMoves, StatusInv, Listed
<1>8. CASE UNCHANGED vars
  BY <1>8 DEF vars, StatusMoves, StatusInv, Listed
<1>. QED
  BY <1>1, <1>2, <1>3, <1>4, <1>5, <1>6, <1>7, <1>8, NextCases

\* Registry implements NodeTable: what a reader of the nodes table sees of a
\* status are the changes of NodeTable, whatever statements interleave or fail.
THEOREM StatusesFollowTheTable == Spec => ImplementsNodeTable
<1>1. Init => Table!Init /\ StatusInv /\ ListInv
  BY RegistryAssumption
     DEF Init, Table!Init, StatusInv, ListInv, EstablishedIsListed, Idle
<1>2. TypeOK /\ TypeOK' /\ StatusInv /\ ListInv /\ [Next]_vars
        => [Table!Next]_Statuses /\ StatusInv'
  <2>. SUFFICES ASSUME TypeOK, TypeOK', StatusInv, ListInv, [Next]_vars
                PROVE  Table!Next /\ StatusInv'
    OBVIOUS
  <2>1. StatusMoves /\ StatusInv'
    BY StatusStep
  <2>2. PICK N \in SUBSET Node : N = {n \in Node : row'[n].status # row[n].status}
    OBVIOUS
  <2>3. Table!Change(N)
    BY <2>1, <2>2 DEF Table!Change, StatusMoves, TypeOK, Status
  <2>. QED
    BY <2>1, <2>3 DEF Table!Next
<1>. QED
  BY <1>1, <1>2, ListInvStep, TypeCorrect, PTL
     DEF Spec, ImplementsNodeTable, Table!Spec, Statuses

-----------------------------------------------------------------------------
(* What a method leaves behind *)

\* A method that has its INSERT left has just written the timestamp of its node,
\* or another connection of the node has.
RecentInv ==
    \A h \in Handler : op[h].pc \in {"online", "insert"} => row[NodeOf[h]].age <= MaxDelay + op[h].age

LEMMA RecentInvStep ==
    ASSUME TypeOK, StatusInv, RecentInv, [Next]_vars
    PROVE  RecentInv'
<1>. USE RegistryAssumption, SlackType
<1>. SUFFICES ASSUME NEW k \in Handler, op'[k].pc \in {"online", "insert"}
              PROVE  row'[NodeOf[k]].age <= MaxDelay + op'[k].age
  BY DEF RecentInv
<1>. USE DEF TypeOK, RecentInv
<1>1. ASSUME NEW h \in Handler,
             RegisterNode(h) \/ ProcessHeartbeat(h) \/ InsertHeartbeat(h)
               \/ StatementFails(h) \/ Disconnect(h)
      PROVE  row'[NodeOf[k]].age <= MaxDelay + op'[k].age
  <2>1. row' = row /\ op'[k] = op[k]
    BY <1>1 DEF RegisterNode, ProcessHeartbeat, InsertHeartbeat, StatementFails, Disconnect, Idle
  <2>. QED
    BY <2>1
<1>2. ASSUME NEW h \in Handler, UpsertNode(h) \/ UpdateNode(h)
      PROVE  row'[NodeOf[k]].age <= MaxDelay + op'[k].age
  <2>1. row'[NodeOf[h]].age = op[h].age
    BY <1>2 DEF UpsertNode, UpdateNode, StatusInv, Listed
  <2>2. \A n \in Node : n # NodeOf[h] => row'[n] = row[n]
    BY <1>2 DEF UpsertNode, UpdateNode
  <2>3. op'[k].age = op[k].age /\ (k # h => op'[k] = op[k])
    BY <1>2 DEF UpsertNode, UpdateNode, Advance
  <2>4. op[h].age <= MaxDelay
    OBVIOUS
  <2>5. CASE NodeOf[k] = NodeOf[h]
    BY <2>1, <2>3, <2>4, <2>5
  <2>6. CASE NodeOf[k] # NodeOf[h]
    BY <2>2, <2>3, <2>6
  <2>. QED
    BY <2>5, <2>6
<1>3. ASSUME NEW h \in Handler, SetOnline(h)
      PROVE  row'[NodeOf[k]].age <= MaxDelay + op'[k].age
  <2>1. row'[NodeOf[k]].age = row[NodeOf[k]].age
    BY <1>3 DEF SetOnline
  <2>2. op'[k].age = op[k].age /\ op[k].pc \in {"online", "insert"}
    BY <1>3 DEF SetOnline, Advance
  <2>. QED
    BY <2>1, <2>2
<1>4. CASE StartSweep \/ MarkStale \/ SweepFails \/ HubStarts
  <2>1. row'[NodeOf[k]].age = row[NodeOf[k]].age /\ op' = op
    BY <1>4 DEF StartSweep, MarkStale, SweepFails, HubStarts
  <2>. QED
    BY <2>1
<1>5. CASE HubEnds
  BY <1>5 DEF HubEnds, Idle
<1>6. CASE Tick
  <2>1. op'[k].pc = op[k].pc /\ op'[k].age = op[k].age + 1
    BY <1>6 DEF Tick, Busy
  <2>2. row'[NodeOf[k]].age <= row[NodeOf[k]].age + 1 /\ row'[NodeOf[k]].age \in Nat
    BY <1>6, OlderType DEF Tick, Age
  <2>. QED
    BY <2>1, <2>2
<1>7. CASE UNCHANGED vars
  BY <1>7 DEF vars
<1>. QED
  BY <1>1, <1>2, <1>3, <1>4, <1>5, <1>6, <1>7, NextCases

\* What the composition needs to know of the registry.
LEMMA RegistryInvariant == Spec => [](TypeOK /\ StatusInv /\ RecentInv)
<1>1. Init => StatusInv /\ ListInv /\ RecentInv
  BY RegistryAssumption
     DEF Init, StatusInv, ListInv, RecentInv, EstablishedIsListed, Idle
<1>2. TypeOK /\ StatusInv /\ ListInv /\ [Next]_vars => StatusInv'
  BY StatusStep
<1>3. TypeOK /\ StatusInv /\ RecentInv /\ [Next]_vars => RecentInv'
  BY RecentInvStep
<1>. QED
  BY <1>1, <1>2, <1>3, ListInvStep, TypeCorrect, PTL DEF Spec
=============================================================================
