------------------------------ MODULE Registry ------------------------------
(***************************************************************************)
(* The node registry of the hub (hub.py, over the nodes and heartbeats     *)
(* tables of db.py): the registrations and heartbeats that the WebSocket   *)
(* handlers store, and the loop that marks silent nodes stale.             *)
(*                                                                         *)
(* MeshDB opens a connection and commits for every statement, so each      *)
(* statement is a step, and any other coroutine may run between two        *)
(* statements of one method.  Time is counted in ticks.  The module keeps  *)
(* the age of a timestamp in place of the timestamp: a Tick makes every    *)
(* timestamp older, those that a method read from the clock before its     *)
(* statement ran included.  Ages saturate at MaxAge.                       *)
(***************************************************************************)
EXTENDS Naturals, FiniteSets

CONSTANTS
    Node,
    Handler,    \* the WebSocket handlers, each open connection having one
    NodeOf,     \* the node_id of each handler's token
    StaleInterval,    \* stale_interval: the timeout of the sweep, and its period
    MaxDelay,   \* the ticks from a method's look at the clock to the end of its
                \*   last statement (SQLite's busy timeout bounds each of them)
    MaxAge,     \* bound: where ages saturate
    Faults,     \* whether statements may raise and the hub may end
    MaxLost,    \* bound: the sweeps in a row that come to nothing
    MaxOutage   \* bound: the ticks in a row of those that the hub is down

ASSUME RegistryAssumption ==
    /\ NodeOf \in [Handler -> Node]
    /\ StaleInterval \in Nat \ {0}
    /\ MaxDelay \in Nat /\ 2 * MaxDelay <= StaleInterval
    /\ Faults \in BOOLEAN
    /\ MaxLost \in Nat
    /\ MaxOutage \in Nat
    /\ MaxAge \in Nat /\ MaxAge > (2 + MaxLost) * (StaleInterval + MaxDelay) + MaxOutage

VARIABLES
    row,        \* the nodes table: status and age of last_heartbeat
    beats,      \* the nodes that have a row in the heartbeats table
    op,         \* where each handler is in register_node or process_heartbeat,
                \*   and the age of the local variable now
    known,      \* the handlers whose first message was registered
    sweeper,    \* where _stale_sweep_loop is, "down" when no hub runs
    timer,      \* the ticks since it got there
    stale_ids,  \* the local variable stale_ids of mark_stale_nodes
    lost,       \* history: the sweeps that came to nothing since the last that
                \*   came to something
    outage      \* history: the ticks that the hub was down since then

vars == <<row, beats, op, known, sweeper, timer, stale_ids, lost, outage>>

Status  == {"absent", "offline", "online", "stale"}
OpState == {"idle", "upsert", "online", "beat", "insert"}
Age     == 0 .. MaxAge

TypeOK ==
    /\ row \in [Node -> [status : Status, age : Age]]
    /\ beats \in SUBSET Node
    /\ op \in [Handler -> [pc : OpState, age : 0 .. MaxDelay]]
    /\ known \in SUBSET Handler
    /\ sweeper \in {"sleep", "update", "down"}
    /\ timer \in 0 .. (IF sweeper = "sleep" THEN StaleInterval ELSE MaxDelay)
    /\ sweeper = "down" => timer = 0
    /\ stale_ids \in SUBSET Node
    /\ lost \in 0 .. MaxLost
    /\ outage \in 0 .. MaxOutage

Idle == [pc |-> "idle", age |-> 0]

Init ==
    /\ row = [n \in Node |-> [status |-> "absent", age |-> 0]]
    /\ beats = {}
    /\ op = [h \in Handler |-> Idle]
    /\ known = {}
    /\ sweeper = "sleep"
    /\ timer = 0
    /\ stale_ids = {}
    /\ lost = 0
    /\ outage = 0

Busy(h) == op[h].pc # "idle"

Advance(h, pc) == op' = [op EXCEPT ![h].pc = pc]

SweepVars == <<sweeper, timer, stale_ids, lost, outage>>

\* There is a process with a sweep loop and handlers.
HubRuns == sweeper # "down"

-----------------------------------------------------------------------------
(* Hub.register_node, for the first message of a connection *)

\* now is read before the first await.
RegisterNode(h) ==
    /\ HubRuns /\ ~Busy(h) /\ h \notin known
    /\ op' = [op EXCEPT ![h] = [pc |-> "upsert", age |-> 0]]
    /\ UNCHANGED <<row, beats, known, SweepVars>>

\* The default of the status column, which upsert_node does not write.
DefaultStatus == "offline"

\* (mutant) INSERT OR REPLACE: the row is written anew, the status too.
ReplaceNode(h) ==
    /\ op[h].pc = "upsert"
    /\ row' = [row EXCEPT ![NodeOf[h]] = [status |-> DefaultStatus, age |-> op[h].age]]
    /\ Advance(h, "online")
    /\ UNCHANGED <<beats, known, SweepVars>>

UpsertNode(h) ==
    LET n == NodeOf[h] IN
    /\ op[h].pc = "upsert"
    /\ row' = [row EXCEPT ![n] =
                 [status |-> IF @.status = "absent" THEN DefaultStatus ELSE @.status,
                  age |-> op[h].age]]
    /\ Advance(h, "online")
    /\ UNCHANGED <<beats, known, SweepVars>>

\* (mutant) The status is left as the upsert found it.
SkipOnline(h) ==
    /\ op[h].pc = "online"
    /\ Advance(h, "insert")
    /\ UNCHANGED <<row, beats, known, SweepVars>>

SetOnline(h) ==
    /\ op[h].pc = "online"
    /\ row' = [row EXCEPT ![NodeOf[h]].status = "online"]
    /\ Advance(h, "insert")
    /\ UNCHANGED <<beats, known, SweepVars>>

(* Hub.process_heartbeat, for every later one *)

ProcessHeartbeat(h) ==
    /\ ~Busy(h) /\ h \in known
    /\ op' = [op EXCEPT ![h] = [pc |-> "beat", age |-> 0]]
    /\ UNCHANGED <<row, beats, known, SweepVars>>

\* (mutant) Only the timestamp is written.
UpdateTimestamp(h) ==
    /\ op[h].pc = "beat"
    /\ row' = [row EXCEPT ![NodeOf[h]].age = op[h].age]
    /\ Advance(h, "insert")
    /\ UNCHANGED <<beats, known, SweepVars>>

UpdateNode(h) ==
    LET n == NodeOf[h] IN
    /\ op[h].pc = "beat"
    /\ row' = IF row[n].status = "absent" THEN row
              ELSE [row EXCEPT ![n] = [status |-> "online", age |-> op[h].age]]
    /\ Advance(h, "insert")
    /\ UNCHANGED <<beats, known, SweepVars>>

\* The last statement of both; the handler then waits for the next message.
InsertHeartbeat(h) ==
    /\ op[h].pc = "insert"
    /\ beats' = beats \cup {NodeOf[h]}
    /\ known' = known \cup {h}
    /\ op' = [op EXCEPT ![h] = Idle]
    /\ UNCHANGED <<row, SweepVars>>

\* A statement raises: the handler ends, what it wrote stays.
StatementFails(h) ==
    /\ Faults /\ Busy(h)
    /\ op' = [op EXCEPT ![h] = Idle]
    /\ known' = known \ {h}
    /\ UNCHANGED <<row, beats, SweepVars>>

\* The connection ends; the handler's place is free for another connection.
Disconnect(h) ==
    /\ ~Busy(h) /\ h \in known
    /\ known' = known \ {h}
    /\ UNCHANGED <<row, beats, op, SweepVars>>

-----------------------------------------------------------------------------
(* _stale_sweep_loop and Hub.mark_stale_nodes *)

Overdue(n) == row[n].status = "online" /\ row[n].age > StaleInterval

\* (mutant) <= in place of <.
SelectAtTimeout ==
    {n \in Node : row[n].status = "online" /\ row[n].age >= StaleInterval}

\* (mutant) The timeout is subtracted twice.
SelectLate ==
    {n \in Node : row[n].status = "online" /\ row[n].age > 2 * StaleInterval + 1}

SelectStale == {n \in Node : Overdue(n)}

\* The sleep is over: the cutoff is computed and the SELECT runs.
StartSweep ==
    /\ sweeper = "sleep" /\ timer = StaleInterval
    /\ stale_ids' = SelectStale
    /\ sweeper' = IF SelectStale = {} THEN "sleep" ELSE "update"
    /\ timer' = 0
    /\ lost' = IF SelectStale = {} THEN 0 ELSE lost
    /\ outage' = IF SelectStale = {} THEN 0 ELSE outage
    /\ UNCHANGED <<row, beats, op, known>>

BackToSleep ==
    /\ sweeper' = "sleep"
    /\ timer' = 0
    /\ stale_ids' = {}

\* (mutant) The UPDATE touches no row.
MarkNone ==
    /\ sweeper = "update"
    /\ BackToSleep
    /\ lost' = 0 /\ outage' = 0
    /\ UNCHANGED <<row, beats, op, known>>

\* The UPDATE names the ids that were selected, and looks at nothing else.
MarkStale ==
    /\ sweeper = "update"
    /\ row' = [n \in Node |-> IF n \in stale_ids
                              THEN [row[n] EXCEPT !.status = "stale"] ELSE row[n]]
    /\ BackToSleep
    /\ lost' = 0 /\ outage' = 0
    /\ UNCHANGED <<beats, op, known>>

\* A statement raises: the loop logs it and sleeps again.
SweepFails ==
    /\ Faults /\ lost < MaxLost
    /\ lost' = lost + 1
    /\ HubRuns
    /\ sweeper = "sleep" => timer = StaleInterval
    /\ BackToSleep
    /\ UNCHANGED <<row, beats, op, known, outage>>

-----------------------------------------------------------------------------
(* The process of the hub *)

\* It ends, whatever it was doing.  The tables stay as they are in the file, the
\* nodes that were online in them too.
HubEnds ==
    /\ HubRuns
    /\ Faults /\ lost < MaxLost
    /\ lost' = lost + 1
    /\ op' = [h \in Handler |-> Idle]
    /\ known' = {}
    /\ sweeper' = "down"
    /\ timer' = 0
    /\ stale_ids' = {}
    /\ UNCHANGED <<row, beats, outage>>

\* It is started again, some time later.  The sweep loop begins with its sleep.
HubStarts ==
    /\ ~HubRuns
    /\ sweeper' = "sleep"
    /\ UNCHANGED <<row, beats, op, known, timer, stale_ids, lost, outage>>

-----------------------------------------------------------------------------
Older(a) == IF a < MaxAge THEN a + 1 ELSE a

\* What a tick is of the sweep, or of an outage.
SweeperWaits ==
    /\ HubRuns
    /\ timer < (IF sweeper = "sleep" THEN StaleInterval ELSE MaxDelay)
    /\ timer' = timer + 1
    /\ UNCHANGED outage

StaysDown ==
    /\ ~HubRuns
    /\ outage < MaxOutage
    /\ outage' = outage + 1
    /\ UNCHANGED timer

Tick ==
    /\ \A h \in Handler : Busy(h) => op[h].age < MaxDelay
    /\ SweeperWaits \/ StaysDown
    /\ row' = [n \in Node |-> IF row[n].status = "absent" THEN row[n]
                              ELSE [row[n] EXCEPT !.age = Older(@)]]
    /\ op' = [h \in Handler |-> IF Busy(h) THEN [op[h] EXCEPT !.age = @ + 1] ELSE op[h]]
    /\ UNCHANGED <<beats, known, sweeper, stale_ids, lost>>

Statement(h) == UpsertNode(h) \/ SetOnline(h) \/ UpdateNode(h) \/ InsertHeartbeat(h)

HandlerNext(h) ==
    \/ RegisterNode(h)
    \/ ProcessHeartbeat(h)
    \/ Statement(h)
    \/ StatementFails(h)
    \/ Disconnect(h)

Next ==
    \/ \E h \in Handler : HandlerNext(h)
    \/ StartSweep
    \/ MarkStale
    \/ SweepFails
    \/ HubEnds
    \/ HubStarts
    \/ Tick

Spec == Init /\ [][Next]_vars

\* Statements end, the loop runs, the clock goes on, and the agent of an open
\* connection sends heartbeats (Session's CycleEnds).  Nothing says that a hub which
\* ended is started again.
Fairness ==
    /\ \A h \in Handler : WF_vars(Statement(h)) /\ WF_vars(ProcessHeartbeat(h))
    /\ WF_vars(StartSweep)
    /\ WF_vars(MarkStale)
    /\ WF_vars(Tick)

LiveSpec == Spec /\ Fairness

-----------------------------------------------------------------------------
(* Safety *)

\* Hub.cluster_totals aggregates the nodes that are online.
OnlineNodes == {n \in Node : row[n].status = "online"}

\* A node with a connection past its first message is in both tables and is
\* online or stale, whatever else failed or was undone on its account before.
EstablishedIsListed ==
    \A h \in known : /\ row[NodeOf[h]].status \in {"online", "stale"}
                     /\ NodeOf[h] \in beats

\* What cluster_totals counts is recent: a node is counted for at most two
\* periods after its last heartbeat, one more for each sweep in a row that failed
\* or was cut off by the end of the hub, and all the time that the hub was down.
\* The rows outlast an outage, however long, and the hub that is started again
\* counts them until the end of its first sweep.
OnlineIsRecent ==
    \A n \in OnlineNodes : row[n].age <= (2 + lost) * (StaleInterval + MaxDelay) + outage

\* A node is marked stale when it is overdue, or when it was heard from while
\* the UPDATE was on its way: nothing else is taken for silence.
MarkedIsOverdueOrJustHeard ==
    [][\A n \in Node :
          row[n].status # "stale" /\ row'[n].status = "stale"
            => row[n].age > StaleInterval \/ row[n].age <= 2 * MaxDelay]_vars

\* The statements of concurrent methods and of the sweep, in whatever order,
\* change a status only as the table's readers may expect.
Table == INSTANCE NodeTable WITH status <- [n \in Node |-> row[n].status]
ImplementsNodeTable == Table!Spec

(* Liveness *)

\* A node that is overdue is marked or heard from, unless the hub ends; the one that
\* is started next marks it in its turn.
OverdueEnds == \A n \in Node : Overdue(n) ~> ~Overdue(n) \/ ~HubRuns

\* A node marked stale comes back by its next heartbeat.
StaleRecovers ==
    \A h \in Handler :
        h \in known /\ row[NodeOf[h]].status = "stale"
            ~> h \notin known \/ row[NodeOf[h]].status = "online"
=============================================================================
