# soul-mesh in TLA+

A model of the parts of soul-mesh in which order, time and failure matter: what
happens between a request for a remote command and its answer, how the hub knows
which nodes are alive, how the hub is chosen, how a device is linked to an account,
how peers find each other and stay connected, and what a dashboard makes of it. TLC
checks the modules on small instances; TLAPS proves the most important invariants and
refinements for all values of the constants.

To check a run: `tlc -config <cfg> <module>` (the runs are in the table below and in
`PROJECT.json`). To check a proof: `tlapm <module>_proofs.tla`.

## 1. The system

soul-mesh is a Python package. Every process is a single asyncio loop, so the code
between two `await`s is atomic, and concurrency is that of coroutines, of processes
that exchange messages, and of statements that reach one SQLite file.

| Component | State | Operations | Interacts with | What is hard | What makes it correct |
|---|---|---|---|---|---|
| Agent (`agent.py`) | `_ws`, `running`, `_task`, back-off | start, stop, heartbeat loop: connect, send, **one** recv, act | the hub, by WebSocket; a subprocess for a command | broken connections, a command taking the place of an answer, commands that outlast timeouts | executes each command once; never silent for ever |
| WebSocket handler (`server.py`) | per connection: `first_message` | accept, reject, register, heartbeat, command result, disconnect | relay and `Hub`, by call | two handlers of one node at a time; exits that skip `unregister` | the relay routes to the live connection |
| Command relay (`executor.py`) | `_connections`, `_pending` | register, unregister, send_command, deliver_result | handler (calls), REST endpoint (awaits it) | timeout against result, lookup against disconnect, restart | answers are true, futures are cleaned up, every call ends |
| Registry (`hub.py`) | tables `nodes`, `heartbeats` | register_node, process_heartbeat, mark_stale_nodes, queries | handlers and sweep loop share the tables | statements of different coroutines interleave | a mark means silence; silence is marked; marks are undone |
| Stale sweep (`server.py`) | its sleep | every `stale_interval`: mark_stale_nodes | registry | failure of a statement; outages of the process, which leave rows online | goes on for ever; bounds the age of what is counted |
| Election (`election.py`) | `nodes.role`, `NodeInfo.is_hub` | elect_hub (pure), run, elect | table `nodes` | snapshot outside the transaction, floats | one hub; no flip-flopping; order of rows does not matter |
| Linking (`linking.py`) | `link_codes`, `link_attempts`, `settings`, `nodes.account_id` | generate, redeem, get_or_create_account_id | the database | overlapping redemptions, lock upgrade, steps that fail after others | limits hold; a redeemed code is gone; one account |
| Transport (`transport.py`) | `_connections`, `_outbound_tasks`, `_running` | start, stop, outbound tasks, register_inbound, unregister, send, broadcast | peers, by WebSocket; table `nodes` | cancellation at any await, inbound and outbound for one entry | one task per peer; no dangling entry; keeps trying; stop returns |
| Database (`db.py`) | one SQLite file | fetch, execute, insert, upsert_node, transaction | all of the above | what is atomic: one statement, or one transaction | commit or nothing |
| Discovery (`discovery.py`) | `_peers`, `_probe_tasks`, `_task` | start, stop, scan loop, probes, mark_peer_offline | Tailscale, curl | overlapping probes, cancellations that a finished `wait_for` drops | the newest answer wins; stop leaves no probe, and returns |
| Dashboard (`dashboard.py`) | `mesh_nodes`, `_alerts` | polls of the timer and of the refresh key, generate_alerts, clear_alerts | REST API | overlapping polls, failed requests, aliased snapshots | the last alert is right; RAM alerts are due, and none is missed; the list catches up |
| Auth, config, cli, resources, node | none that changes | JWT, YAML, printing, `/proc`, an id file | | | |

The hazards, each at its line, with the properties that would catch it, are in
`PROJECT.json` under `hazards`.

## 2. The modules

| Module | Models | Its state and the code |
|---|---|---|
| `CommandService` | what `POST /api/mesh/run` promises (abstract) | `request`, `target`, `executed` |
| `Session` | agent loop, WebSocket handler, relay, `POST /api/mesh/run`; implements `CommandService` | `pc`, `ws`, `job`: where `_heartbeat_loop` is suspended, `_ws`, the running command. `up`, `down`: the two channels of each connection. `handler`, `first`: each `websocket_heartbeat`. `connections`, `pending`, `call`: the relay's two tables and each `send_command`. `runs` is history |
| `SessionTimed` | `Session` with 30 s measured as three heartbeats of 10 s | `age`: the heartbeats since a request was written |
| `NodeTable` | what a reader of the table `nodes` may expect of a status (abstract) | `status` |
| `Registry` | `Hub` and the sweep loop over the two tables, and a clock; implements `NodeTable` | `row`: status and the age of `last_heartbeat`; `op`: where a handler is in a method, and the age of its `now`; `sweeper`, `timer`, `stale_ids`: the loop, or that the hub is down; `lost`, `outage` (history): the sweeps lost in a row, the time the hub was down |
| `Cluster` | `Session` and `Registry` together, on one clock | the variables of both; `clock`: the ticks an agent has slept or run a command; `steady` (history): the ticks in which nothing disturbed its cycles |
| `ElectHub` | `elect_hub` and the capability | pure; a relation `Wins(list, current, winner)` |
| `HubRole` | what the election promises a reader of the table (abstract) | `hubs` |
| `Election` | `HubElection.elect`, `HubElection.run`; implements `HubRole` | `online`, `spec`, `role`: the table; `pc`, `winner`: each call; `lock`, `draft`: the open transaction; `is_hub`: the local flags |
| `Linking` | link codes and the account | `link_codes`, `link_attempts`, `settings`, `account_id`: the tables; `readers`, `reserved`: SQLite's locks; `pc`, `creator`: each call |
| `Transport` | `MeshTransport` | `connections`, `tasks`, `running`: its fields; `pc`, `delay`, `cancelled`: each outbound task; `inbound`: the websockets a server hands in; `owner`, `todo`: start and stop; `cast`: a broadcast |
| `Discovery` | `PeerDiscovery` | `owner`, `loop`: the caller of start and stop, the scan loop; `probes`, `tracked`: the running probes and those of them in `_probe_tasks`; `peers`: the records; `version`: the data the peers would answer |
| `Dashboard` | the data of `MeshDashboard`, over `NodeTable` | `lists`: the node lists in use, the one shown last; `alerts`; `poll`: each `_poll_data` under way; `seen` (history): what arrived of each node's RAM, and what was said of it |
| `MCSession`, `MCRegistry`, `MCElection`, `MCLinking` | instances for TLC | |
| `Session_proofs`, `Registry_proofs`, `Cluster_proofs`, `Election_proofs`, `Linking_proofs`, `Transport_proofs`, `Discovery_proofs`, `Dashboard_proofs` | theorems | |

The definitions marked `(mutant)` are what a plausible bug would make of the
definition below them. They are in no behaviour of the modules; each shows that a
property can fail (the pairs are in `PROJECT.json`).

### How actions correspond to code

* **Session.** A step is the code between two awaits, one action for each outcome.
  `Connect` is `_ensure_connection` with the hub's `Accept`; `SendHeartbeat`, `ReadOk`,
  `ReadCommand` and `Reply` are the cycle of the loop, and `Drop` its except clause.
  `ReceiveResult`, `ReceiveHeartbeat`, `RejectMismatch`, `Stored`, `StoreFail` and
  `Disconnect` are the handler. `Issue`, `Put`, `SendFail`, `Return` and `Timeout` are
  `send_command` up to each of its awaits and exits. What an agent has written when it
  leaves arrives up to any point (`Leave`). `Restart` is the end and start of the hub's
  process: only the database, which this module has none of, survives.
* **Registry.** One action per SQL statement, because `MeshDB` opens a connection
  and commits for each. The age of a timestamp is kept in place of the timestamp, and
  the value of `now` that a method read ages along with it until its statement runs.
  `HubEnds` ends the process at any moment and leaves the rows as they are; time goes on while it is down
  (`StaysDown`); `HubStarts` is the next process, whose sweep loop begins with a whole sleep.
* **Cluster.** Each step is one step of `Session`, one of `Registry`, or one of both at once: where a
  handler of `Session` is "storing", its statements are those of `Registry`, and the first
  message decides between `register_node` and `process_heartbeat` (`Stores`). Time passes
  only when nothing that takes no time is left to do (`Waits`). What is new is
  the sleep of the agent's loop and the time for which a command runs inside it.
* **Election.** `Select` is the SELECT and `elect_hub`, `Demote`, `Promote` and `Commit`
  the transaction, `SetFlag` the rest. `Abort` is any exception in the transaction. The list
  is in any order of rows.
* **Linking.** The first part of `redeem_link_code` runs in a deferred transaction
  (`CountIp`, `CountGlobal`, `InsertAttempt`, `CommitAttempt`); each later statement
  commits by itself. SQLite's rules for a file without WAL are part of the model: a SELECT
  in a transaction keeps a SHARED lock; an INSERT after it needs the RESERVED lock and
  raises *at once* if another has it (the busy handler is not called for an upgrade);
  COMMIT needs all other SHARED locks gone.
* **Transport.** `Loop`, `Connected`, `ConnectFails`, `Closed` and `Cancelled` are the outbound
  task; `Stop`, `Gathered`, `CloseOne` and `Stopped` are `stop()` between its awaits.
* **Discovery.** `StatusReady` and `Answer` are the moments at which an awaited answer is there;
  `Scan`, `Identified` and `Register` are those at which the task runs on with it. Between the two
  `stop` may cancel the task, and in Python 3.11 `asyncio.wait_for` then returns the answer and
  drops the cancellation (`Swallows`). `for` is the time a task has waited, up to its timeout.
* **Dashboard.** `Serve` is the hub's answer to `GET /api/mesh/nodes`, `NodesArrive` its use;
  `StatusOver`, `HeartbeatsArrive` and `HeartbeatsFail` follow `_poll_data` from request to request,
  and the last one runs `generate_alerts`. `list(self.mesh_nodes)` copies a list of dictionaries,
  not the dictionaries, and the loop over the list writes to them: `lists` holds each list once and the
  polls hold references, so that a write shows through each. The hub lists the nodes by their names, so that the
  alerts of one poll are about the nodes in any order (`Generate`), each node's together.

## 3. The runs

| Run | Instance | Checks |
|---|---|---|
| `nodes` | three nodes (normal, wrong `node_id`, bad token), two requests, one connection each | `AtMostOnce`, `AnswersAreTrue`: commands run once, on the right node, and a 200 means executed, a 404 or 500 not executed |
| `live` | one node, two connections, two requests, restarts | `RoutesToNewest`, `PendingIsInFlight`, `ResponseLag`: the tables over reconnections; `ImplementsService`; `EveryCallEnds`, `CycleEnds`, `DeliveredIsRead` |
| `register` | as `live`, one request | `ConnectedIsRegistered` is violated (finding 1) |
| `timed` | one connection, three requests one by one | `HealthyAgentAnswers` is violated (finding 2) |
| `sweep` | one node, an old and a new connection, failing statements, two lost sweeps in a row, outages of the hub of up to three periods | `EstablishedIsListed`, `OnlineIsRecent`, `MarkedIsOverdueOrJustHeard`, `ImplementsNodeTable`, `OverdueEnds`, `StaleRecovers` |
| `cluster` | one node, two connections, one command, all failures of the hub, an outage among them | `ViewsAgree`; `SteadyIsOnline`: a node whose agent has gone through undisturbed cycles for longer than two take is online |
| `election` | three nodes, two of one name, three capabilities (0.75, 0.90, 1.08), two elections | `AtMostOneHub`, `ElectionRule`, `ImplementsHubRole` |
| `margin` | as `election` | `KeptAtMargin` is violated (finding 3) |
| `linking` | one code, two redemptions from two addresses with retries, two creators, limits 2 and 3 | `RateLimited`, `RedeemedIsGone`, `OneAccount`, `RedemptionEnds` |
| `transport` | a listed peer and one that only connects by itself, two tasks, one inbound websocket each | `OneTaskPerPeer`, `EntryIsOwned`, `BroadcastReachesStable`, `EndsOnlyWhenTold`, `TriesAgain`, `StopReturns` |
| `dashboard` | one node, polls of the timer and of the key | `LastWordIsRight`, `RamAlertsAreDue`, `CrossingsAreTold`, `DisplayCatchesUp` |
| `discovery` | one peer whose data change twice, start and stop, dropped cancellations | `QuietWhenStopped`, `AnswersInOrder`, `StopEnds` |

`nodes`, `transport` and `dashboard` also check `TypeOK` of their module; the types of
all modules with a state of their own are theorems (`TypeCorrect`).

### Bounds, and why they are enough

* `MaxConn` (connections of a node). One is enough where the question is about
  nodes; two are needed for an old connection beside a new one; a third adds another old
  one. The proofs of section 5 need no bound.
* Two or three requests: one to be answered late, one to get in its way. Three
  in `timed`, because the delay grows by two messages with each command.
* The queues have no bound: they are bounded by the protocol, which is `ResponseLag`.
* `StaleInterval` of 3 (4 in `cluster`) and `MaxDelay` of 1 keep the order of the two in the code
  (a sweep of 30 s, statements of at most 5 s each); ages saturate above every value that
  a property compares (`RegistryAssumption`).
* `MaxLost` 2 (1 in `cluster`): the sweeps that may be lost in a row, to a failure or to the end of the
  hub, after which the period starts anew. `OnlineIsRecent` has it as a parameter: each costs one period.
* `MaxOutage` 9 (3 in `cluster`): how long the hub may be down between two sweeps that end. Nine ticks
  are three times the timeout, so that a row is online, with a heartbeat of any age up to 25 ticks, when the hub is back.
  The theorems hold for outages of any length. `OnlineIsRecent` has the outage as a summand: without it the bound is
  violated, since the next process counts what it finds in the file until its first sweep, a whole period later.
* Capabilities of 0.75, 0.90 and 1.08: each is exactly 20% more than the one before, and in floats the product is short of the first
  step only, so that both sides of the margin and the margin itself are met.
* In `cluster`, `Interval` 1 and `StaleInterval` 4 are the least that the assumption
  `Interval + 3 * MaxDelay <= StaleInterval` admits, and `CommandMax` 4 is long enough that a command
  alone makes the node stale. `Settled` is one tick more than two cycles at their longest. Without that tick
  `SteadyIsOnline` is violated when `MaxDelay` is 0: in the last tick the sweep's UPDATE may come after the
  heartbeat of the first cycle and before that of the second.
* Limits of 2 per address and 3 in all, in place of 5 and 50: the second address
  meets the global limit first, and the first its own.
* `MaxTask` 2: a task of before and one of after an `unregister` or a `stop`. `MaxDelay` 2
  (of `Transport`): doubled once, capped once.
* `MaxVersion` 2 in `discovery`: an old answer, a newer one and the newest; `MaxProbes` 2 bounds the probes
  with a dropped cancellation that `start` may meet. One peer: probes of two share nothing.
* `MaxAlerts` 1 in `dashboard`: each alert after the first drops one. What is said of RAM does not depend on what is kept (`seen`). One node: the code treats each
  by itself, but for the order of the alerts.
* `CHECK_DEADLOCK FALSE` is used where the bounds, or an owner that does nothing more,
  really end a behaviour.

### Fairness, and what justifies it

* `Session`: weak fairness of the loops (they go on by themselves), of the handler, which
  must take what has arrived, and of each side's noticing that the other has
  closed (TCP and the WebSocket ping). None of `Issue`, `Stop`, `Start`,
  `Restart` and `StoreFail` by itself, nor of a connection that breaks without cause.
* `Registry`: statements end, the loop runs, the clock ticks, and the agent of an
  open connection sends heartbeats, which is what `CycleEnds` says of `Session`.
* `Linking`: strong fairness of a redemption's steps, because a waiting statement polls
  for the lock. This leaves out SQLite's 5 s limit on the wait, so that
  `RedemptionEnds` says that no deadlock is hidden by it.
* `Transport`: sleeps and connection attempts end and cancellations are delivered. An open
  connection need not end, and nobody need call `stop`.
* `Discovery`: the event loop runs every task that may run, and time passes. No peer and no
  client need answer: their timeouts, which are in `Tick`, do.
* `Dashboard`: the timer fires again (weak), every request ends (weak), and the timer's requests for
  the nodes do not fail for ever (strong: they are served, and their answers arrive, again
  and again). Nobody need press the key.

## 4. Findings

1. **A reconnected agent loses its entry** (`register`). `server.py:180` unregisters by node id. If the
   agent's new connection is registered before the end of the old one is noticed, the
   entry of the new one is removed, against `executor.py:26` ("for every connected agent").
   `RoutesToNewest` is what does hold: an old connection never comes *back*.
2. **A healthy agent times out** (`timed`). The agent reads one message per heartbeat. Each
   command takes the place of an answer, and its result is answered too, so two messages
   more stay queued, for good. `ResponseLag` states the exact size. After two commands a third
   is read 40 s later with the default interval, after its request's 30 s are over, and executed.
3. **The hub loses its role at exactly 20%** (`margin`). The threshold is a product of floats that may come out short:
   `0.75 * (1 + 0.20)` is less than `0.9`, against `src/README.md:255` ("by more than 20%"). For 252 of the 1000
   capabilities up to 50 that are multiples of 0.05 the challenger with exactly 20% more wins. The test of the boundary
   (`test_election.py:43`) takes 40 and 48, for which the product is exact. `ElectionRule` is what does hold: it says which of
   the two wins on either side of the margin, and at the margin leaves it to the rounding (`Short`).
Three more disagreements have no run of their own. Each is an exception of a property that holds, which says
exactly when the code departs from the line quoted; without the exception TLC finds the property violated:

* **A node just heard from is marked stale.** The UPDATE of `mark_stale_nodes` does not repeat the condition of its SELECT
  (`hub.py:156`), against `hub.py:131` ("nodes whose last heartbeat is older than the timeout"). `MarkedIsOverdueOrJustHeard` excepts
  a node heard from while the UPDATE was on its way, and `StaleRecovers` ends the mark.
* **A RAM alert is repeated.** A list just fetched has no RAM values, and `generate_alerts` takes a missing
  one for 0. If one request for a node's heartbeats fails, the next value above 85% is announced again, against
  `dashboard.py:84` ("crossing above 85%"), although the RAM used never fell. `RamAlertsAreDue` excepts an alert after such a failure.
* **A crossing is missed.** If the request for the nodes fails, the poll writes the new values into its own
  "snapshot before update" (`dashboard.py:517`), which shares the nodes with the list that is shown. Both sides of the
  comparison are then above 85%, in this poll and in the next. `CrossingsAreTold` excepts a crossing met in such a poll.

What the models show besides, of which no line of the repository says otherwise:

* While the hub is down, its nodes stay "online" in the file, which `cli.py` and the next process read; they are counted for
  as long as the outage lasts and up to a whole period more (`OnlineIsRecent`).
* A command runs inside the heartbeat loop, so that the node is stale while a long one runs.
  `heartbeat_interval` and `stale_timeout` are not compared with each other: `ClusterAssumption`
  says how far apart they must be.
* `register_node` and `process_heartbeat` read the clock before their first statement: that of an old
  connection may overwrite the timestamp of a new one with an older one.
* In `discovery.py`, an interval of 14 s or less would let probes of two scans overlap
  (`DiscoveryAssumption` excludes it); a second `start` without a `stop` leaves the first loop running; the
  server has no endpoint `/api/mesh/probe`, so that every probe of this hub fails; only tests
  call `mark_peer_offline`; and no command of `cli.py` starts discovery, transport or an election.
* In `dashboard.py`, if two polls overlap, the last alert may be wrong, which `LastWordIsRight` and
  the properties of the RAM alerts therefore exclude. A node that appears with its RAM above the mark gives
  no RAM alert, and one that goes from offline over online to stale between two polls gives none.

## 5. What is proved

For all values of the constants that satisfy the assumptions of the modules: what
kind of thing each constant is, for `Registry` that two statements fit into one
timeout, for `Discovery` that a scan is later than the probes before it can last, and for
`Dashboard` that there are finitely many nodes. Every safety invariant and action property that a run checks, and every
refinement, is a theorem. `SteadyAreCounted` rests on the composition's assumption, that an
interval and three statements fit into the timeout; the others need of it only its part about `Registry`.

* **Types** (`TypeCorrect`): inductive as they stand, for `Session` with
  `Attached` (what a suspended agent or call refers to exists: an agent that reads has a
  connection, a call in flight has a node and a connection).
* **`NewestConnection`**, **`FuturesAreCleanedUp`** (`Session`): `RoutesToNewest` and
  `PendingIsInFlight` are inductive given the types.
* **`CommandsRunAtMostOnce`** (`Session`): `AtMostOnce` is not inductive, since nothing in it says
  that an executed command is not still queued somewhere. The strengthening `Once` says
  that the `run_command` of a request is in at most one place of one queue, that of the node
  and connection of its call, and in none once it was executed or while it was not sent.
* **`AnswersCorrect`** (`Session`): needs besides that a result on its way, or a running job,
  implies an execution (`Justified`). It uses `Once` for the requests that were refused.
* **`CommandPathIsAService`** (`Session`): the refinement of `CommandService`. Every step is
  one of its steps or a stutter; the two invariants above show that `Execute`
  happens to an open or abandoned request, once, at its target, and that
  `Answer` and `Refuse` are true.
* **`LagIsExact`** (`Session`): `ResponseLag` counts the commands that came and went on a connection.
  It is inductive with `Places`: a connection is not used before it is made, a call names one that was, and
  a running command came over the one its agent uses. Each step then moves a message, starts or ends
  one cycle, or adds one command to the set that is counted.
* **`Established`**, **`MarksAreJustified`** (`Registry`): the first follows a handler through the
  statements of `register_node`; the second relates `stale_ids`, the age of each row and the
  sweep's timer: who is in `stale_ids` is still overdue or was written by a statement
  that read the clock at most `MaxDelay` before the SELECT.
* **`CountedIsRecent`** (`Registry`): `OnlineIsRecent` says nothing of what the next sweep will find.
  The strengthening `AgeInv` bounds the age of an online row by the sweeps lost in a row, the time since
  the last and the time the hub was down, and, while an UPDATE is on its way, that of a row not among `stale_ids`
  more tightly: it was not overdue at the SELECT.
* **`StatusesFollowTheTable`** (`Registry`): the refinement of `NodeTable`, from `StatusInv`: what
  the SELECT found online the UPDATE finds online, and `register_node` sets the status of a row that exists.
* **`Components`** (`Cluster`): the composition implements `Session` and `Registry`, so that all of the above
  holds in it. **`OnlineInCluster`** is the one example spelled out. **`HandlersAgree`** proves `ViewsAgree`, with two facts
  about connections not yet made and handlers that have ended (`ViewInv`): the two
  components never wait for each other.
* **`SteadyAreCounted`** (`Cluster`): `SteadyIsOnline` counts ticks back, while what keeps a node online lies ahead: its next
  UPDATE. `Left` is an upper bound on the ticks until then, as the agent sleeps, its heartbeat is on its way, or its
  handler is at one of its statements; it is at most a cycle (`Bounds`), no step of an undisturbed agent makes it larger but
  the UPDATE itself, and each tick makes it smaller (`TickLeft`). This last fact rests on `LagInv`, the invariant of `LagIsExact`: an
  agent that reads has its answer on the way, which at a tick is being stored. Then `SilenceAt` is inductive: where a
  row may get overdue, `steady` and `Left` together are less than a cycle; so they are for a node that the SELECT finds, and less than
  two cycles when the UPDATE of the sweep, which may come later, marks it. The registry adds that a handler with its INSERT
  left has just written the row (`RecentInv`). On the instance of `cluster` TLC finds no violation of these invariants either.
* **`OneHub`** (`Election`): `AtMostOneHub` is strengthened by what an open transaction has
  written so far (`TxInv`): whoever is in one holds the lock, its draft names only its
  winner, and at its commit it does name it. **`RoleMovesInOneStep`**, the refinement of `HubRole`,
  follows from the same invariant.
* **`HubYieldsOnlyToBetter`**, **`OrderIsIrrelevant`** (`ElectHub`): of every list, of
  whatever length, and every rounding of the threshold (`Short`). A challenger that wins has more
  than 20% more, or exactly 20% more where the product is short.
* **`RuleHolds`** (`Election`): in every listing of the online rows exactly one node wins. The best
  one exists because a set of numbers has a least element (`ElectionRule` says when it wins: always above the margin, never
  below it, and at the margin where the product is short); that every row is in a listing is by counting.
* **`LocksAreKept`**, **`LimitsHold`** (`Linking`): `LockInv` says which calls hold which lock at which statement. A call keeps
  its SHARED lock for its whole transaction, so that nobody else commits before it does: what it has
  counted holds until its own commit, which is what `LimitInv` adds to `RateLimited`.
* **`CodesAreGone`**, **`AccountsAgree`** (`Linking`): a deleted code stays deleted; what a creator returned is the account, or
  a redemption has replaced one of the two.
* **`OneTask`**, **`TasksGoOn`**, **`EntriesAreOwned`**, **`StableAreReached`** (`Transport`): `stop` has cancelled every task of the table when it
  clears it (`TaskInv`); an entry, and one that a broadcast found, is of a websocket handed in before (`EntryInv`).
* **`StopQuiets`** (`Discovery`): `ScanInv` says that a probe that nobody cancelled is tracked, and has been under
  way for less than the loop has slept: so none is left when the loop wakes or stops.
* **`RecordsGrow`** (`Discovery`): `OrderInv` adds that there is at most one such probe of each peer and that
  its answer is no older than the record, as long as no cancellation was dropped.

* **`TypeCorrect`** (`Dashboard`): the lists are renumbered when one is no longer referred to (`Set`). `Places` shows that this keeps
  every reference on its list, and `FiveAtMost` that the list shown and two for each poll are all there are.
* **`LastWords`** (`Dashboard`): nothing in `LastWordIsRight` says which list the next alerts will be compared with. `WordInv` says, for each list that
  a poll may still compare (`Bases`), that the last word about a node is its status *there*; `LiveInv` that along these lists
  a node that was online or stale is so ever after, since the table of the hub never goes back (the refinement
  `StatusesFollowTheTable`), so that each change of a status gives a word; and `AloneInv` that without overlap only one poll
  is under way.
* **`AlertsAreDue`**, **`NoneIsMissed`** (`Dashboard`): the two properties say nothing of the lists. `RamInv` relates these to what was seen: a node that
  was told of, and of which nothing came since that would excuse another alert, is above 85% in each list that a poll may still compare, and in
  the latest list as soon as the poll has asked for its heartbeats; one whose last value was low is not above 85% in them until the
  poll has asked; and a crossing is between the two lists of the poll under way. `Fits` is this for one node, and `HeardFits`
  follows it through one request. It rests on `LiveInv` as well: a node once listed is listed ever after, so that every poll asks for it.

Only model-checked: liveness, which under fairness is out of reach of the prover (`EveryCallEnds`, `CycleEnds`, `DeliveredIsRead`,
`OverdueEnds`, `StaleRecovers`, `RedemptionEnds`, `TriesAgain`, `StopReturns`, `StopEnds`, `DisplayCatchesUp`). What a recursive
definition or a fold computes for every input is out of its reach too; `ElectHub` therefore states the winner as a
relation, and `Dashboard` the alerts of a poll as any order of a set.

## 6. What the models leave out

* `Session`: between `accept()` and `register` the handler may be suspended for an instant;
  the model takes them as one step. A message that is not JSON is answered with an error and
  changes nothing. Sleeps end at any moment, so that nothing but `SessionTimed` and `Cluster` depends on
  their length. A token never expires: it is made for each connection. When a process that runs a
  command ends, is not followed: a cancelled loop leaves it running.
* `Registry`: computing the cutoff and the SELECT are one step, and a timestamp is a tick,
  not a second; so the order of heartbeats of one second in `heartbeat_history` is not kept. Resource
  figures are not kept.
* `Cluster`: messages and back-offs take no time.
* `Election`: capabilities are hundredths; what floating point does to the threshold is
  the constant `Short`, and a tie of `round` that floating point breaks otherwise is not
  kept. `elect` without a database only sets the flag and is left out.
* `Linking`: 10 and 15 minutes pass at any moment. The `success` column, which nothing
  reads, is left out.
* The database of the tests, `":memory:"`, has one connection for all coroutines, so that a
  transaction there also commits what others wrote, and another's commit ends it. The models are
  of a file, as `cli.py` opens it.
* `Transport`: `start` and `stop` are called by one owner that awaits them. `on`, `handle_message` and
  `send_to_hub` have no state of their own.
* `Discovery`: `MdnsAnnouncer` only calls a library. Of a peer's data only their version is kept, so that the
  arithmetic of `_compute_capability` is not. One owner calls `start` and `stop` in turn.
* `Dashboard`: of a node its status and whether its RAM is above 85%. The screens (layout, key bindings; the
  overview's key only pops a detail screen, so that screens may pile up) and the remote shell, one POST whose 5 s
  timeout (`dashboard.py:502`) ends long before the relay's 30 s, are left out. So is an
  exception that is not of the HTTP client: it ends the poll half-way.
* Not modelled: `config.py` (parsing), `cli.py` (printing, and starting the rest), `resources.py` (reads of
  `/proc`), `__init__.py`; `node.py`, whose id file is written in place, without a
  rename: the one hazard in it is listed, and needs no interleaving to be seen. They have no state that
  changes while the system runs.

## 7. Plan

What is done is marked.

1. `Session` with its runs and proofs (done); `SessionTimed` (done); `CommandService` (done).
2. `Registry` with its runs and proofs (done); `NodeTable` (done).
3. `ElectHub`, `Election` with their runs and proofs (done); `HubRole` (done).
4. `Linking` and `Transport` with their runs and proofs (done).
5. `Cluster`: `Session` composed with `Registry`, with `SteadyIsOnline` as a theorem (done).
6. `Discovery` and `Dashboard` with their runs and proofs (done).
7. The theorem about `ResponseLag`, which bounds the queues (done).
8. The steps that liveness rests on, as far as they are safety: that somebody who waits for a lock waits for one who can go
   on (`Linking`), and that what an agent has to read before a command never grows (`Session`).
