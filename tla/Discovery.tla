------------------------------ MODULE Discovery ------------------------------
(***************************************************************************)
(* PeerDiscovery (discovery.py): a loop asks the Tailscale client for the  *)
(* peers, starts a task for each that is online to probe it, and sleeps.   *)
(* A probe asks the peer who it is and then, with a nonce, for its data,   *)
(* and records it.  stop cancels the probes and the loop, and awaits the   *)
(* loop.                                                                   *)
(*                                                                         *)
(* Time is discrete.  A task whose awaited answer is there, or which was   *)
(* cancelled, runs before time passes, but other tasks may run before it.  *)
(* In Python 3.11 (which the package admits) asyncio.wait_for drops the    *)
(* cancellation of a task whose answer is there: Swallows says whether     *)
(* this is so.                                                             *)
(*                                                                         *)
(* Of the data of a peer the module keeps a version that grows when they   *)
(* change, and of an identity or an answer whether it is accepted.         *)
(***************************************************************************)
EXTENDS Naturals, FiniteSets

CONSTANTS
    Peer,
    Timeout,     \* of each of the two requests of a probe: _PROBE_TIMEOUT + 2
    StatusMax,   \* the timeout of the Tailscale client
    Interval,    \* discovery_interval
    Secret,      \* whether shared_secret is set
    Swallows,    \* see above
    MaxVersion,  \* (bound) the changes of a peer's data
    MaxProbes    \* (bound) the probes left by stop with which it is started again

\* The default interval, 30 s, exceeds the 14 s that a probe may take; the code
\* accepts any other.
ASSUME DiscoveryAssumption ==
    /\ Timeout \in Nat \ {0} /\ StatusMax \in Nat \ {0}
    /\ Interval \in Nat /\ Interval > 2 * Timeout
    /\ Secret \in BOOLEAN /\ Swallows \in BOOLEAN
    /\ MaxVersion \in Nat

None == MaxVersion + 1

VARIABLES
    owner,     \* "stopped", "running" or "stopping", while stop awaits the loop
    loop,      \* the task of _discovery_loop: where it is and for how long, whether
               \*   the client's answer is there, whether it was cancelled
    probes,    \* the tasks of _probe_peer
    tracked,   \* those of them in _probe_tasks
    peers,     \* _peers: the version and the status of each record
    version,   \* the peers: the version of each one's data
    dropped    \* (history) whether a probe's cancellation was ever dropped

vars == <<owner, loop, probes, tracked, peers, version, dropped>>

-----------------------------------------------------------------------------
Loop == [at : {"none", "scan", "sleep"}, for : 0 .. Interval + StatusMax,
         ready : BOOLEAN, cancelled : BOOLEAN]

\* "got" is the version in the answer, if it is there.
Probe == [peer : Peer, at : {"identity", "probe"}, for : 0 .. Timeout,
          got : 0 .. None, cancel : {"no", "due", "swallowed"}]

TypeOK ==
    /\ owner \in {"stopped", "running", "stopping"}
    /\ loop \in Loop
    /\ probes \in SUBSET Probe
    /\ tracked \in SUBSET probes
    /\ peers \in [Peer -> [version : 0 .. None, status : {"absent", "online", "offline"}]]
    /\ version \in [Peer -> 0 .. MaxVersion]
    /\ dropped \in BOOLEAN

LoopAt(at) == [at |-> at, for |-> 0, ready |-> FALSE, cancelled |-> FALSE]
NoLoop == LoopAt("none")

ProbeAt(p, at, cancel) == [peer |-> p, at |-> at, for |-> 0, got |-> None, cancel |-> cancel]
NewProbe(p) == ProbeAt(p, "identity", "no")

Init ==
    /\ owner = "stopped"
    /\ loop = NoLoop
    /\ probes = {} /\ tracked = {}
    /\ peers = [p \in Peer |-> [version |-> 0, status |-> "absent"]]
    /\ version = [p \in Peer |-> 0]
    /\ dropped = FALSE

\* The task b goes on as one of S (or ends), and stays in _probe_tasks if it was.
Becomes(b, S) ==
    /\ probes' = (probes \ {b}) \cup S
    /\ tracked' = IF b \in tracked THEN (tracked \ {b}) \cup S ELSE tracked

-----------------------------------------------------------------------------
(* start and stop *)

Start ==
    /\ owner = "stopped" /\ Cardinality(probes) <= MaxProbes
    /\ owner' = "running"
    /\ loop' = LoopAt("scan")
    /\ UNCHANGED <<probes, tracked, peers, version, dropped>>

Cancelled(b) ==
    IF b \notin tracked THEN b
    ELSE [b EXCEPT !.cancel = IF Swallows /\ b.got # None THEN "swallowed" ELSE "due"]

CancelLoop == [loop EXCEPT !.cancelled = ~(Swallows /\ loop.ready)]

\* (mutant) The probes are left to end by themselves.
StopLoopOnly ==
    /\ owner = "running"
    /\ owner' = "stopping"
    /\ loop' = CancelLoop
    /\ UNCHANGED <<probes, tracked, peers, version, dropped>>

Stop ==
    /\ owner = "running"
    /\ owner' = "stopping"
    /\ probes' = {Cancelled(b) : b \in probes}
    /\ tracked' = {}
    /\ loop' = CancelLoop
    /\ dropped' = (dropped \/ \E b \in probes' : b.cancel = "swallowed")
    /\ UNCHANGED <<peers, version>>

StopReturns ==
    /\ owner = "stopping" /\ loop.at = "none"
    /\ owner' = "stopped"
    /\ UNCHANGED <<loop, probes, tracked, peers, version, dropped>>

-----------------------------------------------------------------------------
(* _discovery_loop and _scan_peers *)

StatusReady ==
    /\ loop.at = "scan" /\ ~loop.ready /\ ~loop.cancelled
    /\ loop' = [loop EXCEPT !.ready = TRUE]
    /\ UNCHANGED <<owner, probes, tracked, peers, version, dropped>>

\* A probe of each peer that is online.
Scan(online) ==
    LET new == {NewProbe(p) : p \in online} IN
    /\ loop.at = "scan" /\ loop.ready /\ ~loop.cancelled
    /\ loop' = LoopAt("sleep")
    /\ probes' = probes \cup new
    /\ tracked' = tracked \cup new
    /\ UNCHANGED <<owner, peers, version, dropped>>

\* The client fails, times out or is not connected.
ScanFails ==
    /\ loop.at = "scan" /\ ~loop.cancelled
    /\ loop' = LoopAt("sleep")
    /\ UNCHANGED <<owner, probes, tracked, peers, version, dropped>>

\* (mutant) while True
WakeAlways ==
    /\ loop.at = "sleep" /\ loop.for = Interval /\ ~loop.cancelled
    /\ loop' = LoopAt("scan")
    /\ UNCHANGED <<owner, probes, tracked, peers, version, dropped>>

Wake ==
    /\ loop.at = "sleep" /\ loop.for = Interval /\ ~loop.cancelled
    /\ loop' = IF owner = "running" THEN LoopAt("scan") ELSE NoLoop
    /\ UNCHANGED <<owner, probes, tracked, peers, version, dropped>>

LoopCancelled ==
    /\ loop.cancelled
    /\ loop' = NoLoop
    /\ UNCHANGED <<owner, probes, tracked, peers, version, dropped>>

-----------------------------------------------------------------------------
(* _probe_peer *)

\* The answer to the request under way, as the peer is now.
Answer(b) ==
    /\ b.got = None /\ b.cancel # "due"
    /\ Becomes(b, {[b EXCEPT !.got = version[b.peer]]})
    /\ UNCHANGED <<owner, loop, peers, version, dropped>>

\* The identity names another node: it is asked for its data.
Identified(b) ==
    /\ b.at = "identity" /\ b.got # None /\ b.cancel # "due"
    /\ Becomes(b, {ProbeAt(b.peer, "probe", b.cancel)})
    /\ UNCHANGED <<owner, loop, peers, version, dropped>>

\* A signature is verified if there is one and a secret to verify it with.
Accepted(data) == (Secret => data.signature # "wrong") /\ data.account = "own"

Data == [signature : {"none", "right", "wrong"}, account : {"own", "other"}]

Register(b, data) ==
    /\ b.at = "probe" /\ b.got # None /\ b.cancel # "due"
    /\ Becomes(b, {})
    /\ peers' = IF Accepted(data)
                THEN [peers EXCEPT ![b.peer] = [version |-> b.got, status |-> "online"]]
                ELSE peers
    /\ UNCHANGED <<owner, loop, version, dropped>>

\* The process fails or times out, the answer is not understood, or the peer turns
\* out to be this node.
ProbeFails(b) ==
    /\ b.cancel # "due"
    /\ Becomes(b, {})
    /\ UNCHANGED <<owner, loop, peers, version, dropped>>

ProbeCancelled(b) ==
    /\ b.cancel = "due"
    /\ Becomes(b, {})
    /\ UNCHANGED <<owner, loop, peers, version, dropped>>

MarkPeerOffline(p) ==
    /\ peers[p].status # "absent"
    /\ peers' = [peers EXCEPT ![p].status = "offline"]
    /\ UNCHANGED <<owner, loop, probes, tracked, version, dropped>>

-----------------------------------------------------------------------------
(* The peers, and time *)

PeerChanges(p) ==
    /\ version[p] < MaxVersion
    /\ version' = [version EXCEPT ![p] = @ + 1]
    /\ UNCHANGED <<owner, loop, probes, tracked, peers, dropped>>

\* (mutant) Without the timeouts.
WithinInterval(b) == b.got = None /\ b.cancel # "due" /\ b.for < Interval

MayWait(b) == b.got = None /\ b.cancel # "due" /\ b.for < Timeout

Tick ==
    /\ ~loop.ready /\ ~loop.cancelled
    /\ loop.at = "scan" => loop.for < StatusMax
    /\ loop.at = "sleep" => loop.for < Interval
    /\ loop.at = "none" => owner # "stopping"
    /\ \A b \in probes : MayWait(b)
    /\ loop.at # "none" \/ probes # {}
    /\ loop' = IF loop.at = "none" THEN loop ELSE [loop EXCEPT !.for = @ + 1]
    /\ probes' = {[b EXCEPT !.for = @ + 1] : b \in probes}
    /\ tracked' = {[b EXCEPT !.for = @ + 1] : b \in tracked}
    /\ UNCHANGED <<owner, peers, version, dropped>>

Next ==
    \/ Start \/ Stop \/ StopReturns
    \/ StatusReady \/ ScanFails \/ Wake \/ LoopCancelled
    \/ \E online \in SUBSET Peer : Scan(online)
    \/ \E b \in probes :
         \/ Answer(b) \/ Identified(b) \/ ProbeFails(b) \/ ProbeCancelled(b)
         \/ \E data \in Data : Register(b, data)
    \/ \E p \in Peer : MarkPeerOffline(p) \/ PeerChanges(p)
    \/ Tick

\* The event loop runs every task that may run, and time passes.
Fairness ==
    /\ WF_vars(StopReturns) /\ WF_vars(LoopCancelled) /\ WF_vars(Wake) /\ WF_vars(Tick)
    /\ WF_vars(ScanFails \/ \E online \in SUBSET Peer : Scan(online))
    /\ WF_vars(\E b \in probes :
                 ProbeFails(b) \/ ProbeCancelled(b) \/ \E data \in Data : Register(b, data))

Spec == Init /\ [][Next]_vars /\ Fairness

-----------------------------------------------------------------------------
(* Properties *)

\* Once stop has returned, the only probes that still go on are those whose own
\* cancellation was dropped: even if the loop's was dropped too and it started new
\* probes, they ended while it slept (stop, the timeouts of _probe_peer and the
\* while condition of _discovery_loop).
QuietWhenStopped == owner = "stopped" => \A b \in probes : b.cancel # "no"

\* A record is never replaced by older data, unless the cancellation of a probe was
\* dropped: a probe is over before the next scan starts one of the same peer
\* (_probe_peer against _discovery_loop).
AnswersInOrder ==
    [][~dropped => \A p \in Peer : peers'[p].version >= peers[p].version]_vars

\* stop returns, whenever it is called: at the latest when the loop wakes up.
StopEnds == owner = "stopping" ~> owner = "stopped"
=============================================================================
