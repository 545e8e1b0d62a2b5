------------------------------ MODULE Dashboard ------------------------------
(***************************************************************************)
(* The data of MeshDashboard (dashboard.py): the polls of the hub's API,   *)
(* the list of nodes that its screens show, and the alerts derived from    *)
(* two successive lists.                                                   *)
(*                                                                         *)
(* A poll awaits one request after the other, and each is answered by the  *)
(* hub at one moment and applied at a later one.  The timer runs its polls *)
(* in a task of its own, and the polls asked for at the start or with the  *)
(* refresh key run one by one in the message pump of the application, so   *)
(* that two polls may overlap.                                             *)
(*                                                                         *)
(* old_nodes = list(self.mesh_nodes) copies the list but not the nodes in  *)
(* it, which a later request may change.  The lists that are in use are    *)
(* therefore kept in one place, and the variables hold references to them. *)
(* Of a node the module keeps its status and whether its RAM is above 85%. *)
(***************************************************************************)
EXTENDS Naturals, SequencesExt

CONSTANTS
    Node,
    MaxAlerts    \* the maxlen of the deque of alerts

ASSUME DashboardAssumption == IsFiniteSet(Node) /\ MaxAlerts \in Nat \ {0}

Poller == {"timer", "pump"}
Ref == 1 .. 5    \* a list of nodes: the one shown, and two of each poll
None == 0

VARIABLES
    (* the hub *)
    status,      \* the status of each node now (module NodeTable)
    (* the dashboard *)
    lists,       \* the lists of nodes in use, the latest, MeshDashboard.mesh_nodes, last
    alerts,      \* MeshDashboard._alerts, the newest last
    poll,        \* each _poll_data: where it is, its variables, and the hub's
                 \*   answer to the request for the nodes
    (* history *)
    overlapped,  \* whether two polls were ever under way at a time
    seen         \* what was seen of each node's RAM, until two polls overlap (Seen)

dashVars == <<lists, alerts, poll, overlapped, seen>>
vars == <<status, dashVars>>

-----------------------------------------------------------------------------
(* Lists and alerts *)

\* A node that is not in the list, or has not got its key _ram_used_percent yet.
Unlisted == [status |-> "absent", high |-> FALSE]
Listed(l) == {n \in Node : l[n].status # "absent"}

Entry == [status : {"absent", "offline", "online", "stale"}, high : BOOLEAN]
Alert == [kind : {"appeared", "stale", "online", "ram"}, node : Node]

\* (history) What was seen of a node's RAM.  "unknown": no value yet.  "low": the last
\* value is not above 85%.  "crossed": it is, since it was low, and is to be compared with
\* another list.  "high": it is, and no alert said so or need say so.  "told": an alert
\* said so.  "lapsed": since then a request for its heartbeats came to nothing.  "again":
\* and one more alert said so, with no low value between.  "wrong": an alert said so
\* without one of these reasons.
Seen == {"unknown", "low", "high", "crossed", "told", "lapsed", "again", "wrong"}

Waiting == [st |-> "waiting"]

PollState ==
    [pc : {"idle", "nodes", "status", "heartbeats"}, old_nodes : Ref \cup {None}, list : Ref \cup {None},
     todo : SUBSET Node, reply : [nodes : [Node -> Entry]] \cup {Waiting}]

TypeOK ==
    /\ status \in [Node -> {"absent", "offline", "online", "stale"}]
    /\ lists \in Seq([Node -> Entry]) /\ Len(lists) \in Ref
    /\ alerts \in Seq(Alert) /\ Len(alerts) <= MaxAlerts
    /\ poll \in [Poller -> PollState]
    /\ overlapped \in BOOLEAN
    /\ seen \in [Node -> Seen]

Idle == [pc |-> "idle", old_nodes |-> None, list |-> None, todo |-> {}, reply |-> Waiting]

Init ==
    /\ status = [n \in Node |-> "absent"]
    /\ lists = <<[n \in Node |-> Unlisted]>>
    /\ alerts = <<>>
    /\ poll = [p \in Poller |-> Idle]
    /\ overlapped = FALSE
    /\ seen = [n \in Node |-> "unknown"]

About(n, kind) == [kind |-> kind, node |-> n]

\* (mutant) A node that comes back is not announced.
NoReturns(n, old, new) ==
    {a \in {About(n, "stale")} : old.status = "online" /\ new.status = "stale"}

StatusAlerts(n, old, new) ==
    {a \in {About(n, "stale"), About(n, "online")} :
        \/ a.kind = "stale" /\ old.status = "online" /\ new.status = "stale"
        \/ a.kind = "online" /\ old.status \in {"stale", "offline"} /\ new.status = "online"}

\* (mutant) The value is compared, not the crossing.
RamAbove(n, old, new) == {a \in {About(n, "ram")} : new.high}

\* (mutant) elif in place of if: one alert is enough.
RamElse(n, old, new) ==
    {a \in {About(n, "ram")} : ~old.high /\ new.high /\ StatusAlerts(n, old, new) = {}}

RamAlerts(n, old, new) == {a \in {About(n, "ram")} : ~old.high /\ new.high}

\* generate_alerts, for one node of the new list.
AlertsOf(n, old, new) ==
    IF old.status = "absent" THEN {About(n, "appeared")}
    ELSE StatusAlerts(n, old, new) \cup RamAlerts(n, old, new)

Alerts(old, new) == UNION {AlertsOf(n, old[n], new[n]) : n \in Listed(new)}

\* The orders in which the alerts may be generated: the nodes in any order, for they are
\* listed by their names, and what is said of one node together, its RAM last.
Generate(old, new) ==
    {s \in SetToSeqs(Alerts(old, new)) :
        \A i, j \in DOMAIN s :
            i < j /\ s[i].node = s[j].node => j = i + 1 /\ s[j].kind = "ram"}

\* (history) A value arrives; a request comes to nothing; an alert is generated.
Value(s, high, shared) ==
    CASE ~high -> "low"
      [] high /\ s = "low" -> IF shared THEN "high" ELSE "crossed"
      [] high /\ s = "unknown" -> "high"
      [] OTHER -> s

Lapse(s) == IF s \in {"told", "again"} THEN "lapsed" ELSE s

Tell(s) ==
    CASE s \in {"high", "crossed"} -> "told"
      [] s = "lapsed" -> "again"
      [] OTHER -> "wrong"

\* (history) What is kept of s by a step after which two polls overlapped or not.
Kept(s, both) == IF both THEN [n \in Node |-> "unknown"] ELSE s

\* (mutant) The alerts pile up.
AllKept(s) == s

Newest(s) == SubSeq(s, IF Len(s) > MaxAlerts THEN Len(s) - MaxAlerts + 1 ELSE 1, Len(s))

-----------------------------------------------------------------------------
(* The hub's tables *)

Table == INSTANCE NodeTable

StatusChanges ==
    /\ Table!Next
    /\ UNCHANGED dashVars

-----------------------------------------------------------------------------
(* _poll_data *)

mesh_nodes == Last(lists)

UnderWay(p) == poll[p].pc # "idle"

\* Of the lists h, those that the dashboard or a poll refers to.
Used(h, polls) ==
    ({Len(h)} \cup {polls[p].old_nodes : p \in Poller} \cup {polls[p].list : p \in Poller}) \ {None}

\* Where a list is found when only those of used are kept.
Place(used, r) == Cardinality({s \in used : s <= r})

\* The new values of the lists and of the polls are h and polls, without the lists
\* that are no longer in use.
Set(h, polls) ==
    LET used == Used(h, polls) IN
    /\ lists' = [i \in 1 .. Cardinality(used) |-> h[CHOOSE r \in used : Place(used, r) = i]]
    /\ poll' = [p \in Poller |->
                  [polls[p] EXCEPT !.old_nodes = Place(used, @), !.list = Place(used, @)]]

Poll(p) ==
    /\ ~UnderWay(p)
    /\ poll' = [poll EXCEPT ![p].pc = "nodes", ![p].old_nodes = Len(lists)]
    /\ overlapped' = (overlapped \/ \E q \in Poller : UnderWay(q))
    /\ seen' = Kept(seen, overlapped')
    /\ UNCHANGED <<status, lists, alerts>>

\* The hub answers the request for the nodes.
Serve(p) ==
    /\ poll[p].pc = "nodes" /\ poll[p].reply = Waiting
    /\ poll' = [poll EXCEPT ![p].reply =
                  [nodes |-> [n \in Node |-> [status |-> status[n], high |-> FALSE]]]]
    /\ UNCHANGED <<status, lists, alerts, overlapped, seen>>

\* The request for the nodes is over, and the one for the totals of the cluster
\* follows: nothing but the header shows its answer.
NodesOver(p) == [poll EXCEPT ![p].pc = "status", ![p].reply = Waiting]

\* (mutant) A node that is listed already keeps its entry.
KeepListed(p) ==
    /\ poll[p].pc = "nodes" /\ poll[p].reply # Waiting
    /\ Set(Append(lists, [n \in Node |-> IF n \in Listed(mesh_nodes) THEN mesh_nodes[n]
                                         ELSE poll[p].reply.nodes[n]]), NodesOver(p))
    /\ UNCHANGED <<status, alerts, overlapped, seen>>

NodesArrive(p) ==
    /\ poll[p].pc = "nodes" /\ poll[p].reply # Waiting
    /\ Set(Append(lists, poll[p].reply.nodes), NodesOver(p))
    /\ UNCHANGED <<status, alerts, overlapped, seen>>

NodesFail(p) ==
    /\ poll[p].pc = "nodes"
    /\ poll' = NodesOver(p)
    /\ UNCHANGED <<status, lists, alerts, overlapped, seen>>

\* What follows a request: the next one for heartbeats or, if none is left, the
\* alerts and the end.  h is what the lists are by then, and heard what was seen.
Continue(p, h, list, todo, heard) ==
    LET old  == h[poll[p].old_nodes]
        asks == [poll[p] EXCEPT !.pc = "heartbeats", !.list = list, !.todo = todo]
    IN \/ /\ todo # {}
          /\ Set(h, [poll EXCEPT ![p] = asks])
          /\ seen' = Kept(heard, overlapped)
          /\ UNCHANGED alerts
       \/ /\ todo = {}
          /\ Set(h, [poll EXCEPT ![p] = Idle])
          /\ \E found \in Generate(old, Last(h)) : alerts' = Newest(alerts \o found)
          /\ seen' = Kept([n \in Node |-> IF About(n, "ram") \in Alerts(old, Last(h))
                                         THEN Tell(heard[n]) ELSE heard[n]], overlapped)

\* The loop over the list that is shown by now, whoever fetched it.
StatusOver(p) ==
    /\ poll[p].pc = "status"
    /\ Continue(p, lists, Len(lists), Listed(mesh_nodes), seen)
    /\ UNCHANGED <<status, overlapped>>

\* The node whose heartbeats the poll asks for.
Asked(p) == CHOOSE n \in poll[p].todo : TRUE

\* The RAM used of the latest heartbeat, whatever it is, is written to the node of
\* the list under the loop.
HeartbeatsArrive(p) ==
    /\ poll[p].pc = "heartbeats"
    /\ \E high \in BOOLEAN :
         Continue(p, [lists EXCEPT ![poll[p].list][Asked(p)].high = high],
                  poll[p].list, poll[p].todo \ {Asked(p)},
                  [seen EXCEPT ![Asked(p)] = Value(@, high, poll[p].list = poll[p].old_nodes)])
    /\ UNCHANGED <<status, overlapped>>

\* The request fails, or the hub has no heartbeats of the node: its entry stays.
HeartbeatsFail(p) ==
    /\ poll[p].pc = "heartbeats"
    /\ Continue(p, lists, poll[p].list, poll[p].todo \ {Asked(p)},
                [seen EXCEPT ![Asked(p)] = Lapse(@)])
    /\ UNCHANGED <<status, overlapped>>

ClearAlerts ==
    /\ alerts' = <<>>
    /\ UNCHANGED <<status, lists, poll, overlapped, seen>>

\* The request under way is over, one way or the other.
Over(p) ==
    \/ NodesArrive(p) \/ NodesFail(p) \/ StatusOver(p)
    \/ HeartbeatsArrive(p) \/ HeartbeatsFail(p)

Next ==
    \/ StatusChanges \/ ClearAlerts
    \/ \E p \in Poller : Poll(p) \/ Serve(p) \/ Over(p)

\* The timer fires for ever, a request is answered or times out, and those of the
\* timer for the nodes do not all fail, before the hub's answer or after it.
Fairness ==
    /\ WF_vars(Poll("timer"))
    /\ \A p \in Poller : WF_vars(Over(p))
    /\ SF_vars(Serve("timer")) /\ SF_vars(NodesArrive("timer"))

Spec == Init /\ [][Next]_vars /\ Fairness

-----------------------------------------------------------------------------
(* Properties *)

\* The latest alert about a node's status that is kept agrees with the status
\* shown, whichever requests failed, as long as no poll is under way or ever
\* overlapped another (generate_alerts over the snapshots of _poll_data).
Said(n) == {i \in DOMAIN alerts : alerts[i] \in {About(n, "stale"), About(n, "online")}}

LastWordIsRight ==
    ~overlapped /\ (\A p \in Poller : ~UnderWay(p)) =>
        \A n \in Node : \A i \in Said(n) :
            (\A j \in Said(n) : j <= i) => alerts[i].kind = mesh_nodes[n].status

\* An alert about a node's RAM is due, whichever requests for the nodes failed: the
\* last value that arrived is above 85%, and no alert said so since the value was low
\* or a request for the node's heartbeats came to nothing (generate_alerts over the
\* snapshots of _poll_data), as long as no two polls overlapped.
RamAlertsAreDue == ~overlapped => \A n \in Node : seen[n] # "wrong"

\* Once a poll is over, no crossing that it met is left without an alert, unless its
\* request for the nodes failed, so that it had no other list to compare with
\* (generate_alerts over the snapshots of _poll_data), as long as no two polls overlapped.
CrossingsAreTold ==
    ~overlapped /\ (\A p \in Poller : ~UnderWay(p)) => \A n \in Node : seen[n] # "crossed"

\* A status that stays is shown in the end, whichever requests fail or overlap
\* on the way (_poll_data, every 3 seconds).
DisplayCatchesUp ==
    \A n \in Node, s \in {"offline", "online", "stale"} :
        <>[](status[n] = s) => <>[](mesh_nodes[n].status = s)
=============================================================================
