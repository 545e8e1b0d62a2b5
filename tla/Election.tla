------------------------------ MODULE Election ------------------------------
(***************************************************************************)
(* HubElection.elect over a shared nodes table (election.py, db.py): the   *)
(* SELECT of the online nodes with the election, the two UPDATEs of the    *)
(* transaction that moves the role, its commit, and the flag of the local  *)
(* node.  Each is a step.  Between the SELECT and the transaction anything *)
(* may happen to the table; within it SQLite's write lock keeps the other  *)
(* transactions out, and its readers see the table as it was.              *)
(***************************************************************************)
EXTENDS ElectHub, FiniteSets

CONSTANTS
    Node,       \* ids, as positive numbers
    Name,       \* the name of each node
    Specs,      \* the pairs [ram, storage] that nodes register with
    Task,       \* the coroutines that run elect
    NoTask,     \* no task
    LocalOf     \* the local node of each task's HubElection

ASSUME ElectionAssumption ==
    /\ Node \subseteq Nat \ {NoId}
    /\ IsFiniteSet(Node)
    /\ Name \in [Node -> Nat]
    /\ Specs \subseteq [ram : Nat, storage : Nat] /\ Specs # {}
    /\ LocalOf \in [Task -> Node]
    /\ NoTask \notin Task

VARIABLES
    online,     \* the nodes whose status is 'online'
    spec,       \* ram_total_mb and storage_total_gb of each node
    role,       \* its role
    is_hub,     \* NodeInfo.is_hub of each local node
    pc,         \* where each task is in elect
    winner,     \* its local variable winner_id
    lock,       \* the task whose transaction holds the write lock
    draft,      \* the roles as that transaction has written them
    elected     \* history: whether a transaction was committed

table == <<online, spec, role>>
txVars == <<lock, draft>>
vars == <<table, is_hub, pc, winner, txVars, elected>>

TypeOK ==
    /\ online \in SUBSET Node
    /\ spec \in [Node -> Specs]
    /\ role \in [Node -> {"agent", "hub"}]
    /\ is_hub \in [Node -> BOOLEAN]
    /\ pc \in [Task -> {"idle", "demote", "promote", "commit", "flag"}]
    /\ winner \in [Task -> Node \cup {NoId}]
    /\ \A t \in Task : pc[t] # "idle" => winner[t] \in Node
    /\ lock \in Task \cup {NoTask}
    /\ draft \in [Node -> {"agent", "hub"}]
    /\ elected \in BOOLEAN

Init ==
    /\ online = {}
    /\ spec \in [Node -> Specs]
    /\ role = [n \in Node |-> "agent"]
    /\ is_hub = [n \in Node |-> FALSE]
    /\ pc = [t \in Task |-> "idle"]
    /\ winner = [t \in Task |-> NoId]
    /\ lock = NoTask
    /\ draft = role
    /\ elected = FALSE

Cap(n) == Capability(spec[n].ram, spec[n].storage)

Candidate(n) == [id |-> n, name |-> Name[n], cap |-> Cap(n), hub |-> role[n] = "hub"]

\* all_nodes: the online nodes, in whatever order SQLite returns the rows.
Listings ==
    {s \in [1 .. Cardinality(online) -> {Candidate(n) : n \in online}] :
        \A i, j \in DOMAIN s : s[i] = s[j] => i = j}

-----------------------------------------------------------------------------
(* The registry *)

\* register_node, process_heartbeat or mark_stale_nodes; none touches the role.
Arrive(n) ==
    /\ n \notin online
    /\ online' = online \cup {n}
    /\ \E sp \in Specs : spec' = [spec EXCEPT ![n] = sp]
    /\ UNCHANGED <<role, is_hub, pc, winner, txVars, elected>>

Leave(n) ==
    /\ n \in online
    /\ online' = online \ {n}
    /\ UNCHANGED <<spec, role, is_hub, pc, winner, txVars, elected>>

-----------------------------------------------------------------------------
(* HubElection.elect *)

\* No row is online: the local node takes the role, the table keeps its own.
ElectAlone(t) ==
    /\ pc[t] = "idle" /\ online = {}
    /\ is_hub' = [is_hub EXCEPT ![LocalOf[t]] = TRUE]
    /\ UNCHANGED <<table, pc, winner, txVars, elected>>

\* HubElection.run: an election over a list that the caller has, in memory only.
Run(t) ==
    /\ pc[t] = "idle"
    /\ \E s \in Listings, w \in Node :
          /\ Wins(s, NoId, w)
          /\ is_hub' = [is_hub EXCEPT ![LocalOf[t]] = w = LocalOf[t]]
    /\ UNCHANGED <<table, pc, winner, txVars, elected>>

Select(t) ==
    /\ pc[t] = "idle"
    /\ \E s \in Listings, w \in Node :
          /\ Wins(s, NoId, w)
          /\ winner' = [winner EXCEPT ![t] = w]
    /\ pc' = [pc EXCEPT ![t] = "demote"]
    /\ UNCHANGED <<table, is_hub, txVars, elected>>

\* (mutant) Each UPDATE is committed by itself.
NotAtomic == FALSE

\* The two UPDATEs run in db.transaction().
Atomic == TRUE

\* What the UPDATEs of a task read, and where they write.
Roles == IF Atomic THEN draft ELSE role
Write(r) == draft' = r /\ role' = IF Atomic THEN role ELSE r

\* (mutant) The hub before is not demoted.
NoDemotion(r, w) == r

\* UPDATE nodes SET role = 'agent' WHERE role = 'hub' AND id != winner_id
Demoted(r, w) == [n \in Node |-> IF r[n] = "hub" /\ n # w THEN "agent" ELSE r[n]]

Demote(t) ==
    /\ pc[t] = "demote"
    /\ Atomic => lock = NoTask
    /\ lock' = t
    /\ Write(Demoted(role, winner[t]))
    /\ pc' = [pc EXCEPT ![t] = "promote"]
    /\ UNCHANGED <<online, spec, is_hub, winner, elected>>

Promote(t) ==
    /\ pc[t] = "promote"
    /\ Write([Roles EXCEPT ![winner[t]] = "hub"])
    /\ pc' = [pc EXCEPT ![t] = "commit"]
    /\ UNCHANGED <<online, spec, is_hub, winner, lock, elected>>

Commit(t) ==
    /\ pc[t] = "commit"
    /\ role' = Roles
    /\ lock' = NoTask
    /\ draft' = role'
    /\ elected' = TRUE
    /\ pc' = [pc EXCEPT ![t] = "flag"]
    /\ UNCHANGED <<online, spec, is_hub, winner>>

\* The lock was not to be had in time, a statement raised, or the process
\* ended: the transaction is rolled back and elect raises.
Abort(t) ==
    /\ pc[t] \in {"demote", "promote", "commit"}
    /\ lock' = IF lock = t THEN NoTask ELSE lock
    /\ draft' = IF lock = t THEN role ELSE draft
    /\ pc' = [pc EXCEPT ![t] = "idle"]
    /\ winner' = [winner EXCEPT ![t] = NoId]
    /\ UNCHANGED <<table, is_hub, elected>>

SetFlag(t) ==
    /\ pc[t] = "flag"
    /\ is_hub' = [is_hub EXCEPT ![LocalOf[t]] = winner[t] = LocalOf[t]]
    /\ pc' = [pc EXCEPT ![t] = "idle"]
    /\ winner' = [winner EXCEPT ![t] = NoId]
    /\ UNCHANGED <<table, txVars, elected>>

Next ==
    \/ \E n \in Node : Arrive(n) \/ Leave(n)
    \/ \E t \in Task : \/ ElectAlone(t)
                       \/ Run(t)
                       \/ Select(t)
                       \/ Demote(t)
                       \/ Promote(t)
                       \/ Commit(t)
                       \/ Abort(t)
                       \/ SetFlag(t)

Spec == Init /\ [][Next]_vars

-----------------------------------------------------------------------------
Hubs == {n \in Node : role[n] = "hub"}

\* The table never names two hubs, whichever elections overlap.
AtMostOneHub == \A m, n \in Hubs : m = n

\* Once a hub was elected there always is one, in the table at least.
HubOnceElected == elected => Hubs # {}

\* The table moves the role in one step, from none to one node, or from node to
\* node, whatever is written in transactions under way.
Table == INSTANCE HubRole WITH hubs <- Hubs
ImplementsHubRole == Table!Spec

\* What an election of the nodes online now would do: exactly one node wins,
\* whatever the order of the rows.  With no hub online it is the best, and with one
\* it is the hub or the best: the best if that exceeds the hub by more than 20%, the
\* hub if it does not, and at exactly 20% too where the product with 1.2 is not
\* rounded below it.  The hubs in Short are left to KeptAtMargin.
ElectionRule ==
    online # {} =>
        \E w, best \in online :
            /\ \A s \in Listings, v \in Node : Wins(s, NoId, v) <=> v = w
            /\ \A n \in online : Before(Candidate(best), Candidate(n))
            /\ Hubs \cap online = {} => w = best
            /\ \A h \in Hubs \cap online :
                  /\ w \in {h, best}
                  /\ 5 * Cap(best) > 6 * Cap(h) => w = best
                  /\ 5 * Cap(best) < 6 * Cap(h) => w = h
                  /\ 5 * Cap(best) = 6 * Cap(h) /\ Cap(h) \notin Short => w = h

(* What README.md and the tests say of the margin, and the code does not do *)

\* README.md:255: the hub keeps its role unless a challenger exceeds it "by more than
\* 20%".  tests/test_election.py:44: "At exactly the threshold boundary, current hub
\* keeps the role."
KeptAtMargin ==
    \A h \in Hubs \cap online, w \in online, s \in Listings :
        w # h /\ Wins(s, NoId, w) => 5 * Cap(w) > 6 * Cap(h)
=============================================================================
