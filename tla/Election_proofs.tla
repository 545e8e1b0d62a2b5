--------------------------- MODULE Election_proofs ---------------------------
(***************************************************************************)
(* Proofs about Election and ElectHub, for any number of nodes, elections  *)
(* and specs.                                                              *)
(***************************************************************************)
EXTENDS Election, FiniteSetTheorems, TLAPS

USE DEF NoId

-----------------------------------------------------------------------------
(* elect_hub *)

\* Every winner is a node of the list (election.py:17-75).
LEMMA WinnerIsMember ==
    ASSUME NEW s, NEW current, NEW w, Wins(s, current, w)
    PROVE  \E x \in Members(s) : x.id = w
BY DEF Wins, IsTop

\* The hub of the list loses the role only to a node that is better by the
\* margin, and the two are never the same node.
THEOREM HubYieldsOnlyToBetter ==
    ASSUME NEW s, NEW current, NEW w, Wins(s, current, w),
           NEW hub \in Members(s), hub.id = HubId(s, current), hub.id # w,
           \A x, y \in Members(s) : x.id = y.id => x = y
    PROVE  \E x \in Members(s) : x.id = w /\ Exceeds(x.cap, hub.cap)
<1>1. PICK top \in Members(s) :
        /\ IsTop(s, top)
        /\ \/ /\ \A x \in Members(s) : x.id # HubId(s, current) \/ x.id = top.id
              /\ w = top.id
           \/ \E h \in Members(s) :
                  /\ h.id = HubId(s, current) /\ h.id # top.id
                  /\ w = IF Exceeds(top.cap, h.cap) THEN top.id ELSE h.id
  BY DEF Wins
<1>2. PICK h \in Members(s) :
        /\ h.id = HubId(s, current) /\ h.id # top.id
        /\ w = IF Exceeds(top.cap, h.cap) THEN top.id ELSE h.id
  BY <1>1
<1>3. h = hub
  BY <1>2
<1>. QED
  BY <1>2, <1>3

\* The order of the sort key is antisymmetric, so the top node is unique.
LEMMA TopIsUnique ==
    ASSUME NEW s, NEW a, NEW b, IsTop(s, a), IsTop(s, b),
           \A x \in Members(s) : x.cap \in Int /\ x.name \in Int /\ x.id \in Int
    PROVE  a.id = b.id
<1>1. a \in Members(s) /\ b \in Members(s) /\ Before(a, b) /\ Before(b, a)
  BY DEF IsTop
<1>. QED
  BY <1>1 DEF Before

\* elect_hub has at most one result: the order of the rows plays no part in it
\* beyond the flag of the current hub.
LEMMA WinnerIsUnique ==
    ASSUME NEW s, NEW current, NEW v, NEW w,
           Wins(s, current, v), Wins(s, current, w),
           \A x \in Members(s) : x.cap \in Int /\ x.name \in Int /\ x.id \in Int,
           \A x, y \in Members(s) : x.id = y.id => x = y
    PROVE  v = w
<1>1. PICK a \in Members(s) :
        /\ IsTop(s, a)
        /\ \/ /\ \A x \in Members(s) : x.id # HubId(s, current) \/ x.id = a.id
              /\ v = a.id
           \/ \E h \in Members(s) :
                  /\ h.id = HubId(s, current) /\ h.id # a.id
                  /\ v = IF Exceeds(a.cap, h.cap) THEN a.id ELSE h.id
  BY DEF Wins
<1>2. PICK b \in Members(s) :
        /\ IsTop(s, b)
        /\ \/ /\ \A x \in Members(s) : x.id # HubId(s, current) \/ x.id = b.id
              /\ w = b.id
           \/ \E h \in Members(s) :
                  /\ h.id = HubId(s, current) /\ h.id # b.id
                  /\ w = IF Exceeds(b.cap, h.cap) THEN b.id ELSE h.id
  BY DEF Wins
<1>3. a = b
  BY <1>1, <1>2, TopIsUnique
<1>4. CASE \A x \in Members(s) : x.id # HubId(s, current) \/ x.id = a.id
  BY <1>1, <1>2, <1>3, <1>4
<1>5. CASE \E x \in Members(s) : x.id = HubId(s, current) /\ x.id # a.id
  <2>1. PICK h \in Members(s) :
          /\ h.id = HubId(s, current) /\ h.id # a.id
          /\ v = IF Exceeds(a.cap, h.cap) THEN a.id ELSE h.id
    BY <1>1, <1>5
  <2>2. PICK k \in Members(s) :
          /\ k.id = HubId(s, current) /\ k.id # b.id
          /\ w = IF Exceeds(b.cap, k.cap) THEN b.id ELSE k.id
    BY <1>2, <1>3, <1>5
  <2>3. h = k
    BY <2>1, <2>2
  <2>. QED
    BY <2>1, <2>2, <2>3, <1>3
<1>. QED
  BY <1>4, <1>5

\* A list of rows as SQLite may return it: no row twice, at most one hub.
Listing(s) ==
    /\ DOMAIN s \subseteq Int
    /\ \A i, j \in DOMAIN s : s[i] = s[j] => i = j
    /\ \A x, y \in Members(s) : (x.hub /\ y.hub) \/ x.id = y.id => x = y
    /\ \A x \in Members(s) : x.cap \in Int /\ x.name \in Int /\ x.id \in Int

LEMMA HubOfListing ==
    ASSUME NEW s, Listing(s), NEW x \in Members(s), x.hub
    PROVE  HubId(s, NoId) = x.id
<1>1. PICK i \in DOMAIN s : s[i] = x
  BY DEF Members
<1>2. \A j \in DOMAIN s : s[j].hub => j = i
  BY <1>1 DEF Listing, Members
<1>3. i <= i
  BY DEF Listing
<1>4. i = CHOOSE k \in DOMAIN s : s[k].hub /\ \A j \in DOMAIN s : s[j].hub => k <= j
  BY <1>1, <1>2, <1>3
<1>. QED
  BY <1>1, <1>4 DEF HubId

LEMMA NoHubOfListing ==
    ASSUME NEW s, \A x \in Members(s) : ~x.hub
    PROVE  HubId(s, NoId) = NoId
BY DEF HubId, Members

\* elect_hub gives the same winner for the same rows in any order: two nodes that
\* read the same table agree.
THEOREM OrderIsIrrelevant ==
    ASSUME NEW s, NEW u, Listing(s), Listing(u), Members(s) = Members(u),
           NEW v, NEW w, Wins(s, NoId, v), Wins(u, NoId, w)
    PROVE  v = w
<1>1. HubId(s, NoId) = HubId(u, NoId)
  <2>1. CASE \E x \in Members(s) : x.hub
    BY <2>1, HubOfListing
  <2>2. CASE \A x \in Members(s) : ~x.hub
    BY <2>2, NoHubOfListing
  <2>. QED
    BY <2>1, <2>2
<1>2. Wins(s, NoId, w)
  BY <1>1 DEF Wins, IsTop
<1>. QED
  BY <1>2, WinnerIsUnique DEF Listing

-----------------------------------------------------------------------------
(* elect *)

\* The types are invariant.
THEOREM TypeCorrect == Spec => []TypeOK
<1>. USE ElectionAssumption
<1>1. Init => TypeOK
  <2>. SUFFICES ASSUME Init PROVE TypeOK
    OBVIOUS
  <2>1. /\ online \in SUBSET Node /\ spec \in [Node -> Specs]
        /\ role \in [Node -> {"agent", "hub"}] /\ draft = role
        /\ lock \in Task \cup {NoTask}
    BY DEF Init
  <2>2. is_hub \in [Node -> BOOLEAN] /\ elected \in BOOLEAN
    BY DEF Init
  <2>3. /\ pc \in [Task -> {"idle", "demote", "promote", "commit", "flag"}]
        /\ winner \in [Task -> Node \cup {NoId}]
        /\ \A t \in Task : pc[t] = "idle"
    BY DEF Init
  <2>. QED
    BY <2>1, <2>2, <2>3 DEF TypeOK
<1>2. TypeOK /\ [Next]_vars => TypeOK'
  <2>. SUFFICES ASSUME TypeOK, [Next]_vars PROVE TypeOK'
    OBVIOUS
  <2>1. ASSUME NEW n \in Node, Arrive(n) PROVE TypeOK'
    BY <2>1 DEF TypeOK, Arrive, txVars
  <2>2. ASSUME NEW n \in Node, Leave(n) PROVE TypeOK'
    BY <2>2 DEF TypeOK, Leave, txVars
  <2>3. ASSUME NEW t \in Task, ElectAlone(t) PROVE TypeOK'
    BY <2>3 DEF TypeOK, ElectAlone, table, txVars
  <2>11. ASSUME NEW t \in Task, Run(t) PROVE TypeOK'
    BY <2>11 DEF TypeOK, Run, table, txVars
  <2>4. ASSUME NEW t \in Task, Select(t) PROVE TypeOK'
    BY <2>4 DEF TypeOK, Select, table, txVars
  <2>5. ASSUME NEW t \in Task, Demote(t) PROVE TypeOK'
    BY <2>5 DEF TypeOK, Demote, Write, Demoted, Atomic
  <2>6. ASSUME NEW t \in Task, Promote(t) PROVE TypeOK'
    BY <2>6 DEF TypeOK, Promote, Write, Roles, Atomic
  <2>7. ASSUME NEW t \in Task, Commit(t) PROVE TypeOK'
    BY <2>7 DEF TypeOK, Commit, Roles, Atomic
  <2>8. ASSUME NEW t \in Task, Abort(t) PROVE TypeOK'
    BY <2>8 DEF TypeOK, Abort, table
  <2>9. ASSUME NEW t \in Task, SetFlag(t) PROVE TypeOK'
    BY <2>9 DEF TypeOK, SetFlag, table, txVars
  <2>10. CASE UNCHANGED vars
    BY <2>10 DEF TypeOK, vars, table, txVars
  <2>. QED
    BY <2>1, <2>2, <2>3, <2>4, <2>5, <2>6, <2>7, <2>8, <2>9, <2>10, <2>11 DEF Next
<1>. QED
  BY <1>1, <1>2, PTL DEF Spec

InTransaction(t) == pc[t] \in {"promote", "commit"}

\* The strengthening of AtMostOneHub: the transaction under way holds the lock,
\* and its draft names its own winner or, until the second UPDATE, nobody.
TxInv ==
    /\ \A t \in Task : InTransaction(t) => lock = t
    /\ \A t \in Task : InTransaction(t) =>
          \A n \in Node : draft[n] = "hub" => n = winner[t]
    /\ \A t \in Task : pc[t] = "commit" => draft[winner[t]] = "hub"

HubInv == TxInv /\ AtMostOneHub /\ HubOnceElected

LEMMA HubInvInit == Init => HubInv
BY ElectionAssumption
   DEF Init, HubInv, TxInv, AtMostOneHub, HubOnceElected, Hubs, InTransaction

\* A step that leaves the roles, the transaction and the history alone, and puts
\* no task into a transaction, keeps HubInv.
LEMMA HubInvFrame ==
    ASSUME HubInv, UNCHANGED <<role, lock, draft, elected>>,
           \A t \in Task : InTransaction(t)' =>
               pc'[t] = pc[t] /\ winner'[t] = winner[t]
    PROVE  HubInv'
BY DEF HubInv, TxInv, AtMostOneHub, HubOnceElected, Hubs, InTransaction

LEMMA HubInvStep == TypeOK /\ HubInv /\ [Next]_vars => HubInv'
<1>. USE ElectionAssumption
<1>. SUFFICES ASSUME TypeOK, HubInv, [Next]_vars PROVE HubInv'
  OBVIOUS
<1>1. ASSUME NEW n \in Node, Arrive(n) \/ Leave(n) PROVE HubInv'
  BY <1>1, HubInvFrame DEF Arrive, Leave, txVars, InTransaction
<1>2. ASSUME NEW t \in Task, ElectAlone(t) \/ Run(t) \/ Select(t) \/ SetFlag(t) PROVE HubInv'
  BY <1>2, HubInvFrame
     DEF TypeOK, ElectAlone, Run, Select, SetFlag, table, txVars, InTransaction
<1>3. ASSUME NEW t \in Task, Demote(t) PROVE HubInv'
  <2>1. lock = NoTask /\ lock' = t /\ role' = role /\ elected' = elected
        /\ draft' = Demoted(role, winner[t]) /\ winner' = winner
        /\ pc' = [pc EXCEPT ![t] = "promote"]
    BY <1>3 DEF Demote, Write, Atomic
  <2>2. \A u \in Task : ~InTransaction(u)
    BY <2>1 DEF HubInv, TxInv
  <2>3. \A u \in Task : InTransaction(u)' => u = t
    BY <2>1, <2>2 DEF InTransaction, TypeOK
  <2>4. \A n \in Node : draft'[n] = "hub" => n = winner'[t]
    BY <2>1 DEF Demoted
  <2>5. pc'[t] = "promote"
    BY <2>1 DEF TypeOK
  <2>. QED
    BY <2>1, <2>3, <2>4, <2>5
       DEF HubInv, TxInv, AtMostOneHub, HubOnceElected, Hubs, InTransaction
<1>4. ASSUME NEW t \in Task, Promote(t) PROVE HubInv'
  <2>1. lock' = lock /\ role' = role /\ elected' = elected /\ winner' = winner
        /\ draft' = [draft EXCEPT ![winner[t]] = "hub"]
        /\ pc[t] = "promote" /\ pc' = [pc EXCEPT ![t] = "commit"]
    BY <1>4 DEF Promote, Write, Roles, Atomic
  <2>2. lock = t /\ \A u \in Task : InTransaction(u) => u = t
    BY <2>1 DEF HubInv, TxInv, InTransaction
  <2>3. \A u \in Task : InTransaction(u)' => u = t
    BY <2>1, <2>2 DEF InTransaction, TypeOK
  <2>4. \A n \in Node : draft'[n] = "hub" => n = winner'[t]
    BY <2>1 DEF HubInv, TxInv, TypeOK, InTransaction
  <2>5. draft'[winner'[t]] = "hub"
    BY <2>1 DEF TypeOK
  <2>. QED
    BY <2>1, <2>2, <2>3, <2>4, <2>5
       DEF HubInv, TxInv, AtMostOneHub, HubOnceElected, Hubs, InTransaction
<1>5. ASSUME NEW t \in Task, Commit(t) PROVE HubInv'
  <2>1. lock' = NoTask /\ role' = draft /\ winner' = winner
        /\ pc[t] = "commit" /\ pc' = [pc EXCEPT ![t] = "flag"]
    BY <1>5 DEF Commit, Roles, Atomic
  <2>2. lock = t /\ \A u \in Task : InTransaction(u) => u = t
    BY <2>1 DEF HubInv, TxInv, InTransaction
  <2>3. \A u \in Task : ~InTransaction(u)'
    BY <2>1, <2>2 DEF InTransaction, TypeOK
  <2>4. winner[t] \in Node /\ role'[winner[t]] = "hub"
        /\ \A n \in Node : role'[n] = "hub" => n = winner[t]
    BY <2>1 DEF HubInv, TxInv, TypeOK, InTransaction
  <2>. QED
    BY <2>1, <2>3, <2>4
       DEF HubInv, TxInv, AtMostOneHub, HubOnceElected, Hubs, InTransaction
<1>6. ASSUME NEW t \in Task, Abort(t) PROVE HubInv'
  <2>1. role' = role /\ elected' = elected /\ pc' = [pc EXCEPT ![t] = "idle"]
        /\ winner' = [winner EXCEPT ![t] = NoId]
    BY <1>6 DEF Abort, table
  <2>2. CASE lock = t
    <3>1. \A u \in Task : ~InTransaction(u)'
      BY <2>1, <2>2 DEF HubInv, TxInv, InTransaction, TypeOK
    <3>. QED
      BY <2>1, <3>1 DEF HubInv, TxInv, AtMostOneHub, HubOnceElected, Hubs, InTransaction
  <2>3. CASE lock # t
    <3>1. lock' = lock /\ draft' = draft
      BY <1>6, <2>3 DEF Abort
    <3>. QED
      BY <2>1, <3>1, HubInvFrame DEF TypeOK, InTransaction
  <2>. QED
    BY <2>2, <2>3
<1>7. CASE UNCHANGED vars
  BY <1>7, HubInvFrame DEF vars, table, txVars, InTransaction
<1>. QED
  BY <1>1, <1>2, <1>3, <1>4, <1>5, <1>6, <1>7 DEF Next

\* The role column never names two hubs, whichever elections overlap, fail or
\* are rolled back, and once a hub was elected it always names one
\* (election.py:168-176).
THEOREM OneHub == Spec => [](AtMostOneHub /\ HubOnceElected)
<1>1. HubInv => AtMostOneHub /\ HubOnceElected
  BY DEF HubInv
<1>. QED
  BY <1>1, HubInvInit, HubInvStep, TypeCorrect, PTL DEF Spec

-----------------------------------------------------------------------------
(* The abstract role *)

\* A step either leaves the roles alone, or commits a draft that names one node.
LEMMA OnlyCommitMovesTheRole ==
    ASSUME TypeOK, HubInv, [Next]_vars
    PROVE  role' = role \/ \E n \in Node : Hubs' = {n}
<1>1. ASSUME NEW n \in Node, Arrive(n) \/ Leave(n) PROVE role' = role
  BY <1>1 DEF Arrive, Leave
<1>2. ASSUME NEW t \in Task,
             ElectAlone(t) \/ Run(t) \/ Select(t) \/ Abort(t) \/ SetFlag(t)
      PROVE  role' = role
  BY <1>2 DEF ElectAlone, Run, Select, Abort, SetFlag, table
<1>3. ASSUME NEW t \in Task, Demote(t) \/ Promote(t) PROVE role' = role
  BY <1>3 DEF Demote, Promote, Write, Atomic
<1>4. ASSUME NEW t \in Task, Commit(t) PROVE \E n \in Node : Hubs' = {n}
  <2>1. pc[t] = "commit" /\ role' = draft
    BY <1>4 DEF Commit, Roles, Atomic
  <2>2. winner[t] \in Node /\ draft[winner[t]] = "hub"
        /\ \A n \in Node : draft[n] = "hub" => n = winner[t]
    BY <2>1 DEF HubInv, TxInv, TypeOK, InTransaction
  <2>3. Hubs' = {winner[t]}
    BY <2>1, <2>2 DEF Hubs
  <2>. QED
    BY <2>2, <2>3
<1>5. CASE UNCHANGED vars
  BY <1>5 DEF vars, table
<1>. QED
  BY <1>1, <1>2, <1>3, <1>4, <1>5 DEF Next

\* Election implements HubRole: for a reader of the table the role moves in one
\* step, however many elections write at the time (election.py:168-176).
THEOREM RoleMovesInOneStep == Spec => ImplementsHubRole
<1>1. Init => Table!Init
  BY DEF Init, Table!Init, Hubs
<1>2. TypeOK /\ HubInv /\ [Next]_vars => [Table!Next]_Hubs
  <2>. SUFFICES ASSUME TypeOK, HubInv, [Next]_vars PROVE [Table!Next]_Hubs
    OBVIOUS
  <2>1. CASE role' = role
    BY <2>1 DEF Hubs
  <2>2. CASE \E n \in Node : Hubs' = {n}
    BY <2>2 DEF Table!Next, Table!Elect
  <2>. QED
    BY <2>1, <2>2, OnlyCommitMovesTheRole
<1>. QED
  BY <1>1, <1>2, HubInvInit, HubInvStep, TypeCorrect, PTL
     DEF Spec, ImplementsHubRole, Table!Spec

-----------------------------------------------------------------------------
(* The rule of the election *)

LEMMA LeastOf ==
    ASSUME NEW T, T \subseteq Nat, T # {}
    PROVE  \E x \in T : \A y \in T : x <= y
<1>. DEFINE R == OpToRel(<, Nat)
<1>1. IsWellFoundedOn(R, Nat)
  BY NatLessThanWellFounded, Zenon
<1>2. \A y, x \in Nat : y < x => <<y, x>> \in R
  BY Zenon DEF OpToRel
<1>. HIDE DEF R
<1>3. PICK x \in T : \A y \in T : ~ (<<y, x>> \in R)
  BY <1>1, WFMin, Zenon
<1>4. \A y \in T : ~(y < x)
  BY <1>2, <1>3
<1>. QED
  BY <1>4

Highest == 6000

\* A capability is at most 60.00.
LEMMA CapabilityType ==
    ASSUME NEW ram \in Nat, NEW storage \in Nat
    PROVE  Capability(ram, storage) \in Nat /\ Capability(ram, storage) <= Highest
<1>. DEFINE num == 125 * Least(ram, 8192) + 1024 * Least(storage, 500)
<1>1. num \in Nat /\ num <= 1536000
  BY DEF Least
<1>. DEFINE q == num \div 256
            r == num % 256
<1>. HIDE DEF num
<1>2. q \in Nat /\ r \in 0 .. 255 /\ num = 256 * q + r
  BY <1>1, SMT
<1>3. Round(num, 256) = q \/ (Round(num, 256) = q + 1 /\ 2 * r >= 256)
  BY <1>2, SMT DEF Round
<1>. HIDE DEF q, r
<1>4. q <= 6000 /\ (q = 6000 => r = 0)
  BY <1>1, <1>2, SMT
<1>5. Round(num, 256) \in Nat /\ Round(num, 256) <= 6000
  <2>1. CASE Round(num, 256) = q
    BY <1>2, <1>4, <2>1, SMT
  <2>2. CASE Round(num, 256) = q + 1 /\ 2 * r >= 256
    <3>1. q # 6000
      BY <1>2, <1>4, <2>2, SMT
    <3>. QED
      BY <1>2, <1>4, <2>2, <3>1, SMT
  <2>. QED
    BY <1>3, <2>1, <2>2
<1>. QED
  BY <1>5, SMT DEF Capability, num, Highest

LEMMA CapType == TypeOK => \A n \in Node : Cap(n) \in Nat /\ Cap(n) <= Highest
<1>. SUFFICES ASSUME TypeOK, NEW n \in Node PROVE Cap(n) \in Nat /\ Cap(n) <= Highest
  OBVIOUS
<1>1. spec[n].ram \in Nat /\ spec[n].storage \in Nat
  BY ElectionAssumption DEF TypeOK
<1>. QED
  BY <1>1, CapabilityType, Zenon DEF Cap

\* The online nodes have a first one in the order of the sort key.
LEMMA TopExists ==
    ASSUME TypeOK, online # {}
    PROVE  \E t \in online : \A n \in online : Before(Candidate(t), Candidate(n))
<1>. USE ElectionAssumption
<1>0. /\ online \subseteq Node
      /\ \A n \in online : Cap(n) \in Nat /\ Cap(n) <= Highest /\ Name[n] \in Nat /\ n \in Nat
  BY CapType DEF TypeOK
<1>. DEFINE Below(n) == Highest - Cap(n)
<1>01. \A n \in online : Below(n) \in Nat
  BY <1>0 DEF Highest
<1>. HIDE DEF Below
<1>1. PICK a \in online : \A n \in online : Cap(a) >= Cap(n)
  <2>. DEFINE T == {Below(n) : n \in online}
  <2>1. T \subseteq Nat /\ T # {}
    BY <1>01
  <2>. HIDE DEF T
  <2>2. PICK x \in T : \A y \in T : x <= y
    BY <2>1, LeastOf
  <2>. USE DEF T
  <2>3. PICK a \in online : x = Below(a)
    BY <2>2
  <2>4. \A n \in online : Below(a) <= Below(n)
    BY <2>2, <2>3
  <2>. QED
    BY <1>0, <2>4 DEF Below, Highest
<1>2. PICK b \in online : /\ Cap(b) = Cap(a)
                          /\ \A n \in online : Cap(n) = Cap(a) => Name[b] <= Name[n]
  <2>. DEFINE T == {Name[n] : n \in {m \in online : Cap(m) = Cap(a)}}
  <2>1. T \subseteq Nat /\ T # {}
    BY <1>0
  <2>. HIDE DEF T
  <2>2. PICK x \in T : \A y \in T : x <= y
    BY <2>1, LeastOf
  <2>. USE DEF T
  <2>. QED
    BY <2>2
<1>3. PICK c \in online : /\ Cap(c) = Cap(a) /\ Name[c] = Name[b]
                          /\ \A n \in online : Cap(n) = Cap(a) /\ Name[n] = Name[b] => c <= n
  <2>. DEFINE T == {n \in online : Cap(n) = Cap(a) /\ Name[n] = Name[b]}
  <2>1. T \subseteq Nat /\ T # {}
    BY <1>0, <1>2, Zenon
  <2>. HIDE DEF T
  <2>2. PICK x \in T : \A y \in T : x <= y
    BY <2>1, LeastOf
  <2>. USE DEF T
  <2>. QED
    BY <2>2
<1>4. ASSUME NEW n \in online PROVE Before(Candidate(c), Candidate(n))
  <2>1. /\ Cap(a) >= Cap(n)
        /\ Cap(n) = Cap(a) => Name[b] <= Name[n]
        /\ Cap(n) = Cap(a) /\ Name[n] = Name[b] => c <= n
        /\ Cap(c) = Cap(a) /\ Name[c] = Name[b]
    BY <1>1, <1>2, <1>3
  <2>2. /\ Cap(a) \in Nat /\ Cap(n) \in Nat /\ Name[b] \in Nat /\ Name[n] \in Nat
    BY <1>0
  <2>3. Cap(c) > Cap(n) \/ (Cap(c) = Cap(n) /\ (Name[c] < Name[n] \/ (Name[c] = Name[n] /\ c <= n)))
    BY <2>1, <2>2
  <2>. QED
    BY <2>3 DEF Before, Candidate
<1>. QED
  BY <1>4

\* A list of as many different rows as there are nodes online lists all of them.
LEMMA ListingIsComplete ==
    ASSUME TypeOK, AtMostOneHub, NEW s \in Listings
    PROVE  Listing(s) /\ Members(s) = {Candidate(n) : n \in online}
<1>. USE ElectionAssumption
<1>. DEFINE C == {Candidate(n) : n \in online}
            N == Cardinality(online)
<1>1. IsFiniteSet(online) /\ N \in Nat
  BY FS_Subset, FS_CardinalityType DEF TypeOK
<1>2. IsFiniteSet(C) /\ Cardinality(C) = N
  <2>. DEFINE f == [n \in online |-> Candidate(n)]
  <2>1. f \in Bijection(online, C)
    <3>1. f \in [online -> C]
      OBVIOUS
    <3>2. \A m, n \in online : f[m] = f[n] => m = n
      BY DEF Candidate
    <3>3. \A c \in C : \E n \in online : f[n] = c
      OBVIOUS
    <3>. QED
      BY <3>1, <3>2, <3>3 DEF Bijection, Injection, Surjection, IsInjective
  <2>2. ExistsBijection(online, C)
    BY <2>1 DEF ExistsBijection
  <2>. QED
    BY <1>1, <2>2, FS_Bijection
<1>3. IsFiniteSet(1 .. N) /\ Cardinality(1 .. N) = N
  BY <1>1, FS_Interval
<1>4. s \in [1 .. N -> C] /\ \A i, j \in 1 .. N : s[i] = s[j] => i = j
  BY DEF Listings
<1>5. s \in Injection(1 .. N, C)
  BY <1>4 DEF Injection, IsInjective
<1>. HIDE DEF C, N
<1>6. s \in Surjection(1 .. N, C)
  BY <1>2, <1>3, <1>5, FS_Injection
<1>7. Members(s) = C
  BY <1>4, <1>6 DEF Members, Surjection
<1>8. Listing(s)
  <2>1. \A n \in online : /\ n \in Node /\ Cap(n) \in Int /\ Name[n] \in Int /\ n \in Int
                          /\ role[n] = "hub" => n \in Hubs
    BY CapType DEF TypeOK, Hubs
  <2>2. \A x \in C : /\ x.cap \in Int /\ x.name \in Int /\ x.id \in Int
                     /\ x.id \in online /\ x = Candidate(x.id) /\ x.hub = (role[x.id] = "hub")
    BY <2>1 DEF C, Candidate
  <2>3. \A x, y \in C : (x.hub /\ y.hub) \/ x.id = y.id => x = y
    <3>. SUFFICES ASSUME NEW x \in C, NEW y \in C, (x.hub /\ y.hub) \/ x.id = y.id PROVE x.id = y.id
      BY <2>2
    <3>1. x.hub /\ y.hub => x.id \in Hubs /\ y.id \in Hubs
      BY <2>1, <2>2
    <3>. QED
      BY <3>1 DEF AtMostOneHub
  <2>. QED
    BY <1>1, <1>4, <1>7, <2>2, <2>3 DEF Listing
<1>. QED
  BY <1>7, <1>8 DEF C

\* What elect_hub returns for the nodes online: the first of them or, if a hub is
\* online that the first one does not exceed by the margin, that hub.
IsChosen(w) ==
    \E t \in online :
        /\ \A n \in online : Before(Candidate(t), Candidate(n))
        /\ \/ (\A h \in Hubs \cap online : h = t \/ Exceeds(Cap(t), Cap(h))) /\ w = t
           \/ w \in Hubs \cap online /\ w # t /\ ~Exceeds(Cap(t), Cap(w))

LEMMA WinsIffChosen ==
    ASSUME TypeOK, AtMostOneHub, NEW s \in Listings, NEW w
    PROVE  Wins(s, NoId, w) <=> IsChosen(w)
<1>. DEFINE C == {Candidate(n) : n \in online}
<1>1. Listing(s) /\ Members(s) = C
  BY ListingIsComplete
<1>2. \A n \in online : /\ Candidate(n) \in C /\ Candidate(n).id = n /\ Candidate(n).cap = Cap(n)
                        /\ Candidate(n).hub <=> n \in Hubs
                        /\ n # NoId
  BY ElectionAssumption DEF Candidate, Hubs, TypeOK
<1>3. \A x \in C : x.id \in online /\ x = Candidate(x.id)
  BY DEF Candidate
<1>4. \A t : IsTop(s, t) <=> t \in C /\ \A n \in online : Before(t, Candidate(n))
  BY <1>1, <1>2, <1>3 DEF IsTop
<1>. HIDE DEF C
<1>5. CASE Hubs \cap online = {}
  <2>1. \A x \in C : ~x.hub
    BY <1>2, <1>3, <1>5
  <2>2. \A x \in C : x.id # HubId(s, NoId)
    BY <1>1, <1>2, <1>3, <2>1, NoHubOfListing
  <2>. QED
    BY <1>1, <1>2, <1>3, <1>4, <1>5, <2>2 DEF Wins, IsChosen
<1>6. ASSUME NEW h \in Hubs \cap online PROVE Wins(s, NoId, w) <=> IsChosen(w)
  <2>1. HubId(s, NoId) = h
    BY <1>1, <1>2, HubOfListing
  <2>2. \A k \in Hubs \cap online : k = h
    BY <1>6 DEF AtMostOneHub
  <2>3. ASSUME NEW t \in online
        PROVE  (\/ /\ \A x \in C : x.id # h \/ x.id = t
                  /\ w = t
                \/ \E x \in C : /\ x.id = h /\ h # t
                                 /\ w = IF Exceeds(Cap(t), x.cap) THEN t ELSE h)
               <=> (\/ (h = t \/ Exceeds(Cap(t), Cap(h))) /\ w = t
                    \/ w = h /\ w # t /\ ~Exceeds(Cap(t), Cap(h)))
    BY <1>2, <1>3
  <2>4. Wins(s, NoId, w) <=>
          \E t \in online :
              /\ \A n \in online : Before(Candidate(t), Candidate(n))
              /\ \/ /\ \A x \in C : x.id # h \/ x.id = t
                    /\ w = t
                 \/ \E x \in C : /\ x.id = h /\ h # t
                                  /\ w = IF Exceeds(Cap(t), x.cap) THEN t ELSE h
    BY <1>1, <1>2, <1>3, <1>4, <2>1 DEF Wins
  <2>. QED
    BY <2>2, <2>3, <2>4 DEF IsChosen
<1>. QED
  BY <1>5, <1>6

LEMMA ChosenExists == TypeOK /\ AtMostOneHub /\ online # {} => \E w \in online : IsChosen(w)
<1>. SUFFICES ASSUME TypeOK, AtMostOneHub, online # {} PROVE \E w \in online : IsChosen(w)
  OBVIOUS
<1>1. PICK t \in online : \A n \in online : Before(Candidate(t), Candidate(n))
  BY TopExists
<1>2. CASE \A h \in Hubs \cap online : h = t \/ Exceeds(Cap(t), Cap(h))
  BY <1>1, <1>2 DEF IsChosen
<1>3. ASSUME NEW h \in Hubs \cap online, h # t, ~Exceeds(Cap(t), Cap(h)) PROVE IsChosen(h)
  BY <1>1, <1>3 DEF IsChosen
<1>. QED
  BY <1>2, <1>3

\* What ElectionRule says of the winner and the best of the nodes online.
Follows(w, best) ==
    /\ \A n \in online : Before(Candidate(best), Candidate(n))
    /\ Hubs \cap online = {} => w = best
    /\ \A h \in Hubs \cap online :
          /\ w \in {h, best}
          /\ 5 * Cap(best) > 6 * Cap(h) => w = best
          /\ 5 * Cap(best) < 6 * Cap(h) => w = h
          /\ 5 * Cap(best) = 6 * Cap(h) /\ Cap(h) \notin Short => w = h

\* What the choice is worth.
LEMMA ChosenIsRight ==
    ASSUME TypeOK, AtMostOneHub, NEW w \in online, IsChosen(w)
    PROVE  /\ \A v : IsChosen(v) => v = w
           /\ \E best \in online : Follows(w, best)
<1>0. \A n \in online : Cap(n) \in Nat /\ n \in Node /\ n \in Nat /\ Name[n] \in Nat
  BY CapType, ElectionAssumption DEF TypeOK
<1>1. PICK t \in online :
        /\ \A n \in online : Before(Candidate(t), Candidate(n))
        /\ \/ (\A h \in Hubs \cap online : h = t \/ Exceeds(Cap(t), Cap(h))) /\ w = t
           \/ w \in Hubs \cap online /\ w # t /\ ~Exceeds(Cap(t), Cap(w))
  BY DEF IsChosen
<1>3. ASSUME NEW v, IsChosen(v) PROVE v = w
  <2>1. PICK u \in online :
          /\ \A n \in online : Before(Candidate(u), Candidate(n))
          /\ \/ (\A h \in Hubs \cap online : h = u \/ Exceeds(Cap(u), Cap(h))) /\ v = u
             \/ v \in Hubs \cap online /\ v # u /\ ~Exceeds(Cap(u), Cap(v))
    BY <1>3 DEF IsChosen
  <2>2. u = t
    <3>1. Before(Candidate(u), Candidate(t)) /\ Before(Candidate(t), Candidate(u))
      BY <1>1, <2>1
    <3>. QED
      BY <1>0, <3>1 DEF Before, Candidate
  <2>. QED
    BY <1>1, <2>1, <2>2 DEF AtMostOneHub
<1>4. ASSUME NEW h \in Hubs \cap online
      PROVE  /\ w \in {h, t}
             /\ 5 * Cap(t) > 6 * Cap(h) => w = t
             /\ 5 * Cap(t) < 6 * Cap(h) => w = h
             /\ 5 * Cap(t) = 6 * Cap(h) /\ Cap(h) \notin Short => w = h
  <2>1. \/ w = t /\ (h = t \/ Exceeds(Cap(t), Cap(h)))
        \/ w = h /\ ~Exceeds(Cap(t), Cap(h))
    BY <1>1, <1>4 DEF AtMostOneHub
  <2>. QED
    BY <1>0, <2>1 DEF Exceeds
<1>5. Hubs \cap online = {} => w = t
  BY <1>1
<1>6. Follows(w, t)
  BY <1>1, <1>4, <1>5 DEF Follows
<1>. QED
  BY <1>3, <1>6

\* On every table that can be reached an election has exactly one result, whatever
\* the order of the rows: the best node online or the hub, and which of the two by the
\* margin, but for a hub that Short names (elect_hub).
THEOREM RuleHolds == Spec => []ElectionRule
<1>1. TypeOK /\ AtMostOneHub => ElectionRule
  <2>. SUFFICES ASSUME TypeOK, AtMostOneHub, online # {}
                PROVE  \E w, best \in online :
                          /\ \A s \in Listings, v \in Node : Wins(s, NoId, v) <=> v = w
                          /\ Follows(w, best)
    BY DEF ElectionRule, Follows
  <2>1. PICK w \in online : IsChosen(w)
    BY ChosenExists
  <2>2. \A s \in Listings, v \in Node : Wins(s, NoId, v) <=> v = w
    BY <2>1, WinsIffChosen, ChosenIsRight
  <2>. QED
    BY <2>1, <2>2, ChosenIsRight
<1>. QED
  BY <1>1, OneHub, TypeCorrect, PTL
=============================================================================
