--------------------------- MODULE Dashboard_proofs ---------------------------
(***************************************************************************)
(* Theorems about Dashboard, for any set of nodes and any number of alerts *)
(* kept: the types, what the last alert about a node says, and when an     *)
(* alert about its RAM is due.                                             *)
(***************************************************************************)
EXTENDS Dashboard, FiniteSetTheorems, TLAPS

NodeList == [Node -> Entry]

-----------------------------------------------------------------------------
(* The lists in use *)

\* Place numbers the lists in use in their order, without gaps.
LEMMA Places ==
    ASSUME NEW m \in Nat, NEW U, \A r \in U : r \in 1 .. m
    PROVE  /\ IsFiniteSet(U) /\ Cardinality(U) \in Nat
           /\ \A r \in U : Place(U, r) \in 1 .. Cardinality(U)
           /\ \A r, s \in U : Place(U, r) = Place(U, s) => r = s
           /\ \A i \in 1 .. Cardinality(U) : \E r \in U : Place(U, r) = i
           /\ m \in U => Place(U, m) = Cardinality(U)
           /\ Place(U, None) = None
<1>1. IsFiniteSet(U) /\ Cardinality(U) \in Nat
  <2>1. IsFiniteSet(1 .. m) /\ U \in SUBSET (1 .. m)
    BY FS_Interval
  <2>. QED
    BY <2>1, FS_Subset, FS_CardinalityType
<1>2. ASSUME NEW r \in U PROVE Place(U, r) \in 1 .. Cardinality(U)
  <2>. DEFINE B == {s \in U : s <= r}
  <2>1. B \in SUBSET U /\ r \in B
    OBVIOUS
  <2>2. IsFiniteSet(B) /\ Cardinality(B) <= Cardinality(U)
    BY <1>1, <2>1, FS_Subset
  <2>3. Cardinality(B) \in Nat /\ Cardinality(B) # 0
    BY <2>1, <2>2, FS_CardinalityType, FS_EmptySet
  <2>. QED
    BY <1>1, <2>2, <2>3 DEF Place
<1>3. ASSUME NEW r \in U, NEW s \in U, r < s PROVE Place(U, r) # Place(U, s)
  <2>. DEFINE A == {x \in U : x <= r}
              B == {x \in U : x <= s}
  <2>1. B \in SUBSET U /\ A \in SUBSET B /\ s \in B /\ s \notin A
    BY <1>3
  <2>2. IsFiniteSet(B)
    BY <1>1, <2>1, FS_Subset
  <2>3. Cardinality(B) = Cardinality(A) => B = A
    BY <2>1, <2>2, FS_Subset
  <2>. QED
    BY <2>1, <2>3 DEF Place
<1>4. ASSUME NEW r \in U, NEW s \in U, Place(U, r) = Place(U, s) PROVE r = s
  BY <1>3, <1>4
<1>5. \A i \in 1 .. Cardinality(U) : \E r \in U : Place(U, r) = i
  <2>. DEFINE T == 1 .. Cardinality(U)
              f == [r \in U |-> Place(U, r)]
  <2>1. IsFiniteSet(T) /\ Cardinality(T) = Cardinality(U)
    BY <1>1, FS_Interval
  <2>2. f \in Injection(U, T)
    BY <1>2, <1>4 DEF Injection, IsInjective
  <2>3. f \in Surjection(U, T)
    BY <2>1, <2>2, FS_Injection
  <2>. QED
    BY <2>3 DEF Surjection
<1>6. m \in U => Place(U, m) = Cardinality(U)
  <2>1. {s \in U : s <= m} = U
    OBVIOUS
  <2>. QED
    BY <2>1 DEF Place
<1>7. Place(U, None) = None
  <2>1. {s \in U : s <= None} = {}
    BY DEF None
  <2>. QED
    BY <2>1, FS_EmptySet DEF Place, None
<1>. QED
  BY <1>1, <1>2, <1>4, <1>5, <1>6, <1>7

LEMMA OneMore ==
    ASSUME NEW S, NEW x, NEW k \in Nat, IsFiniteSet(S), Cardinality(S) <= k
    PROVE  IsFiniteSet(S \cup {x}) /\ Cardinality(S \cup {x}) <= k + 1
<1>1. Cardinality(S) \in Nat
  BY FS_CardinalityType
<1>2. Cardinality(S \cup {x}) = IF x \in S THEN Cardinality(S) ELSE Cardinality(S) + 1
  BY FS_AddElement
<1>3. Cardinality(S \cup {x}) <= k + 1
  BY <1>1, <1>2
<1>. QED
  BY <1>3, FS_AddElement

LEMMA FiveAtMost ==
    ASSUME NEW a, NEW b, NEW c, NEW d, NEW e, NEW U \in SUBSET {a, b, c, d, e}
    PROVE  IsFiniteSet(U) /\ Cardinality(U) <= 5
<1>. DEFINE S1 == {a}
            S2 == S1 \cup {b}
            S3 == S2 \cup {c}
            S4 == S3 \cup {d}
            S5 == S4 \cup {e}
<1>0. 1 \in Nat /\ 1 + 1 \in Nat /\ 1 + 1 + 1 \in Nat /\ 1 + 1 + 1 + 1 \in Nat
  OBVIOUS
<1>1. IsFiniteSet(S1) /\ Cardinality(S1) <= 1
  <2>1. IsFiniteSet(S1) /\ Cardinality(S1) = 1
    BY FS_Singleton
  <2>. QED
    BY <2>1
<1>. HIDE DEF S1
<1>2. IsFiniteSet(S2) /\ Cardinality(S2) <= 1 + 1
  BY <1>0, <1>1, OneMore, Zenon
<1>. HIDE DEF S2
<1>3. IsFiniteSet(S3) /\ Cardinality(S3) <= 1 + 1 + 1
  BY <1>0, <1>2, OneMore, Zenon
<1>. HIDE DEF S3
<1>4. IsFiniteSet(S4) /\ Cardinality(S4) <= 1 + 1 + 1 + 1
  BY <1>0, <1>3, OneMore, Zenon
<1>. HIDE DEF S4
<1>5. IsFiniteSet(S5) /\ Cardinality(S5) <= 1 + 1 + 1 + 1 + 1
  BY <1>0, <1>4, OneMore, Zenon
<1>6. U \in SUBSET S5
  BY DEF S1, S2, S3, S4
<1>. HIDE DEF S5
<1>7. IsFiniteSet(U) /\ Cardinality(U) <= Cardinality(S5)
  BY <1>5, <1>6, FS_Subset
<1>8. Cardinality(U) \in Nat /\ Cardinality(S5) \in Nat
  BY <1>5, <1>7, FS_CardinalityType
<1>. QED
  BY <1>5, <1>7, <1>8

LEMMA FunctionIsSeq ==
    ASSUME NEW S, NEW n \in Nat, NEW f \in [1 .. n -> S]
    PROVE  f \in Seq(S) /\ Len(f) = n
OBVIOUS

\* What the polls refer to, of m lists, at each place of _poll_data.
RefsAreRight(polls, m) ==
    \A p \in Poller :
        /\ polls[p].old_nodes \in IF polls[p].pc = "idle" THEN {None} ELSE 1 .. m
        /\ polls[p].list \in IF polls[p].pc = "heartbeats" THEN 1 .. m ELSE {None}
        /\ polls[p].todo = {} <=> polls[p].pc # "heartbeats"
        /\ polls[p].reply # Waiting => polls[p].pc = "nodes"

TypeInv == TypeOK /\ RefsAreRight(poll, Len(lists))

\* s refers to the list among those kept that r refers to in h.
Moved(h, r, s) ==
    IF r = None THEN s = None
    ELSE /\ s \in 1 .. Len(lists') /\ lists'[s] = h[r]
         /\ r = Len(h) => s = Len(lists')

\* Set keeps every list that is referred to, the latest one as the latest.
LEMMA SetEffect ==
    ASSUME NEW h \in Seq(NodeList), h # <<>>, NEW polls \in [Poller -> PollState],
           RefsAreRight(polls, Len(h)), Set(h, polls)
    PROVE  /\ lists' \in Seq(NodeList) /\ Len(lists') \in Ref
           /\ Last(lists') = Last(h)
           /\ poll' \in [Poller -> PollState] /\ RefsAreRight(poll', Len(lists'))
           /\ \A p \in Poller :
                 /\ poll'[p].pc = polls[p].pc /\ poll'[p].todo = polls[p].todo
                 /\ poll'[p].reply = polls[p].reply
                 /\ Moved(h, polls[p].old_nodes, poll'[p].old_nodes)
                 /\ Moved(h, polls[p].list, poll'[p].list)
<1>. DEFINE U == Used(h, polls)
            N == Cardinality(U)
<1>0. Len(h) \in Nat \ {0} /\ Poller = {"timer", "pump"}
  BY DEF Poller
<1>. \A p \in Poller : polls[p].old_nodes \in 0 .. Len(h) /\ polls[p].list \in 0 .. Len(h)
  BY <1>0 DEF RefsAreRight, None
<1>1. U = {Len(h), polls["timer"].old_nodes, polls["pump"].old_nodes,
           polls["timer"].list, polls["pump"].list} \ {None}
  BY <1>0 DEF Used
<1>2. \A r \in U : r \in 1 .. Len(h)
  BY <1>0, <1>1 DEF None
<1>. HIDE DEF U
<1>3. /\ IsFiniteSet(U) /\ N \in Nat
      /\ \A r \in U : Place(U, r) \in 1 .. N
      /\ \A r, s \in U : Place(U, r) = Place(U, s) => r = s
      /\ \A i \in 1 .. N : \E r \in U : Place(U, r) = i
      /\ Len(h) \in U => Place(U, Len(h)) = N
      /\ Place(U, None) = None
  BY <1>0, <1>2, Places
<1>4. Len(h) \in U
  BY <1>0, <1>1 DEF None
<1>5. N \in Ref
  <2>1. N <= 5
    <3>. DEFINE top == Len(h)
                old1 == polls["timer"].old_nodes
                old2 == polls["pump"].old_nodes
                list1 == polls["timer"].list
                list2 == polls["pump"].list
    <3>1. U \in SUBSET {top, old1, old2, list1, list2}
      BY <1>1
    <3>. HIDE DEF top, old1, old2, list1, list2
    <3>2. Cardinality(U) <= 5
      BY <3>1, FiveAtMost
    <3>. QED
      BY <3>2
  <2>2. N \in 1 .. N
    BY <1>3, <1>4
  <2>. QED
    BY <1>3, <2>1, <2>2 DEF Ref
<1>6. /\ lists' = [i \in 1 .. N |-> h[CHOOSE r \in U : Place(U, r) = i]]
      /\ poll' = [p \in Poller |->
                    [polls[p] EXCEPT !.old_nodes = Place(U, @), !.list = Place(U, @)]]
  BY DEF Set, U
<1>7. \A r \in U : lists'[Place(U, r)] = h[r]
  <2>. SUFFICES ASSUME NEW r \in U PROVE lists'[Place(U, r)] = h[r]
    OBVIOUS
  <2>1. (CHOOSE s \in U : Place(U, s) = Place(U, r)) = r
    BY <1>3
  <2>. QED
    BY <1>3, <1>6, <2>1
<1>8. lists' \in Seq(NodeList) /\ Len(lists') = N
  <2>1. \A i \in 1 .. N : h[CHOOSE r \in U : Place(U, r) = i] \in NodeList
    BY <1>2, <1>3
  <2>2. lists' \in [1 .. N -> NodeList]
    BY <1>6, <2>1
  <2>. QED
    BY <1>3, <2>2, FunctionIsSeq
<1>9. Last(lists') = Last(h)
  BY <1>3, <1>4, <1>7, <1>8 DEF Last
<1>10. ASSUME NEW r \in 0 .. Len(h), r = None \/ r \in U
       PROVE  Moved(h, r, Place(U, r)) /\ Place(U, r) \in Ref \cup {None}
  BY <1>3, <1>5, <1>7, <1>8, <1>10 DEF Moved, Ref
<1>11. ASSUME NEW p \in Poller
       PROVE  /\ poll'[p] \in PollState
              /\ poll'[p].pc = polls[p].pc /\ poll'[p].todo = polls[p].todo
              /\ poll'[p].reply = polls[p].reply
              /\ Moved(h, polls[p].old_nodes, poll'[p].old_nodes)
              /\ Moved(h, polls[p].list, poll'[p].list)
  <2>1. /\ polls[p].old_nodes = None \/ polls[p].old_nodes \in U
        /\ polls[p].list = None \/ polls[p].list \in U
    BY DEF Used, U
  <2>2. polls[p] \in PollState
    OBVIOUS
  <2>3. poll'[p] = [polls[p] EXCEPT !.old_nodes = Place(U, @), !.list = Place(U, @)]
    BY <1>6
  <2>4. /\ poll'[p].old_nodes = Place(U, polls[p].old_nodes)
        /\ poll'[p].list = Place(U, polls[p].list)
        /\ poll'[p].pc = polls[p].pc /\ poll'[p].todo = polls[p].todo
        /\ poll'[p].reply = polls[p].reply
    BY <2>2, <2>3 DEF PollState
  <2>5. /\ Moved(h, polls[p].old_nodes, poll'[p].old_nodes)
        /\ Moved(h, polls[p].list, poll'[p].list)
        /\ poll'[p].old_nodes \in Ref \cup {None} /\ poll'[p].list \in Ref \cup {None}
    BY <1>10, <2>1, <2>4
  <2>. QED
    BY <2>2, <2>3, <2>4, <2>5 DEF PollState
<1>12. poll' \in [Poller -> PollState]
  BY <1>6, <1>11
<1>13. RefsAreRight(poll', Len(lists'))
  BY <1>8, <1>11 DEF RefsAreRight, Moved, None
<1>. QED
  BY <1>5, <1>8, <1>9, <1>11, <1>12, <1>13

-----------------------------------------------------------------------------
(* The alerts *)

LEMMA NewestEffect ==
    ASSUME NEW s \in Seq(Alert)
    PROVE  /\ Newest(s) \in Seq(Alert)
           /\ Len(Newest(s)) <= MaxAlerts
           /\ Len(Newest(s)) <= Len(s)
           /\ \A i \in 1 .. Len(Newest(s)) : Newest(s)[i] = s[i + (Len(s) - Len(Newest(s)))]
<1>. DEFINE m == IF Len(s) > MaxAlerts THEN Len(s) - MaxAlerts + 1 ELSE 1
<1>1. m \in 1 .. Len(s) + 1
  BY DashboardAssumption
<1>2. Newest(s) = SubSeq(s, m, Len(s))
  BY DEF Newest
<1>3. Len(s) - m + 1 <= MaxAlerts
  BY DashboardAssumption
<1>. HIDE DEF m
<1>4. /\ SubSeq(s, m, Len(s)) \in Seq(Alert)
      /\ Len(SubSeq(s, m, Len(s))) = Len(s) - m + 1
      /\ \A i \in 1 .. Len(s) - m + 1 : SubSeq(s, m, Len(s))[i] = s[m + i - 1]
  BY <1>1
<1>. QED
  BY <1>1, <1>2, <1>3, <1>4, DashboardAssumption

\* What is kept of the alerts and of those found is a tail of the two.
LEMMA KeptAlerts ==
    ASSUME alerts \in Seq(Alert), NEW found \in Seq(Alert),
           alerts' = Newest(alerts \o found)
    PROVE  /\ alerts' \in Seq(Alert) /\ Len(alerts') <= MaxAlerts
           /\ \E k \in Nat :
                 /\ Len(alerts') = Len(alerts) + Len(found) - k
                 /\ \A i \in 1 .. Len(alerts') :
                       alerts'[i] = IF i + k <= Len(alerts) THEN alerts[i + k]
                                    ELSE found[i + k - Len(alerts)]
<1>. DEFINE s == alerts \o found
            k == Len(s) - Len(Newest(s))
<1>1. /\ s \in Seq(Alert) /\ Len(s) = Len(alerts) + Len(found)
      /\ \A i \in 1 .. Len(s) :
            s[i] = IF i <= Len(alerts) THEN alerts[i] ELSE found[i - Len(alerts)]
  OBVIOUS
<1>. HIDE DEF s
<1>2. /\ Newest(s) \in Seq(Alert) /\ Len(Newest(s)) <= MaxAlerts
      /\ Len(Newest(s)) <= Len(s)
      /\ \A i \in 1 .. Len(Newest(s)) : Newest(s)[i] = s[i + (Len(s) - Len(Newest(s)))]
  BY <1>1, NewestEffect
<1>3. alerts' = Newest(s)
  BY DEF s
<1>4. k \in Nat /\ Len(alerts') = Len(alerts) + Len(found) - k
  BY <1>1, <1>2, <1>3
<1>5. ASSUME NEW i \in 1 .. Len(alerts')
      PROVE  alerts'[i] = IF i + k <= Len(alerts) THEN alerts[i + k]
                          ELSE found[i + k - Len(alerts)]
  <2>1. alerts'[i] = s[i + k]
    BY <1>2, <1>3
  <2>2. i + k \in 1 .. Len(s)
    BY <1>1, <1>2, <1>3
  <2>3. i + k <= Len(alerts) => s[i + k] = alerts[i + k]
    BY <1>1, <2>2
  <2>4. ~(i + k <= Len(alerts)) => s[i + k] = found[i + k - Len(alerts)]
    BY <1>1, <2>2
  <2>. QED
    BY <2>1, <2>3, <2>4
<1>. QED
  BY <1>2, <1>3, <1>4, <1>5

LEMMA AlertsAreFinite == IsFiniteSet(Alert)
<1>. DEFINE K == {"appeared", "stale", "online", "ram"}
            f == [x \in K \X Node |-> [kind |-> x[1], node |-> x[2]]]
<1>1. IsFiniteSet(K)
  <2>1. IsFiniteSet({"appeared"})
    BY FS_Singleton
  <2>2. IsFiniteSet(({"appeared"} \cup {"stale"}) \cup {"online"})
    BY <2>1, FS_AddElement, Zenon
  <2>3. IsFiniteSet((({"appeared"} \cup {"stale"}) \cup {"online"}) \cup {"ram"})
    BY <2>2, FS_AddElement, Zenon
  <2>4. K = (({"appeared"} \cup {"stale"}) \cup {"online"}) \cup {"ram"}
    OBVIOUS
  <2>. QED
    BY <2>3, <2>4
<1>2. IsFiniteSet(K \X Node)
  BY <1>1, DashboardAssumption, FS_Product
<1>3. f \in Surjection(K \X Node, Alert)
  <2>1. f \in [K \X Node -> Alert]
    BY DEF Alert
  <2>2. ASSUME NEW a \in Alert PROVE \E x \in K \X Node : f[x] = a
    <3>1. <<a.kind, a.node>> \in K \X Node /\ a = [kind |-> a.kind, node |-> a.node]
      BY DEF Alert
    <3>. QED
      BY <3>1
  <2>. QED
    BY <2>1, <2>2 DEF Surjection
<1>. QED
  BY <1>2, <1>3, FS_Surjection

LEMMA AlertsAre ==
    ASSUME NEW old \in NodeList, NEW new \in NodeList
    PROVE  /\ Alerts(old, new) \in SUBSET Alert /\ IsFiniteSet(Alerts(old, new))
           /\ \A n \in Node, kind \in {"appeared", "stale", "online", "ram"} :
                 About(n, kind) \in Alerts(old, new) <=>
                     n \in Listed(new) /\ About(n, kind) \in AlertsOf(n, old[n], new[n])
<1>1. ASSUME NEW n \in Node, NEW a \in AlertsOf(n, old[n], new[n])
      PROVE  a \in Alert /\ a.node = n
  BY DEF AlertsOf, StatusAlerts, RamAlerts, About, Alert
<1>2. Alerts(old, new) \in SUBSET Alert
  BY <1>1 DEF Alerts, Listed
<1>3. IsFiniteSet(Alerts(old, new))
  BY <1>2, AlertsAreFinite, FS_Subset
<1>4. ASSUME NEW n \in Node, NEW kind,
             About(n, kind) \in Alerts(old, new)
      PROVE  n \in Listed(new) /\ About(n, kind) \in AlertsOf(n, old[n], new[n])
  <2>1. PICK m \in Listed(new) : About(n, kind) \in AlertsOf(m, old[m], new[m])
    BY <1>4 DEF Alerts
  <2>2. m = n
    BY <1>1, <2>1 DEF Listed, About
  <2>. QED
    BY <2>1, <2>2
<1>5. ASSUME NEW n \in Listed(new), NEW kind, About(n, kind) \in AlertsOf(n, old[n], new[n])
      PROVE  About(n, kind) \in Alerts(old, new)
  BY <1>5 DEF Alerts
<1>. QED
  BY <1>2, <1>3, <1>4, <1>5

\* Each alert is generated, and none besides.
LEMMA Generated ==
    ASSUME NEW old \in NodeList, NEW new \in NodeList, NEW found \in Generate(old, new)
    PROVE  /\ found \in Seq(Alert)
           /\ \A i \in 1 .. Len(found) : found[i] \in Alerts(old, new)
           /\ \A a \in Alerts(old, new) : \E i \in 1 .. Len(found) : found[i] = a
<1>. DEFINE S == Alerts(old, new)
            D == 1 .. Cardinality(S)
<1>1. S \in SUBSET Alert /\ IsFiniteSet(S) /\ Cardinality(S) \in Nat
  BY AlertsAre, FS_CardinalityType
<1>2. found \in [D -> S] /\ \A i, j \in D : i # j => found[i] # found[j]
  BY DEF Generate, SetToSeqs
<1>. HIDE DEF S
<1>3. found \in Seq(Alert) /\ Len(found) = Cardinality(S)
  <2>1. found \in [1 .. Cardinality(S) -> Alert]
    BY <1>1, <1>2
  <2>. QED
    BY <1>1, <2>1, FunctionIsSeq
<1>4. IsFiniteSet(D) /\ Cardinality(D) = Cardinality(S)
  BY <1>1, FS_Interval
<1>5. found \in Injection(D, S)
  BY <1>2 DEF Injection, IsInjective
<1>6. found \in Surjection(D, S)
  BY <1>1, <1>4, <1>5, FS_Injection
<1>. QED
  BY <1>2, <1>3, <1>6 DEF Surjection, S

-----------------------------------------------------------------------------
(* The types *)

LEMMA RefsAreNumbers == \A m \in Ref : m \in 1 .. m /\ \A r \in 1 .. m : r \in Ref
BY DEF Ref

LEMMA PollParts ==
    ASSUME TypeInv, NEW p \in Poller
    PROVE  /\ poll[p] \in PollState
           /\ \A r \in {poll[p].old_nodes, poll[p].list} : r # None => lists[r] \in NodeList
           /\ Last(lists) \in NodeList /\ Listed(Last(lists)) \in SUBSET Node
<1>0. /\ poll \in [Poller -> PollState] /\ RefsAreRight(poll, Len(lists))
      /\ lists \in Seq(NodeList) /\ Len(lists) \in Ref
  BY DEF TypeInv, TypeOK, NodeList
<1>1. \A r \in 1 .. Len(lists) : lists[r] \in NodeList
  BY <1>0
<1>2. /\ poll[p].old_nodes = None \/ poll[p].old_nodes \in 1 .. Len(lists)
      /\ poll[p].list = None \/ poll[p].list \in 1 .. Len(lists)
  BY <1>0 DEF RefsAreRight
<1>3. Last(lists) \in NodeList
  <2>1. Len(lists) \in 1 .. Len(lists)
    BY <1>0, RefsAreNumbers
  <2>. QED
    BY <1>1, <2>1 DEF Last
<1>. QED
  BY <1>0, <1>1, <1>2, <1>3 DEF Listed

\* What was seen once the alerts found are generated.
AfterAlerts(heard, found) ==
    [n \in Node |-> IF About(n, "ram") \in found THEN Tell(heard[n]) ELSE heard[n]]

LEMMA SeenKeepsType ==
    ASSUME NEW s \in Seen, NEW high \in BOOLEAN, NEW shared \in BOOLEAN
    PROVE  Value(s, high, shared) \in Seen /\ Lapse(s) \in Seen /\ Tell(s) \in Seen
BY DEF Value, Lapse, Tell, Seen

LEMMA KeptType ==
    ASSUME NEW s \in [Node -> Seen], NEW both
    PROVE  Kept(s, both) \in [Node -> Seen]
BY DEF Kept, Seen

\* What Continue asks for, and leaves behind.
Continues(p, h, list, todo, heard) ==
    /\ poll[p].pc \in {"status", "heartbeats"}
    /\ h \in Seq(NodeList) /\ Len(h) = Len(lists)
    /\ list \in 1 .. Len(h) /\ todo \in SUBSET Node
    /\ heard \in [Node -> Seen]
    /\ Continue(p, h, list, todo, heard) /\ UNCHANGED <<status, overlapped>>

LEMMA ContinueEffect ==
    ASSUME TypeInv, NEW p \in Poller, NEW h, NEW list, NEW todo, NEW heard,
           Continues(p, h, list, todo, heard)
    PROVE  /\ TypeInv' /\ Last(lists') = Last(h)
           /\ \A q \in Poller \ {p} :
                 /\ poll'[q].pc = poll[q].pc /\ poll'[q].reply = poll[q].reply
                 /\ Moved(h, poll[q].old_nodes, poll'[q].old_nodes)
                 /\ Moved(h, poll[q].list, poll'[q].list)
           /\ \/ /\ todo # {} /\ poll'[p].pc = "heartbeats" /\ poll'[p].reply = poll[p].reply
                 /\ Moved(h, poll[p].old_nodes, poll'[p].old_nodes)
                 /\ Moved(h, list, poll'[p].list)
                 /\ poll'[p].todo = todo
                 /\ alerts' = alerts /\ seen' = Kept(heard, overlapped)
              \/ /\ todo = {} /\ poll'[p].pc = "idle"
                 /\ \E found \in Generate(h[poll[p].old_nodes], Last(h)) :
                       alerts' = Newest(alerts \o found)
                 /\ seen' = Kept(AfterAlerts(heard, Alerts(h[poll[p].old_nodes], Last(h))),
                                 overlapped)
<1>. DEFINE asks == [poll[p] EXCEPT !.pc = "heartbeats", !.list = list, !.todo = todo]
<1>0. /\ poll \in [Poller -> PollState] /\ RefsAreRight(poll, Len(h))
      /\ h \in Seq(NodeList) /\ h # <<>> /\ Len(lists) \in Ref /\ alerts \in Seq(Alert)
  BY DEF TypeInv, TypeOK, Continues, Ref
<1>1. CASE /\ todo # {} /\ Set(h, [poll EXCEPT ![p] = asks])
           /\ UNCHANGED alerts /\ seen' = Kept(heard, overlapped)
  <2>. DEFINE polls == [poll EXCEPT ![p] = asks]
  <2>1. /\ asks \in PollState /\ asks.pc = "heartbeats" /\ asks.list = list /\ asks.todo = todo
        /\ asks.reply = poll[p].reply /\ asks.old_nodes = poll[p].old_nodes
    <3>1. poll[p] \in PollState /\ list \in Ref /\ todo \in SUBSET Node
      <4>1. list \in 1 .. Len(lists) /\ todo \in SUBSET Node
        BY DEF Continues
      <4>. QED
        BY <1>0, <4>1, RefsAreNumbers
    <3>. QED
      BY <3>1 DEF PollState
  <2>. HIDE DEF asks
  <2>2. /\ polls \in [Poller -> PollState] /\ polls[p] = asks
        /\ \A q \in Poller \ {p} : polls[q] = poll[q]
    BY <1>0, <2>1
  <2>. HIDE DEF polls
  <2>3. poll[p].reply = Waiting /\ poll[p].old_nodes \in 1 .. Len(h)
    BY <1>0 DEF RefsAreRight, Continues
  <2>4. ASSUME NEW q \in Poller
        PROVE  /\ polls[q].old_nodes \in IF polls[q].pc = "idle" THEN {None} ELSE 1 .. Len(h)
               /\ polls[q].list \in IF polls[q].pc = "heartbeats" THEN 1 .. Len(h) ELSE {None}
               /\ polls[q].todo = {} <=> polls[q].pc # "heartbeats"
               /\ polls[q].reply # Waiting => polls[q].pc = "nodes"
    <3>1. CASE q = p
      BY <1>1, <2>1, <2>2, <2>3, <3>1 DEF Continues
    <3>2. CASE q # p
      BY <1>0, <2>2, <3>2 DEF RefsAreRight
    <3>. QED
      BY <3>1, <3>2
  <2>5. RefsAreRight(polls, Len(h))
    BY <2>4 DEF RefsAreRight
  <2>6. Set(h, polls)
    BY <1>1 DEF polls
  <2>7. /\ lists' \in Seq(NodeList) /\ Len(lists') \in Ref /\ Last(lists') = Last(h)
        /\ poll' \in [Poller -> PollState] /\ RefsAreRight(poll', Len(lists'))
        /\ \A q \in Poller :
              /\ poll'[q].pc = polls[q].pc /\ poll'[q].todo = polls[q].todo
              /\ poll'[q].reply = polls[q].reply
              /\ Moved(h, polls[q].old_nodes, poll'[q].old_nodes)
              /\ Moved(h, polls[q].list, poll'[q].list)
    BY <1>0, <2>2, <2>5, <2>6, SetEffect
  <2>8. seen' \in [Node -> Seen]
    BY <1>1, KeptType DEF Continues
  <2>9. TypeInv'
    BY <1>1, <2>7, <2>8 DEF TypeInv, TypeOK, Continues, NodeList
  <2>. QED
    BY <1>1, <2>1, <2>2, <2>7, <2>9
<1>2. CASE /\ todo = {} /\ Set(h, [poll EXCEPT ![p] = Idle])
           /\ \E found \in Generate(h[poll[p].old_nodes], Last(h)) :
                 alerts' = Newest(alerts \o found)
           /\ seen' = Kept(AfterAlerts(heard, Alerts(h[poll[p].old_nodes], Last(h))), overlapped)
  <2>. DEFINE polls == [poll EXCEPT ![p] = Idle]
  <2>1. /\ Idle \in PollState /\ Idle.pc = "idle" /\ Idle.list = None /\ Idle.todo = {}
        /\ Idle.reply = Waiting /\ Idle.old_nodes = None
    BY DEF PollState, Idle
  <2>2. /\ polls \in [Poller -> PollState] /\ polls[p] = Idle
        /\ \A q \in Poller \ {p} : polls[q] = poll[q]
    BY <1>0, <2>1
  <2>. HIDE DEF polls
  <2>3. poll[p].old_nodes \in 1 .. Len(h)
    BY <1>0 DEF RefsAreRight, Continues
  <2>4. ASSUME NEW q \in Poller
        PROVE  /\ polls[q].old_nodes \in IF polls[q].pc = "idle" THEN {None} ELSE 1 .. Len(h)
               /\ polls[q].list \in IF polls[q].pc = "heartbeats" THEN 1 .. Len(h) ELSE {None}
               /\ polls[q].todo = {} <=> polls[q].pc # "heartbeats"
               /\ polls[q].reply # Waiting => polls[q].pc = "nodes"
    <3>1. CASE q = p
      BY <2>1, <2>2, <3>1
    <3>2. CASE q # p
      BY <1>0, <2>2, <3>2 DEF RefsAreRight
    <3>. QED
      BY <3>1, <3>2
  <2>5. RefsAreRight(polls, Len(h))
    BY <2>4 DEF RefsAreRight
  <2>6. Set(h, polls)
    BY <1>2 DEF polls
  <2>7. /\ lists' \in Seq(NodeList) /\ Len(lists') \in Ref /\ Last(lists') = Last(h)
        /\ poll' \in [Poller -> PollState] /\ RefsAreRight(poll', Len(lists'))
        /\ \A q \in Poller :
              /\ poll'[q].pc = polls[q].pc /\ poll'[q].todo = polls[q].todo
              /\ poll'[q].reply = polls[q].reply
              /\ Moved(h, polls[q].old_nodes, poll'[q].old_nodes)
              /\ Moved(h, polls[q].list, poll'[q].list)
    BY <1>0, <2>2, <2>5, <2>6, SetEffect
  <2>8. seen' \in [Node -> Seen]
    <3>1. AfterAlerts(heard, Alerts(h[poll[p].old_nodes], Last(h))) \in [Node -> Seen]
      BY SeenKeepsType DEF AfterAlerts, Continues
    <3>. QED
      BY <1>2, <3>1, KeptType
  <2>9. alerts' \in Seq(Alert) /\ Len(alerts') <= MaxAlerts
    <3>1. PICK found \in Generate(h[poll[p].old_nodes], Last(h)) : alerts' = Newest(alerts \o found)
      BY <1>2
    <3>2. h[poll[p].old_nodes] \in NodeList /\ Last(h) \in NodeList
      BY <1>0, <2>3 DEF Last
    <3>3. found \in Seq(Alert)
      BY <3>2, Generated
    <3>. QED
      BY <1>0, <3>1, <3>3, KeptAlerts
  <2>10. TypeInv'
    BY <2>7, <2>8, <2>9 DEF TypeInv, TypeOK, Continues, NodeList
  <2>. QED
    BY <1>2, <2>1, <2>2, <2>7, <2>10
<1>. QED
  BY <1>1, <1>2 DEF Continues, Continue, AfterAlerts

\* A request that is over changes no status in a list, and writes to none but the one
\* under the loop.
Keeps(p, h, list) ==
    /\ Len(h) = Len(lists)
    /\ \A r \in 1 .. Len(lists) : r # list => h[r] = lists[r]
    /\ \A r \in 1 .. Len(lists), n \in Node : h[r][n].status = lists[r][n].status
    /\ list = IF poll[p].pc = "status" THEN Len(lists) ELSE poll[p].list

\* The lists with the value high written to the node n of one of them.
Write(r, n, high) == [lists EXCEPT ![r][n].high = high]

\* What each request adds to what was seen.
Hears(p, h, todo, heard) ==
    \/ /\ poll[p].pc = "status" /\ todo = Listed(mesh_nodes)
       /\ h = lists /\ heard = seen
    \/ /\ poll[p].pc = "heartbeats"
       /\ \E n \in poll[p].todo :
             /\ todo = poll[p].todo \ {n}
             /\ \/ h = lists /\ heard = [seen EXCEPT ![n] = Lapse(@)]
                \/ \E high \in BOOLEAN :
                      /\ h = Write(poll[p].list, n, high)
                      /\ heard = [seen EXCEPT ![n] =
                                    Value(@, high, poll[p].list = poll[p].old_nodes)]

LEMMA WriteHigh ==
    ASSUME lists \in Seq(NodeList), NEW r \in 1 .. Len(lists), NEW n \in Node,
           NEW high \in BOOLEAN
    PROVE  LET h == Write(r, n, high) IN
           /\ h \in Seq(NodeList) /\ Len(h) = Len(lists)
           /\ \A s \in 1 .. Len(lists) : s # r => h[s] = lists[s]
           /\ \A s \in 1 .. Len(lists), m \in Node : h[s][m].status = lists[s][m].status
           /\ \A m \in Node : h[r][m].high = IF m = n THEN high ELSE lists[r][m].high
<1>. DEFINE h == Write(r, n, high)
            e == [lists[r][n] EXCEPT !.high = high]
            l == [lists[r] EXCEPT ![n] = e]
<1>1. lists[r] \in NodeList /\ lists[r][n] \in Entry
  BY DEF NodeList
<1>2. e \in Entry /\ e.status = lists[r][n].status /\ e.high = high
  BY <1>1 DEF Entry
<1>3. l \in NodeList /\ \A m \in Node : /\ l[m].status = lists[r][m].status
                                         /\ l[m].high = IF m = n THEN high ELSE lists[r][m].high
  BY <1>1, <1>2 DEF NodeList
<1>4. h = [lists EXCEPT ![r] = l]
  BY DEF Write
<1>. HIDE DEF h, l
<1>5. h \in Seq(NodeList) /\ Len(h) = Len(lists) /\ h[r] = l
      /\ \A s \in 1 .. Len(lists) : s # r => h[s] = lists[s]
  BY <1>3, <1>4
<1>. QED
  BY <1>3, <1>5 DEF h

LEMMA OverContinues ==
    ASSUME TypeInv, NEW p \in Poller, StatusOver(p) \/ HeartbeatsArrive(p) \/ HeartbeatsFail(p)
    PROVE  \E h, list, todo, heard :
               Continues(p, h, list, todo, heard) /\ Keeps(p, h, list) /\ Hears(p, h, todo, heard)
<1>0. /\ poll \in [Poller -> PollState] /\ RefsAreRight(poll, Len(lists))
      /\ lists \in Seq(NodeList) /\ Len(lists) \in Ref
      /\ seen \in [Node -> Seen]
  BY DEF TypeInv, TypeOK, NodeList
<1>1. CASE StatusOver(p)
  <2>1. /\ Len(lists) \in 1 .. Len(lists)
        /\ Listed(mesh_nodes) \in SUBSET Node
    BY <1>0, RefsAreNumbers, PollParts DEF mesh_nodes
  <2>2. Continues(p, lists, Len(lists), Listed(mesh_nodes), seen)
    BY <1>0, <1>1, <2>1 DEF StatusOver, Continues
  <2>3. Keeps(p, lists, Len(lists))
    BY <1>1 DEF StatusOver, Keeps
  <2>4. Hears(p, lists, Listed(mesh_nodes), seen)
    BY <1>1 DEF StatusOver, Hears
  <2>. QED
    BY <2>2, <2>3, <2>4
<1>2. CASE HeartbeatsArrive(p) \/ HeartbeatsFail(p)
  <2>. DEFINE list == poll[p].list
              todo == poll[p].todo \ {Asked(p)}
  <2>1. /\ list \in 1 .. Len(lists) /\ poll[p].todo # {} /\ poll[p].todo \in SUBSET Node
        /\ poll[p].pc = "heartbeats"
    BY <1>0, <1>2 DEF RefsAreRight, HeartbeatsArrive, HeartbeatsFail, PollState
  <2>2. Asked(p) \in poll[p].todo /\ Asked(p) \in Node /\ todo \in SUBSET Node
    BY <2>1 DEF Asked
  <2>3. CASE HeartbeatsFail(p)
    <3>. DEFINE heard == [seen EXCEPT ![Asked(p)] = Lapse(@)]
    <3>0. heard \in [Node -> Seen]
      <4>1. Lapse(seen[Asked(p)]) \in Seen
        BY <1>0, <2>2, SeenKeepsType
      <4>. QED
        BY <1>0, <4>1
    <3>1. Continues(p, lists, list, todo, heard)
      BY <1>0, <2>1, <2>2, <2>3, <3>0 DEF HeartbeatsFail, Continues
    <3>2. Keeps(p, lists, list)
      BY <2>1 DEF Keeps
    <3>3. Hears(p, lists, todo, heard)
      BY <2>1, <2>2 DEF Hears
    <3>. QED
      BY <3>1, <3>2, <3>3
  <2>4. CASE HeartbeatsArrive(p)
    <3>1. PICK high \in BOOLEAN :
              Continue(p, [lists EXCEPT ![list][Asked(p)].high = high], list, todo,
                       [seen EXCEPT ![Asked(p)] = Value(@, high, list = poll[p].old_nodes)])
      BY <2>4 DEF HeartbeatsArrive
    <3>. DEFINE h == Write(list, Asked(p), high)
                heard == [seen EXCEPT ![Asked(p)] = Value(@, high, list = poll[p].old_nodes)]
    <3>0. heard \in [Node -> Seen]
      <4>1. Value(seen[Asked(p)], high, list = poll[p].old_nodes) \in Seen
        BY <1>0, <2>2, SeenKeepsType
      <4>. QED
        BY <1>0, <4>1
    <3>2. /\ h \in Seq(NodeList) /\ Len(h) = Len(lists)
          /\ \A s \in 1 .. Len(lists) : s # list => h[s] = lists[s]
          /\ \A s \in 1 .. Len(lists), m \in Node : h[s][m].status = lists[s][m].status
      <4>1. list \in 1 .. Len(lists) /\ Asked(p) \in Node
        BY <1>0, <2>1, <2>2 DEF PollState
      <4>. HIDE DEF list
      <4>. QED
        BY <1>0, <3>1, <4>1, WriteHigh
    <3>3. Continue(p, h, list, todo, heard) /\ UNCHANGED <<status, overlapped>>
      BY <2>4, <3>1 DEF HeartbeatsArrive, Write
    <3>6. Hears(p, h, todo, heard)
      BY <2>1, <2>2 DEF Hears
    <3>. HIDE DEF h, list, todo, heard
    <3>4. Continues(p, h, list, todo, heard)
      BY <2>1, <2>2, <3>0, <3>2, <3>3 DEF Continues, list
    <3>5. Keeps(p, h, list)
      BY <2>1, <3>2 DEF Keeps, list
    <3>. QED
      BY <3>4, <3>5, <3>6
  <2>. QED
    BY <1>2, <2>3, <2>4
<1>. QED
  BY <1>1, <1>2

LEMMA NodesArriveEffect ==
    ASSUME TypeInv, NEW p \in Poller, NodesArrive(p)
    PROVE  LET h == Append(lists, poll[p].reply.nodes) IN
           /\ TypeInv' /\ Last(lists') = poll[p].reply.nodes
           /\ poll[p].reply.nodes \in NodeList
           /\ Len(h) = Len(lists) + 1 /\ \A r \in 1 .. Len(lists) : h[r] = lists[r]
           /\ poll'[p].pc = "status" /\ poll'[p].reply = Waiting
           /\ \A q \in Poller :
                 /\ q # p => poll'[q].pc = poll[q].pc /\ poll'[q].reply = poll[q].reply
                 /\ Moved(h, poll[q].old_nodes, poll'[q].old_nodes)
                 /\ Moved(h, poll[q].list, poll'[q].list)
<1>. DEFINE new == poll[p].reply.nodes
            h == Append(lists, new)
            polls == NodesOver(p)
<1>0. /\ poll \in [Poller -> PollState] /\ RefsAreRight(poll, Len(lists))
      /\ lists \in Seq(NodeList) /\ Len(lists) \in Ref
      /\ poll[p].pc = "nodes" /\ poll[p].reply # Waiting
  BY DEF TypeInv, TypeOK, NodeList, NodesArrive
<1>1. new \in NodeList
  BY <1>0 DEF PollState, NodeList
<1>. HIDE DEF new
<1>2. /\ h \in Seq(NodeList) /\ h # <<>> /\ Len(h) = Len(lists) + 1 /\ Last(h) = new
      /\ \A r \in 1 .. Len(lists) : h[r] = lists[r]
  BY <1>0, <1>1 DEF Last
<1>3. \A q \in Poller :
          /\ polls[q] \in PollState
          /\ polls[q].pc = IF q = p THEN "status" ELSE poll[q].pc
          /\ polls[q].reply = IF q = p THEN Waiting ELSE poll[q].reply
          /\ polls[q].old_nodes = poll[q].old_nodes /\ polls[q].list = poll[q].list
          /\ polls[q].todo = poll[q].todo
  BY <1>0 DEF NodesOver, PollState
<1>4. polls \in [Poller -> PollState]
  BY <1>0, <1>3 DEF NodesOver
<1>5. Set(h, polls) /\ UNCHANGED <<status, alerts, overlapped, seen>>
  BY DEF NodesArrive, new
<1>. HIDE DEF h, polls
<1>6. RefsAreRight(polls, Len(h))
  <2>1. 1 .. Len(lists) \in SUBSET (1 .. Len(h))
    BY <1>0, <1>2 DEF Ref
  <2>2. ASSUME NEW q \in Poller
        PROVE  /\ polls[q].old_nodes \in IF polls[q].pc = "idle" THEN {None} ELSE 1 .. Len(h)
               /\ polls[q].list \in IF polls[q].pc = "heartbeats" THEN 1 .. Len(h) ELSE {None}
               /\ polls[q].todo = {} <=> polls[q].pc # "heartbeats"
               /\ polls[q].reply # Waiting => polls[q].pc = "nodes"
    <3>1. /\ poll[q].old_nodes \in IF poll[q].pc = "idle" THEN {None} ELSE 1 .. Len(lists)
          /\ poll[q].list \in IF poll[q].pc = "heartbeats" THEN 1 .. Len(lists) ELSE {None}
          /\ poll[q].todo = {} <=> poll[q].pc # "heartbeats"
          /\ poll[q].reply # Waiting => poll[q].pc = "nodes"
      BY <1>0 DEF RefsAreRight
    <3>2. CASE q = p
      BY <1>0, <1>3, <2>1, <3>1, <3>2
    <3>3. CASE q # p
      BY <1>3, <2>1, <3>1, <3>3
    <3>. QED
      BY <3>2, <3>3
  <2>. QED
    BY <2>2 DEF RefsAreRight
<1>7. /\ lists' \in Seq(NodeList) /\ Len(lists') \in Ref /\ Last(lists') = Last(h)
      /\ poll' \in [Poller -> PollState] /\ RefsAreRight(poll', Len(lists'))
      /\ \A q \in Poller :
            /\ poll'[q].pc = polls[q].pc /\ poll'[q].todo = polls[q].todo
            /\ poll'[q].reply = polls[q].reply
            /\ Moved(h, polls[q].old_nodes, poll'[q].old_nodes)
            /\ Moved(h, polls[q].list, poll'[q].list)
  BY <1>2, <1>4, <1>5, <1>6, SetEffect
<1>8. TypeInv'
  BY <1>5, <1>7 DEF TypeInv, TypeOK, NodeList
<1>9. \A q \in Poller :
          /\ q # p => poll'[q].pc = poll[q].pc /\ poll'[q].reply = poll[q].reply
          /\ Moved(h, poll[q].old_nodes, poll'[q].old_nodes)
          /\ Moved(h, poll[q].list, poll'[q].list)
  BY <1>3, <1>7
<1>. QED
  BY <1>1, <1>2, <1>3, <1>7, <1>8, <1>9 DEF h, new

\* The steps that change no list.
LEMMA PollEffect ==
    ASSUME TypeInv, NEW p \in Poller, Poll(p)
    PROVE  /\ TypeInv' /\ UNCHANGED <<status, lists, alerts>>
           /\ seen' = Kept(seen, overlapped')
           /\ poll'[p].pc = "nodes" /\ poll'[p].reply = Waiting
           /\ poll'[p].old_nodes = Len(lists)
           /\ \A q \in Poller \ {p} : poll'[q] = poll[q]
           /\ overlapped' = (overlapped \/ \E q \in Poller : UnderWay(q))
<1>0. /\ poll \in [Poller -> PollState] /\ RefsAreRight(poll, Len(lists))
      /\ Len(lists) \in Ref /\ poll[p].pc = "idle"
  BY DEF TypeInv, TypeOK, Poll, UnderWay
<1>1. /\ poll' = [poll EXCEPT ![p].pc = "nodes", ![p].old_nodes = Len(lists)]
      /\ overlapped' = (overlapped \/ \E q \in Poller : UnderWay(q))
      /\ seen' = Kept(seen, overlapped')
      /\ UNCHANGED <<status, lists, alerts>>
  BY DEF Poll
<1>2. /\ poll'[p] \in PollState
      /\ poll'[p].pc = "nodes" /\ poll'[p].old_nodes = Len(lists)
      /\ poll'[p].list = poll[p].list /\ poll'[p].todo = poll[p].todo
      /\ poll'[p].reply = poll[p].reply
  BY <1>0, <1>1 DEF PollState
<1>3. \A q \in Poller \ {p} : poll'[q] = poll[q]
  BY <1>0, <1>1
<1>4. poll' \in [Poller -> PollState]
  BY <1>0, <1>1, <1>2, <1>3
<1>5. Len(lists) \in 1 .. Len(lists) /\ poll[p].reply = Waiting
  BY <1>0, RefsAreNumbers DEF RefsAreRight
<1>6. ASSUME NEW q \in Poller
      PROVE  /\ poll'[q].old_nodes \in IF poll'[q].pc = "idle" THEN {None} ELSE 1 .. Len(lists)
             /\ poll'[q].list \in IF poll'[q].pc = "heartbeats" THEN 1 .. Len(lists) ELSE {None}
             /\ poll'[q].todo = {} <=> poll'[q].pc # "heartbeats"
             /\ poll'[q].reply # Waiting => poll'[q].pc = "nodes"
  BY <1>0, <1>2, <1>3, <1>5 DEF RefsAreRight
<1>7. RefsAreRight(poll', Len(lists'))
  BY <1>1, <1>6 DEF RefsAreRight
<1>8. overlapped' \in BOOLEAN /\ seen' \in [Node -> Seen]
  BY <1>1, KeptType DEF TypeInv, TypeOK
<1>. QED
  BY <1>1, <1>2, <1>3, <1>4, <1>5, <1>7, <1>8 DEF TypeInv, TypeOK

LEMMA ReplyEffect ==
    ASSUME TypeInv, NEW p \in Poller, Serve(p) \/ NodesFail(p)
    PROVE  /\ TypeInv' /\ UNCHANGED <<status, lists, alerts, overlapped, seen>>
           /\ poll'[p].old_nodes = poll[p].old_nodes /\ poll'[p].list = poll[p].list
           /\ \/ /\ Serve(p) /\ poll'[p].pc = "nodes"
                 /\ poll'[p].reply =
                      [nodes |-> [n \in Node |-> [status |-> status[n], high |-> FALSE]]]
              \/ poll'[p].pc = "status" /\ poll'[p].reply = Waiting
           /\ \A q \in Poller \ {p} : poll'[q] = poll[q]
<1>. DEFINE reply == [nodes |-> [n \in Node |-> [status |-> status[n], high |-> FALSE]]]
<1>0. /\ poll \in [Poller -> PollState] /\ RefsAreRight(poll, Len(lists))
      /\ status \in [Node -> {"absent", "offline", "online", "stale"}]
      /\ poll[p].pc = "nodes"
      /\ UNCHANGED <<status, lists, alerts, overlapped, seen>>
  BY DEF TypeInv, TypeOK, Serve, NodesFail
<1>1. reply \in [nodes : [Node -> Entry]]
  BY <1>0 DEF Entry
<1>. HIDE DEF reply
<1>2. /\ poll'[p] \in PollState
      /\ poll'[p].old_nodes = poll[p].old_nodes /\ poll'[p].list = poll[p].list
      /\ poll'[p].todo = poll[p].todo
      /\ \/ Serve(p) /\ poll'[p].pc = "nodes" /\ poll'[p].reply = reply
         \/ poll'[p].pc = "status" /\ poll'[p].reply = Waiting
      /\ \A q \in Poller \ {p} : poll'[q] = poll[q]
      /\ poll' \in [Poller -> PollState]
  <2>1. CASE Serve(p)
    <3>1. poll' = [poll EXCEPT ![p].reply = reply]
      BY <2>1 DEF Serve, reply
    <3>2. /\ poll'[p] \in PollState
          /\ poll'[p].old_nodes = poll[p].old_nodes /\ poll'[p].list = poll[p].list
          /\ poll'[p].todo = poll[p].todo /\ poll'[p].pc = "nodes" /\ poll'[p].reply = reply
      BY <1>0, <1>1, <3>1 DEF PollState
    <3>. QED
      BY <1>0, <2>1, <3>1, <3>2
  <2>2. CASE NodesFail(p)
    <3>1. poll' = [poll EXCEPT ![p].pc = "status", ![p].reply = Waiting]
      BY <2>2 DEF NodesFail, NodesOver
    <3>2. /\ poll'[p] \in PollState
          /\ poll'[p].old_nodes = poll[p].old_nodes /\ poll'[p].list = poll[p].list
          /\ poll'[p].todo = poll[p].todo /\ poll'[p].pc = "status" /\ poll'[p].reply = Waiting
      BY <1>0, <3>1 DEF PollState
    <3>. QED
      BY <1>0, <2>2, <3>1, <3>2
  <2>. QED
    BY <2>1, <2>2
<1>3. ASSUME NEW q \in Poller
      PROVE  /\ poll'[q].old_nodes \in IF poll'[q].pc = "idle" THEN {None} ELSE 1 .. Len(lists)
             /\ poll'[q].list \in IF poll'[q].pc = "heartbeats" THEN 1 .. Len(lists) ELSE {None}
             /\ poll'[q].todo = {} <=> poll'[q].pc # "heartbeats"
             /\ poll'[q].reply # Waiting => poll'[q].pc = "nodes"
  BY <1>0, <1>2 DEF RefsAreRight
<1>4. RefsAreRight(poll', Len(lists'))
  BY <1>0, <1>3 DEF RefsAreRight
<1>. QED
  BY <1>0, <1>2, <1>4 DEF TypeInv, TypeOK, reply

LEMMA TypeInit == Init => TypeInv
<1>. SUFFICES ASSUME Init PROVE TypeInv
  OBVIOUS
<1>1. /\ Idle \in PollState /\ Idle.pc = "idle" /\ Idle.list = None /\ Idle.todo = {}
      /\ Idle.reply = Waiting /\ Idle.old_nodes = None
  BY DEF PollState, Idle
<1>2. \A p \in Poller : poll[p] = Idle
  BY DEF Init
<1>3. RefsAreRight(poll, Len(lists))
  BY <1>1, <1>2 DEF RefsAreRight
<1>4. poll \in [Poller -> PollState]
  BY <1>1 DEF Init
<1>5. lists \in Seq([Node -> Entry]) /\ Len(lists) \in Ref
  BY DEF Init, Entry, Unlisted, Ref
<1>. QED
  <2>1. alerts \in Seq(Alert) /\ Len(alerts) <= MaxAlerts
    BY DashboardAssumption DEF Init
  <2>2. /\ status \in [Node -> {"absent", "offline", "online", "stale"}]
        /\ seen \in [Node -> Seen]
    BY DEF Init, Seen
  <2>. QED
    BY <1>3, <1>4, <1>5, <2>1, <2>2 DEF Init, TypeInv, TypeOK

LEMMA TypeStep == TypeInv /\ [Next]_vars => TypeInv'
<1>. SUFFICES ASSUME TypeInv, [Next]_vars PROVE TypeInv'
  OBVIOUS
<1>1. CASE StatusChanges
  BY <1>1 DEF StatusChanges, dashVars, Table!Next, Table!Change, TypeInv, TypeOK
<1>2. CASE ClearAlerts
  BY <1>2, DashboardAssumption DEF ClearAlerts, TypeInv, TypeOK
<1>3. ASSUME NEW p \in Poller, Poll(p) PROVE TypeInv'
  BY <1>3, PollEffect
<1>4. ASSUME NEW p \in Poller, Serve(p) \/ NodesFail(p) PROVE TypeInv'
  BY <1>4, ReplyEffect
<1>5. ASSUME NEW p \in Poller, NodesArrive(p) PROVE TypeInv'
  BY <1>5, NodesArriveEffect
<1>6. ASSUME NEW p \in Poller, StatusOver(p) \/ HeartbeatsArrive(p) \/ HeartbeatsFail(p)
      PROVE  TypeInv'
  BY <1>6, OverContinues, ContinueEffect
<1>7. CASE UNCHANGED vars
  BY <1>7 DEF vars, dashVars, TypeInv, TypeOK
<1>. QED
  BY <1>1, <1>2, <1>3, <1>4, <1>5, <1>6, <1>7 DEF Next, Over

\* The types of the dashboard's data: the bound on the alerts, and that five lists are
\* always enough for what the polls refer to.
THEOREM TypeCorrect == Spec => []TypeOK
<1>1. TypeInv => TypeOK
  BY DEF TypeInv
<1>. QED
  BY <1>1, TypeInit, TypeStep, PTL DEF Spec

-----------------------------------------------------------------------------
(* What the next alerts are found against *)

\* The lists that the next poll to end compares the latest with.
Bases ==
    {poll[p].old_nodes : p \in {q \in Poller : UnderWay(q)}}
        \cup {r \in {Len(lists)} : \A p \in Poller : ~UnderWay(p)}

Live(s) == s \in {"online", "stale"}

\* What a status may have become since it was s: a node stays in the table, and once it
\* was online or stale it stays one of the two.
Later(s, t) == (s # "absent" => t # "absent") /\ (Live(s) => Live(t))

\* A poll that overlaps no other works on the latest list, and what it compares is in
\* the order in which it was true.
AloneInv ==
    ~overlapped =>
        /\ \A p, q \in Poller : UnderWay(p) /\ UnderWay(q) => p = q
        /\ \A p \in Poller : poll[p].pc = "heartbeats" => poll[p].list = Len(lists)

LiveInv ==
    ~overlapped => \A n \in Node :
        /\ \A b \in Bases : Later(lists[b][n].status, Last(lists)[n].status)
        /\ Later(Last(lists)[n].status, status[n])
        /\ \A p \in Poller : poll[p].reply # Waiting =>
              /\ Later(Last(lists)[n].status, poll[p].reply.nodes[n].status)
              /\ Later(poll[p].reply.nodes[n].status, status[n])

\* The last word about a node is its status in the list that will be compared.
WordInv ==
    ~overlapped => \A b \in Bases, n \in Node : \A i \in Said(n) :
        (\A j \in Said(n) : j <= i) => alerts[i].kind = lists[b][n].status

Told(s) == s \in {"told", "again"}

\* The loop over the heartbeats is past the node, or the node is not in its list.
Past(n) == \E p \in Poller : poll[p].pc = "heartbeats" /\ n \notin poll[p].todo

\* What was seen of a node fits the lists that will be compared.  A node that was told of,
\* with nothing that ended it since, is above 85% in them, and in the latest list once the
\* loop is past it.  One whose last value was low is not, until the loop is past it, and one
\* with a crossing is above 85% in the latest list and not in the other.
RamInv ==
    ~overlapped => \A n \in Node :
        /\ seen[n] # "wrong"
        /\ seen[n] # "unknown" => Last(lists)[n].status # "absent"
        /\ Last(lists)[n].high => seen[n] \notin {"unknown", "low"}
        /\ Told(seen[n]) => \A b \in Bases : lists[b][n].high /\ lists[b][n].status # "absent"
        /\ seen[n] = "low" /\ ~Past(n) =>
              \A b \in Bases : ~lists[b][n].high /\ lists[b][n].status # "absent"
        /\ Past(n) /\ Told(seen[n]) => Last(lists)[n].high
        /\ seen[n] = "crossed" =>
              /\ Past(n) /\ Last(lists)[n].high
              /\ \A b \in Bases : ~lists[b][n].high /\ lists[b][n].status # "absent"
        /\ \A p \in Poller : n \in poll[p].todo => Last(lists)[n].status # "absent"
        /\ \A p \in Poller : poll[p].reply # Waiting => ~poll[p].reply.nodes[n].high

DashInv == TypeInv /\ AloneInv /\ LiveInv /\ WordInv /\ RamInv

LEMMA WhatAlertsSay ==
    ASSUME NEW n, NEW old \in Entry, NEW new \in Entry
    PROVE  /\ About(n, "stale") \in AlertsOf(n, old, new) <=>
                 old.status = "online" /\ new.status = "stale"
           /\ About(n, "online") \in AlertsOf(n, old, new) <=>
                 old.status \in {"stale", "offline"} /\ new.status = "online"
           /\ About(n, "ram") \in AlertsOf(n, old, new) <=>
                 old.status # "absent" /\ ~old.high /\ new.high
BY DEF AlertsOf, StatusAlerts, RamAlerts, About, Entry

\* What was kept of the alerts and of those found still ends, for each node, with the
\* status in the list that they were found in.
LEMMA WordsFound ==
    ASSUME alerts \in Seq(Alert), NEW old \in NodeList, NEW new \in NodeList,
           NEW found \in Generate(old, new), alerts' = Newest(alerts \o found),
           NEW n \in Node,
           \A i \in Said(n) : (\A j \in Said(n) : j <= i) => alerts[i].kind = old[n].status,
           Live(old[n].status) => Live(new[n].status)
    PROVE  \A i \in Said(n)' : (\A j \in Said(n)' : j <= i) => alerts'[i].kind = new[n].status
<1>. DEFINE Word == {About(n, "stale"), About(n, "online")}
<1>. SUFFICES ASSUME NEW i \in Said(n)', \A j \in Said(n)' : j <= i
              PROVE  alerts'[i].kind = new[n].status
  OBVIOUS
<1>1. /\ found \in Seq(Alert)
      /\ \A j \in 1 .. Len(found) : found[j] \in Alerts(old, new)
      /\ \A a \in Alerts(old, new) : \E j \in 1 .. Len(found) : found[j] = a
  BY Generated
<1>2. PICK k \in Nat :
          /\ Len(alerts') = Len(alerts) + Len(found) - k
          /\ \A j \in 1 .. Len(alerts') :
                alerts'[j] = IF j + k <= Len(alerts) THEN alerts[j + k]
                             ELSE found[j + k - Len(alerts)]
  BY <1>1, KeptAlerts
<1>3. alerts' \in Seq(Alert)
  BY <1>1, KeptAlerts
<1>4. /\ \A j \in Nat : j \in Said(n) <=> j \in 1 .. Len(alerts) /\ alerts[j] \in Word
      /\ \A j \in Nat : j \in Said(n)' <=> j \in 1 .. Len(alerts') /\ alerts'[j] \in Word
      /\ i \in 1 .. Len(alerts') /\ alerts'[i] \in Word
      /\ Len(alerts) \in Nat /\ Len(found) \in Nat /\ Len(alerts') \in Nat
      /\ Said(n) \in SUBSET Nat
  BY <1>1, <1>3 DEF Said
<1>5. old[n] \in Entry /\ new[n] \in Entry
  BY DEF NodeList
<1>6. ASSUME NEW a \in Alerts(old, new), a \in Word
      PROVE  a.kind = new[n].status /\ n \in Listed(new)
  <2>1. /\ a = About(n, a.kind) /\ a.kind \in {"stale", "online"}
    BY <1>6 DEF About
  <2>2. n \in Listed(new) /\ a \in AlertsOf(n, old[n], new[n])
    BY <1>6, <2>1, AlertsAre
  <2>3. CASE a.kind = "stale"
    BY <1>5, <2>1, <2>2, <2>3, WhatAlertsSay
  <2>4. CASE a.kind = "online"
    <3>1. About(n, "online") \in AlertsOf(n, old[n], new[n])
      BY <2>1, <2>2, <2>4
    <3>2. new[n].status = "online"
      BY <1>5, <3>1, WhatAlertsSay
    <3>. QED
      BY <2>2, <2>4, <3>2
  <2>. QED
    BY <2>1, <2>2, <2>3, <2>4
<1>7. CASE i + k > Len(alerts)
  <2>1. alerts'[i] = found[i + k - Len(alerts)] /\ i + k - Len(alerts) \in 1 .. Len(found)
    BY <1>2, <1>4, <1>7
  <2>. QED
    BY <1>1, <1>4, <1>6, <2>1
<1>8. CASE i + k <= Len(alerts)
  <2>1. alerts'[i] = alerts[i + k] /\ i + k \in 1 .. Len(alerts)
    BY <1>2, <1>4, <1>8
  <2>2. i + k \in Said(n)
    BY <1>4, <2>1
  <2>3. ASSUME NEW j \in Said(n) PROVE j <= i + k
    <3>. SUFFICES ASSUME j > i + k PROVE FALSE
      BY <1>4
    <3>1. j \in 1 .. Len(alerts) /\ alerts[j] \in Word
      BY <1>4
    <3>2. j - k \in 1 .. Len(alerts') /\ (j - k) + k = j /\ j - k > i
      BY <1>2, <1>4, <3>1
    <3>3. alerts'[j - k] = alerts[j]
      BY <1>2, <3>1, <3>2
    <3>4. j - k \in Said(n)'
      BY <1>4, <3>1, <3>2, <3>3
    <3>. QED
      BY <1>4, <3>2, <3>4
  <2>4. alerts'[i].kind = old[n].status
    BY <2>1, <2>2, <2>3
  <2>5. ASSUME NEW a \in Word PROVE a \notin Alerts(old, new)
    <3>. SUFFICES ASSUME a \in Alerts(old, new) PROVE FALSE
      OBVIOUS
    <3>1. PICK j \in 1 .. Len(found) : found[j] = a
      BY <1>1
    <3>2. Len(alerts) + j - k \in 1 .. Len(alerts') /\ (Len(alerts) + j - k) + k > Len(alerts)
          /\ (Len(alerts) + j - k) + k - Len(alerts) = j /\ Len(alerts) + j - k > i
      BY <1>2, <1>4, <1>8
    <3>3. alerts'[Len(alerts) + j - k] = a
      <4>1. /\ ~((Len(alerts) + j - k) + k <= Len(alerts))
            /\ (Len(alerts) + j - k) + k - Len(alerts) = j
        BY <1>4, <3>2
      <4>2. alerts'[Len(alerts) + j - k] = found[(Len(alerts) + j - k) + k - Len(alerts)]
        BY <1>2, <3>2, <4>1
      <4>. QED
        BY <3>1, <4>1, <4>2
    <3>4. Len(alerts) + j - k \in Said(n)'
      BY <1>4, <3>2, <3>3
    <3>. QED
      BY <1>4, <3>2, <3>4
  <2>6. old[n].status \in {"stale", "online"}
    BY <1>4, <2>4 DEF About
  <2>7. Live(new[n].status) /\ n \in Listed(new)
    BY <2>6 DEF Live, Listed
  <2>8. \A kind \in {"stale", "online"} : About(n, kind) \notin AlertsOf(n, old[n], new[n])
    BY <2>5, <2>7, AlertsAre
  <2>9. new[n].status = old[n].status
    BY <1>5, <2>6, <2>7, <2>8, WhatAlertsSay DEF Live
  <2>. QED
    BY <2>4, <2>9
<1>. QED
  BY <1>4, <1>7, <1>8

\* One request after the other of a poll that overlaps no other: where it leaves what the
\* next alerts are found against.
LEMMA ContinueAlone ==
    ASSUME DashInv, ~overlapped, NEW p \in Poller, NEW h, NEW list, NEW todo, NEW heard,
           Continues(p, h, list, todo, heard), Keeps(p, h, list)
    PROVE  LET r   == poll[p].old_nodes
               old == h[r]
               new == Last(h)
           IN /\ TypeInv' /\ Last(lists') = new /\ UNCHANGED <<status, overlapped>>
              /\ \A q \in Poller \ {p} :
                    /\ poll[q].pc = "idle" /\ poll'[q].pc = "idle" /\ poll'[q].reply = Waiting
              /\ poll[p].pc # "idle" /\ r \in 1 .. Len(lists) /\ Bases = {r}
              /\ list = Len(lists) /\ list \in 1 .. Len(lists) /\ Len(h) = Len(lists)
              /\ lists \in Seq(NodeList) /\ old \in NodeList /\ new \in NodeList
              /\ r # list => old = lists[r]
              /\ r = list => old = new
              /\ \A n \in Node : /\ old[n].status = lists[r][n].status
                                 /\ new[n].status = Last(lists)[n].status
              /\ \/ /\ todo # {} /\ poll'[p].pc = "heartbeats" /\ poll'[p].reply = Waiting
                    /\ poll'[p].list = Len(lists') /\ poll'[p].todo = todo
                    /\ Bases' = {poll'[p].old_nodes} /\ lists'[poll'[p].old_nodes] = old
                    /\ alerts' = alerts /\ seen' = heard
                 \/ /\ todo = {} /\ poll'[p].pc = "idle" /\ poll'[p].reply = Waiting
                    /\ Bases' = {Len(lists')} /\ lists'[Len(lists')] = new
                    /\ \E found \in Generate(old, new) : alerts' = Newest(alerts \o found)
                    /\ seen' = AfterAlerts(heard, Alerts(old, new))
<1>. DEFINE r == poll[p].old_nodes
            old == h[r]
            new == Last(h)
<1>1. /\ TypeInv' /\ Last(lists') = new
      /\ \A q \in Poller \ {p} :
            /\ poll'[q].pc = poll[q].pc /\ poll'[q].reply = poll[q].reply
            /\ Moved(h, poll[q].old_nodes, poll'[q].old_nodes)
            /\ Moved(h, poll[q].list, poll'[q].list)
      /\ \/ /\ todo # {} /\ poll'[p].pc = "heartbeats" /\ poll'[p].reply = poll[p].reply
            /\ Moved(h, r, poll'[p].old_nodes)
            /\ Moved(h, list, poll'[p].list)
            /\ poll'[p].todo = todo
            /\ alerts' = alerts /\ seen' = Kept(heard, overlapped)
         \/ /\ todo = {} /\ poll'[p].pc = "idle"
            /\ \E found \in Generate(old, new) : alerts' = Newest(alerts \o found)
            /\ seen' = Kept(AfterAlerts(heard, Alerts(old, new)), overlapped)
  BY ContinueEffect DEF DashInv
<1>2. /\ RefsAreRight(poll, Len(lists)) /\ lists \in Seq(NodeList) /\ Len(lists) \in Ref
      /\ Len(lists) \in 1 .. Len(lists) /\ alerts \in Seq(Alert)
  BY RefsAreNumbers DEF DashInv, TypeInv, TypeOK, NodeList
<1>3. /\ poll[p].pc # "idle" /\ r \in 1 .. Len(lists) /\ r # None
      /\ poll[p].reply = Waiting
  BY <1>2 DEF Continues, RefsAreRight, None
<1>4. /\ \A q \in Poller \ {p} : poll[q].pc = "idle" /\ poll[q].reply = Waiting
      /\ list = Len(lists) /\ list \in 1 .. Len(lists) /\ list # None
  BY <1>2, <1>3 DEF DashInv, AloneInv, UnderWay, Continues, Keeps, RefsAreRight, None
<1>5. /\ h \in Seq(NodeList) /\ Len(h) = Len(lists) /\ old \in NodeList /\ new \in NodeList
      /\ UNCHANGED <<status, overlapped>>
  BY <1>2, <1>3 DEF Continues, Last
<1>6. /\ r # list => old = lists[r]
      /\ r = list => old = new
      /\ \A n \in Node : /\ old[n].status = lists[r][n].status
                         /\ new[n].status = Last(lists)[n].status
  BY <1>2, <1>3, <1>4, <1>5 DEF Keeps, Last
<1>7. Bases = {r}
  BY <1>3, <1>4 DEF Bases, UnderWay
<1>8. \A q \in Poller \ {p} :
         poll[q].pc = "idle" /\ poll'[q].pc = "idle" /\ poll'[q].reply = Waiting
  BY <1>1, <1>4
<1>. HIDE DEF old, new
<1>9. CASE /\ todo # {} /\ poll'[p].pc = "heartbeats" /\ poll'[p].reply = poll[p].reply
           /\ Moved(h, r, poll'[p].old_nodes)
           /\ Moved(h, list, poll'[p].list)
           /\ poll'[p].todo = todo
           /\ alerts' = alerts /\ seen' = Kept(heard, overlapped)
  <2>1. Bases' = {poll'[p].old_nodes} /\ lists'[poll'[p].old_nodes] = old
    BY <1>3, <1>8, <1>9 DEF Bases, UnderWay, Moved, old
  <2>2. poll'[p].list = Len(lists') /\ seen' = heard /\ poll'[p].reply = Waiting
    BY <1>3, <1>4, <1>5, <1>9 DEF Moved, Kept
  <2>. QED
    BY <1>1, <1>2, <1>3, <1>4, <1>5, <1>6, <1>7, <1>8, <1>9, <2>1, <2>2 DEF old, new
<1>10. CASE /\ todo = {} /\ poll'[p].pc = "idle"
            /\ \E found \in Generate(old, new) : alerts' = Newest(alerts \o found)
            /\ seen' = Kept(AfterAlerts(heard, Alerts(old, new)), overlapped)
  <2>1. Bases' = {Len(lists')} /\ lists'[Len(lists')] = new
    BY <1>1, <1>8, <1>10 DEF Bases, UnderWay, Last
  <2>2. seen' = AfterAlerts(heard, Alerts(old, new)) /\ poll'[p].reply = Waiting
    BY <1>1, <1>10 DEF Kept, TypeInv, RefsAreRight
  <2>. QED
    BY <1>1, <1>2, <1>3, <1>4, <1>5, <1>6, <1>7, <1>8, <1>10, <2>1, <2>2 DEF old, new
<1>. QED
  BY <1>1, <1>9, <1>10

LEMMA ContinueKeeps ==
    ASSUME DashInv, ~overlapped, NEW p \in Poller, NEW h, NEW list, NEW todo, NEW heard,
           Continues(p, h, list, todo, heard), Keeps(p, h, list)
    PROVE  (AloneInv /\ LiveInv /\ WordInv)'
<1>. DEFINE r == poll[p].old_nodes
            old == h[r]
            new == Last(h)
<1>1. /\ TypeInv' /\ Last(lists') = new /\ UNCHANGED <<status, overlapped>>
      /\ \A q \in Poller \ {p} : poll'[q].pc = "idle" /\ poll'[q].reply = Waiting
      /\ Bases = {r} /\ old \in NodeList /\ new \in NodeList
      /\ \A n \in Node : /\ old[n].status = lists[r][n].status
                         /\ new[n].status = Last(lists)[n].status
      /\ \/ /\ poll'[p].pc = "heartbeats" /\ poll'[p].reply = Waiting
            /\ poll'[p].list = Len(lists')
            /\ Bases' = {poll'[p].old_nodes} /\ lists'[poll'[p].old_nodes] = old
            /\ alerts' = alerts
         \/ /\ poll'[p].pc = "idle" /\ poll'[p].reply = Waiting
            /\ Bases' = {Len(lists')} /\ lists'[Len(lists')] = new
            /\ \E found \in Generate(old, new) : alerts' = Newest(alerts \o found)
  BY ContinueAlone
<1>2. alerts \in Seq(Alert)
  BY DEF DashInv, TypeInv, TypeOK
<1>3. \A n \in Node : /\ Later(old[n].status, new[n].status)
                      /\ Later(new[n].status, status[n])
  BY <1>1 DEF DashInv, LiveInv
<1>4. \A n \in Node : \A i \in Said(n) :
         (\A j \in Said(n) : j <= i) => alerts[i].kind = old[n].status
  BY <1>1 DEF DashInv, WordInv
<1>. HIDE DEF old, new
<1>5. AloneInv'
  BY <1>1 DEF AloneInv, UnderWay
<1>6. \A n \in Node : Later(new[n].status, new[n].status)
  BY DEF Later
<1>7. LiveInv'
  BY <1>1, <1>3, <1>6 DEF LiveInv
<1>8. CASE Bases' = {poll'[p].old_nodes} /\ lists'[poll'[p].old_nodes] = old /\ alerts' = alerts
  BY <1>4, <1>5, <1>7, <1>8 DEF WordInv, Said
<1>9. CASE /\ Bases' = {Len(lists')} /\ lists'[Len(lists')] = new
           /\ \E found \in Generate(old, new) : alerts' = Newest(alerts \o found)
  <2>1. PICK found \in Generate(old, new) : alerts' = Newest(alerts \o found)
    BY <1>9
  <2>2. ASSUME NEW n \in Node
        PROVE  \A i \in Said(n)' : (\A j \in Said(n)' : j <= i) => alerts'[i].kind = new[n].status
    BY <1>1, <1>2, <1>3, <1>4, <2>1, WordsFound DEF Later
  <2>3. WordInv'
    BY <1>9, <2>2 DEF WordInv
  <2>. QED
    BY <1>5, <1>7, <2>3
<1>. QED
  BY <1>1, <1>8, <1>9

\* What was seen once a request is over fits the lists old and new that will be compared,
\* where those of todo are still to be asked for.
Fits(s, old, new, asks) ==
    /\ s # "wrong"
    /\ s # "unknown" \/ asks => new.status # "absent"
    /\ new.high => s \notin {"unknown", "low"}
    /\ Told(s) => old.high /\ old.status # "absent"
    /\ s = "low" /\ asks => ~old.high /\ old.status # "absent"
    /\ Told(s) /\ ~asks => new.high
    /\ s = "crossed" => ~asks /\ new.high /\ ~old.high /\ old.status # "absent"

LEMMA HeardFits ==
    ASSUME DashInv, ~overlapped, NEW p \in Poller, NEW h, NEW list, NEW todo, NEW heard,
           Continues(p, h, list, todo, heard), Keeps(p, h, list), Hears(p, h, todo, heard),
           NEW n \in Node
    PROVE  Fits(heard[n], h[poll[p].old_nodes][n], Last(h)[n], n \in todo)
<1>. DEFINE r == poll[p].old_nodes
            old == h[r]
            new == Last(h)
            asked == poll[p].pc = "heartbeats" /\ n \notin poll[p].todo
<1>0. /\ lists \in Seq(NodeList) /\ list = Len(lists) /\ list \in 1 .. Len(lists)
      /\ Len(h) = Len(lists) /\ seen \in [Node -> Seen] /\ poll \in [Poller -> PollState]
      /\ Bases = {r} /\ r \in 1 .. Len(lists)
      /\ \A q \in Poller \ {p} : poll[q].pc = "idle"
      /\ r # list => old = lists[r]
      /\ r = list => old = new
      /\ old[n].status = lists[r][n].status /\ new[n].status = Last(lists)[n].status
  BY ContinueAlone DEF DashInv, TypeInv, TypeOK
<1>1. Past(n) <=> asked
  BY <1>0 DEF Past
<1>2. /\ seen[n] # "wrong" /\ seen[n] \in Seen
      /\ seen[n] # "unknown" => Last(lists)[n].status # "absent"
      /\ n \in poll[p].todo => Last(lists)[n].status # "absent"
      /\ Last(lists)[n].high => seen[n] \notin {"unknown", "low"}
      /\ Told(seen[n]) => lists[r][n].high /\ lists[r][n].status # "absent"
      /\ seen[n] = "low" /\ ~asked => ~lists[r][n].high /\ lists[r][n].status # "absent"
      /\ asked /\ Told(seen[n]) => Last(lists)[n].high
      /\ seen[n] = "crossed" =>
            asked /\ Last(lists)[n].high /\ ~lists[r][n].high /\ lists[r][n].status # "absent"
  BY <1>0, <1>1 DEF DashInv, RamInv
<1>3. Last(lists) = lists[list] /\ Last(h) = h[list]
  BY <1>0 DEF Last
<1>. HIDE DEF old, new
<1>4. CASE /\ poll[p].pc = "status" /\ todo = Listed(mesh_nodes)
           /\ h = lists /\ heard = seen
  <2>1. old = lists[r] /\ new = Last(lists) /\ ~asked
    BY <1>4 DEF old, new
  <2>2. n \in todo <=> Last(lists)[n].status # "absent"
    BY <1>4 DEF Listed, mesh_nodes
  <2>3. Fits(heard[n], old[n], new[n], n \in todo)
    BY <1>2, <1>4, <2>1, <2>2 DEF Fits, Told
  <2>. QED
    BY <2>3 DEF old, new
<1>5. ASSUME poll[p].pc = "heartbeats", NEW m \in poll[p].todo, todo = poll[p].todo \ {m},
             h = lists, heard = [seen EXCEPT ![m] = Lapse(@)]
      PROVE  Fits(heard[n], old[n], new[n], n \in todo)
  <2>1. heard[n] = IF n = m THEN Lapse(seen[n]) ELSE seen[n]
    BY <1>0, <1>5
  <2>2. old = lists[r] /\ new = Last(lists)
    BY <1>5 DEF old, new
  <2>3. CASE n = m
    BY <1>2, <1>5, <2>1, <2>2, <2>3 DEF Lapse, Told, Fits
  <2>4. CASE n # m
    BY <1>2, <1>5, <2>1, <2>2, <2>4 DEF Fits
  <2>. QED
    BY <2>3, <2>4
<1>6. ASSUME poll[p].pc = "heartbeats", NEW m \in poll[p].todo, todo = poll[p].todo \ {m},
             NEW high \in BOOLEAN, h = Write(poll[p].list, m, high),
             heard = [seen EXCEPT ![m] = Value(@, high, poll[p].list = r)]
      PROVE  Fits(heard[n], old[n], new[n], n \in todo)
  <2>0. m \in Node /\ poll[p].list = list
    BY <1>0, <1>6 DEF PollState, Keeps
  <2>1. heard[n] = IF n = m THEN Value(seen[n], high, list = r) ELSE seen[n]
    BY <1>0, <1>6, <2>0
  <2>2. new[n].high = IF n = m THEN high ELSE Last(lists)[n].high
    <3>1. list \in 1 .. Len(lists) /\ h = Write(list, m, high)
      BY <1>0, <1>6, <2>0
    <3>2. \A k \in Node : h[list][k].high = IF k = m THEN high ELSE lists[list][k].high
      <4>1. lists \in Seq(NodeList) /\ list \in 1 .. Len(lists) /\ m \in Node /\ high \in BOOLEAN
        BY <1>0, <1>6, <2>0
      <4>. QED
        BY <3>1, <4>1, WriteHigh
    <3>. QED
      BY <1>3, <3>2 DEF new
  <2>3. n = m \/ old[n].high = lists[r][n].high
    BY <1>0, <1>3, <2>2
  <2>4. CASE n = m /\ high
    <3>1. seen[n] \in {"told", "again"} => heard[n] = seen[n]
      BY <2>1, <2>4 DEF Value
    <3>2. seen[n] \notin {"unknown", "low"} => heard[n] = seen[n]
      BY <2>1, <2>4 DEF Value
    <3>3. seen[n] = "unknown" => heard[n] = "high"
      BY <2>1, <2>4 DEF Value
    <3>4. seen[n] = "low" => heard[n] = IF list = r THEN "high" ELSE "crossed"
      BY <2>1, <2>4 DEF Value
    <3>. QED
      BY <1>0, <1>2, <1>6, <2>2, <2>4, <3>2, <3>3, <3>4 DEF Fits, Told
  <2>5. CASE n = m /\ ~high
    <3>1. heard[n] = "low" /\ n \notin todo
      BY <1>6, <2>1, <2>5 DEF Value
    <3>. QED
      BY <1>0, <1>2, <1>6, <2>2, <2>5, <3>1 DEF Fits, Told
  <2>6. CASE n # m
    BY <1>0, <1>2, <1>6, <2>1, <2>2, <2>3, <2>6 DEF Fits
  <2>. QED
    BY <1>6, <2>4, <2>5, <2>6
<1>. QED
  BY <1>4, <1>5, <1>6 DEF Hears, old, new

LEMMA RamContinues ==
    ASSUME DashInv, ~overlapped, NEW p \in Poller, NEW h, NEW list, NEW todo, NEW heard,
           Continues(p, h, list, todo, heard), Keeps(p, h, list), Hears(p, h, todo, heard)
    PROVE  RamInv'
<1>. DEFINE r == poll[p].old_nodes
            old == h[r]
            new == Last(h)
<1>1. /\ TypeInv' /\ Last(lists') = new /\ UNCHANGED overlapped
      /\ \A q \in Poller \ {p} : poll'[q].pc = "idle" /\ poll'[q].reply = Waiting
      /\ old \in NodeList /\ new \in NodeList
      /\ \/ /\ todo # {} /\ poll'[p].pc = "heartbeats" /\ poll'[p].reply = Waiting
            /\ poll'[p].todo = todo
            /\ Bases' = {poll'[p].old_nodes} /\ lists'[poll'[p].old_nodes] = old
            /\ seen' = heard
         \/ /\ todo = {} /\ poll'[p].pc = "idle" /\ poll'[p].reply = Waiting
            /\ Bases' = {Len(lists')} /\ lists'[Len(lists')] = new
            /\ seen' = AfterAlerts(heard, Alerts(old, new))
  BY ContinueAlone
<1>2. \A n \in Node : Fits(heard[n], old[n], new[n], n \in todo) /\ heard[n] \in Seen
  BY HeardFits DEF Continues
<1>3. \A q \in Poller : poll'[q].pc # "heartbeats" => poll'[q].todo = {}
  BY <1>1 DEF TypeInv, RefsAreRight
<1>. HIDE DEF old, new
<1>4. CASE /\ todo # {} /\ poll'[p].pc = "heartbeats" /\ poll'[p].reply = Waiting
           /\ poll'[p].todo = todo
           /\ Bases' = {poll'[p].old_nodes} /\ lists'[poll'[p].old_nodes] = old
           /\ seen' = heard
  <2>1. \A n \in Node : Past(n)' <=> n \notin todo
    BY <1>1, <1>4 DEF Past
  <2>2. ASSUME NEW q \in Poller, NEW n \in poll'[q].todo PROVE q = p
    BY <1>1, <1>3, <2>2
  <2>. QED
    BY <1>1, <1>2, <1>4, <2>1, <2>2 DEF RamInv, Fits
<1>5. CASE /\ todo = {} /\ poll'[p].pc = "idle" /\ poll'[p].reply = Waiting
           /\ Bases' = {Len(lists')} /\ lists'[Len(lists')] = new
           /\ seen' = AfterAlerts(heard, Alerts(old, new))
  <2>1. \A q \in Poller : poll'[q].pc = "idle" /\ poll'[q].reply = Waiting /\ poll'[q].todo = {}
    BY <1>1, <1>3, <1>5
  <2>2. \A n \in Node : ~Past(n)'
    BY <2>1 DEF Past
  <2>3. ASSUME NEW n \in Node
        PROVE  /\ seen'[n] \notin {"wrong", "crossed"}
               /\ seen'[n] # "unknown" => new[n].status # "absent"
               /\ new[n].high => seen'[n] \notin {"unknown", "low"}
               /\ Told(seen'[n]) => new[n].high /\ new[n].status # "absent"
               /\ seen'[n] = "low" => ~new[n].high /\ new[n].status # "absent"
    <3>1. seen'[n] = IF About(n, "ram") \in Alerts(old, new) THEN Tell(heard[n]) ELSE heard[n]
      BY <1>5 DEF AfterAlerts
    <3>2. /\ old[n] \in Entry /\ new[n] \in Entry
          /\ Fits(heard[n], old[n], new[n], FALSE) /\ heard[n] \in Seen
      <4>1. old[n] \in Entry /\ new[n] \in Entry
        BY <1>1 DEF NodeList
      <4>2. n \notin todo
        BY <1>5
      <4>. QED
        BY <1>2, <4>1, <4>2 DEF Fits
    <3>3. About(n, "ram") \in Alerts(old, new) <=>
              /\ new[n].status # "absent" /\ old[n].status # "absent"
              /\ ~old[n].high /\ new[n].high
      BY <1>1, <3>2, AlertsAre, WhatAlertsSay DEF Listed
    <3>4. CASE About(n, "ram") \in Alerts(old, new)
      <4>1. heard[n] \in {"high", "crossed", "lapsed"}
        BY <3>2, <3>3, <3>4 DEF Told, Seen, Fits
      <4>2. seen'[n] \in {"told", "again"}
        BY <3>1, <3>4, <4>1 DEF Tell
      <4>. QED
        BY <3>3, <3>4, <4>2
    <3>5. CASE About(n, "ram") \notin Alerts(old, new)
      BY <3>1, <3>2, <3>3, <3>5 DEF Fits
    <3>. QED
      BY <3>4, <3>5
  <2>. QED
    BY <1>1, <1>5, <2>1, <2>2, <2>3 DEF RamInv
<1>. QED
  BY <1>1, <1>4, <1>5

LEMMA NodesArriveKeeps ==
    ASSUME DashInv, ~overlapped, NEW p \in Poller, NodesArrive(p)
    PROVE  (AloneInv /\ LiveInv /\ WordInv /\ RamInv)'
<1>. DEFINE new == poll[p].reply.nodes
            h == Append(lists, new)
            r == poll[p].old_nodes
<1>1. /\ TypeInv' /\ Last(lists') = new /\ new \in NodeList
      /\ Len(h) = Len(lists) + 1 /\ \A s \in 1 .. Len(lists) : h[s] = lists[s]
      /\ poll'[p].pc = "status" /\ poll'[p].reply = Waiting
      /\ \A q \in Poller :
            /\ q # p => poll'[q].pc = poll[q].pc /\ poll'[q].reply = poll[q].reply
            /\ Moved(h, poll[q].old_nodes, poll'[q].old_nodes)
            /\ Moved(h, poll[q].list, poll'[q].list)
  BY NodesArriveEffect DEF DashInv
<1>. HIDE DEF h, new
<1>2. /\ RefsAreRight(poll, Len(lists)) /\ poll[p].pc = "nodes" /\ poll[p].reply # Waiting
      /\ UNCHANGED <<status, alerts, overlapped, seen>>
  BY DEF DashInv, TypeInv, NodesArrive
<1>3. r \in 1 .. Len(lists) /\ r # None
  BY <1>2 DEF RefsAreRight, None
<1>4. \A q \in Poller \ {p} : poll[q].pc = "idle" /\ poll[q].reply = Waiting
  BY <1>2 DEF DashInv, AloneInv, UnderWay, RefsAreRight
<1>5. Bases = {r} /\ Bases' = {poll'[p].old_nodes} /\ lists'[poll'[p].old_nodes] = lists[r]
  BY <1>1, <1>2, <1>3, <1>4 DEF Bases, UnderWay, Moved
<1>6. AloneInv'
  BY <1>1, <1>4 DEF AloneInv, UnderWay
<1>7. \A n \in Node : /\ Later(lists[r][n].status, new[n].status)
                      /\ Later(new[n].status, status[n])
  BY <1>2, <1>5 DEF DashInv, LiveInv, Later, new
<1>8. LiveInv'
  BY <1>1, <1>2, <1>4, <1>5, <1>7 DEF LiveInv
<1>9. WordInv'
  BY <1>2, <1>5 DEF DashInv, WordInv, Said
<1>10. \A n \in Node : ~new[n].high /\ (Last(lists)[n].status # "absent" => new[n].status # "absent")
  BY <1>2 DEF DashInv, RamInv, LiveInv, Later, new
<1>12. \A q \in Poller : poll[q].pc # "heartbeats" /\ poll'[q].pc # "heartbeats"
  BY <1>1, <1>2, <1>4
<1>13. \A q \in Poller : poll'[q].todo = {}
  BY <1>1, <1>12 DEF TypeInv, RefsAreRight
<1>11. RamInv'
  BY <1>1, <1>2, <1>4, <1>5, <1>10, <1>12, <1>13 DEF DashInv, RamInv, Past
<1>. QED
  BY <1>6, <1>8, <1>9, <1>11

LEMMA PollKeeps ==
    ASSUME DashInv, NEW p \in Poller, Poll(p), ~overlapped'
    PROVE  (AloneInv /\ LiveInv /\ WordInv /\ RamInv)'
<1>1. /\ UNCHANGED <<status, lists, alerts, seen>>
      /\ poll'[p].pc = "nodes" /\ poll'[p].reply = Waiting /\ poll'[p].old_nodes = Len(lists)
      /\ \A q \in Poller \ {p} : poll'[q] = poll[q]
      /\ ~overlapped /\ \A q \in Poller : poll[q].pc = "idle"
  BY PollEffect DEF DashInv, UnderWay, Kept
<1>2. Bases = {Len(lists)} /\ Bases' = {Len(lists)}
  BY <1>1 DEF Bases, UnderWay
<1>3. AloneInv'
  BY <1>1 DEF AloneInv, UnderWay
<1>4. LiveInv'
  BY <1>1, <1>2 DEF DashInv, LiveInv
<1>5. WordInv'
  BY <1>1, <1>2 DEF DashInv, WordInv, Said
<1>6. \A q \in Poller : /\ poll[q].pc # "heartbeats" /\ poll'[q].pc # "heartbeats"
                         /\ poll'[q].todo = {} /\ poll'[q].reply = Waiting
  <2>1. TypeInv'
    BY PollEffect DEF DashInv
  <2>. QED
    BY <1>1, <2>1 DEF DashInv, TypeInv, RefsAreRight
<1>7. RamInv'
  BY <1>1, <1>2, <1>6 DEF DashInv, RamInv, Past
<1>. QED
  BY <1>3, <1>4, <1>5, <1>7

LEMMA ReplyKeeps ==
    ASSUME DashInv, ~overlapped, NEW p \in Poller, Serve(p) \/ NodesFail(p)
    PROVE  (AloneInv /\ LiveInv /\ WordInv /\ RamInv)'
<1>. DEFINE new == [n \in Node |-> [status |-> status[n], high |-> FALSE]]
<1>1. /\ UNCHANGED <<status, lists, alerts, overlapped, seen>>
      /\ poll'[p].old_nodes = poll[p].old_nodes /\ poll'[p].list = poll[p].list
      /\ \/ poll'[p].pc = "nodes" /\ poll'[p].reply = [nodes |-> new]
         \/ poll'[p].pc = "status" /\ poll'[p].reply = Waiting
      /\ \A q \in Poller \ {p} : poll'[q] = poll[q]
  BY ReplyEffect DEF DashInv
<1>2. poll[p].pc = "nodes"
  BY DEF Serve, NodesFail
<1>3. \A q \in Poller : poll'[q].old_nodes = poll[q].old_nodes /\ (UnderWay(q)' <=> UnderWay(q))
  BY <1>1, <1>2 DEF UnderWay
<1>4. Bases' = Bases
  BY <1>1, <1>3 DEF Bases
<1>5. AloneInv'
  BY <1>1, <1>3 DEF DashInv, AloneInv
<1>6. \A n \in Node : new[n].status = status[n] /\ ~new[n].high
  OBVIOUS
<1>. HIDE DEF new
<1>7. \A q \in Poller : poll'[q].reply # Waiting =>
          poll'[q] = poll[q] \/ poll'[q].reply.nodes = new
  BY <1>1
<1>8. LiveInv'
  BY <1>1, <1>4, <1>6, <1>7 DEF DashInv, LiveInv, Later
<1>9. WordInv'
  BY <1>1, <1>4 DEF DashInv, WordInv, Said
<1>10. \A q \in Poller : poll'[q].pc = "heartbeats" => poll'[q] = poll[q]
  BY <1>1
<1>12. \A q \in Poller : poll'[q].todo = poll[q].todo
                          /\ (poll'[q].pc = "heartbeats" <=> poll[q].pc = "heartbeats")
  <2>1. TypeInv' /\ TypeInv
    BY ReplyEffect DEF DashInv
  <2>. QED
    BY <1>1, <1>2, <2>1 DEF TypeInv, RefsAreRight
<1>13. \A n \in Node : Past(n)' <=> Past(n)
  BY <1>12 DEF Past
<1>11. RamInv'
  BY <1>1, <1>4, <1>6, <1>7, <1>12, <1>13 DEF DashInv, RamInv
<1>. QED
  BY <1>5, <1>8, <1>9, <1>11

LEMMA DashInit == Init => DashInv
<1>. SUFFICES ASSUME Init PROVE AloneInv /\ LiveInv /\ WordInv /\ RamInv
  BY TypeInit DEF DashInv
<1>1. /\ \A p \in Poller : poll[p].pc = "idle" /\ poll[p].reply = Waiting /\ poll[p].todo = {}
      /\ Len(lists) = 1 /\ lists[1] = [n \in Node |-> Unlisted] /\ Last(lists) = lists[1]
      /\ alerts = <<>> /\ \A n \in Node : seen[n] = "unknown"
  BY DEF Init, Idle, Last
<1>2. \A n \in Node : lists[1][n].status = "absent" /\ ~lists[1][n].high
  BY <1>1 DEF Unlisted
<1>3. Bases = {1}
  BY <1>1 DEF Bases, UnderWay
<1>. QED
  BY <1>1, <1>2, <1>3 DEF AloneInv, LiveInv, WordInv, RamInv, Past, UnderWay, Live, Later, Told, Said

LEMMA DashStep == DashInv /\ [Next]_vars => DashInv'
<1>. SUFFICES ASSUME DashInv, [Next]_vars, ~overlapped'
              PROVE  (AloneInv /\ LiveInv /\ WordInv /\ RamInv)'
  BY TypeStep DEF DashInv, AloneInv, LiveInv, WordInv, RamInv
<1>1. CASE StatusChanges
  <2>1. UNCHANGED <<lists, alerts, poll, overlapped, seen>> /\ UNCHANGED Bases
    BY <1>1 DEF StatusChanges, dashVars, Bases, UnderWay
  <2>2. \A n \in Node : Later(status[n], status'[n])
    BY <1>1 DEF StatusChanges, Table!Next, Table!Change, Table!Edges, Live, Later
  <2>3. LiveInv'
    BY <2>1, <2>2 DEF DashInv, LiveInv, Later
  <2>. QED
    BY <2>1, <2>3 DEF DashInv, AloneInv, WordInv, RamInv, Past, UnderWay, Said
<1>2. CASE ClearAlerts
  <2>1. UNCHANGED <<status, lists, poll, overlapped, seen>> /\ UNCHANGED Bases /\ alerts' = <<>>
    BY <1>2 DEF ClearAlerts, Bases, UnderWay
  <2>. QED
    BY <2>1 DEF DashInv, AloneInv, LiveInv, WordInv, RamInv, Past, UnderWay, Said
<1>3. ASSUME NEW p \in Poller, Poll(p) PROVE (AloneInv /\ LiveInv /\ WordInv /\ RamInv)'
  BY <1>3, PollKeeps
<1>4. ASSUME NEW p \in Poller, Serve(p) \/ NodesFail(p)
      PROVE  (AloneInv /\ LiveInv /\ WordInv /\ RamInv)'
  <2>1. ~overlapped
    BY <1>4 DEF Serve, NodesFail
  <2>. QED
    BY <1>4, <2>1, ReplyKeeps
<1>5. ASSUME NEW p \in Poller, NodesArrive(p)
      PROVE  (AloneInv /\ LiveInv /\ WordInv /\ RamInv)'
  <2>1. ~overlapped
    BY <1>5 DEF NodesArrive
  <2>. QED
    BY <1>5, <2>1, NodesArriveKeeps
<1>6. ASSUME NEW p \in Poller, StatusOver(p) \/ HeartbeatsArrive(p) \/ HeartbeatsFail(p)
      PROVE  (AloneInv /\ LiveInv /\ WordInv /\ RamInv)'
  <2>1. PICK h, list, todo, heard :
            Continues(p, h, list, todo, heard) /\ Keeps(p, h, list) /\ Hears(p, h, todo, heard)
    BY <1>6, OverContinues DEF DashInv
  <2>2. ~overlapped
    BY <2>1 DEF Continues
  <2>. QED
    BY <2>1, <2>2, ContinueKeeps, RamContinues
<1>7. CASE UNCHANGED vars
  <2>1. UNCHANGED <<status, lists, alerts, poll, overlapped, seen>> /\ UNCHANGED Bases
    BY <1>7 DEF vars, dashVars, Bases, UnderWay
  <2>. QED
    BY <2>1 DEF DashInv, AloneInv, LiveInv, WordInv, RamInv, Past, UnderWay, Said
<1>. QED
  BY <1>1, <1>2, <1>3, <1>4, <1>5, <1>6, <1>7 DEF Next, Over

\* The latest alert about a node's status that is kept agrees with the status shown:
\* between two polls, what will be compared next is what is shown (generate_alerts).
THEOREM LastWords == Spec => []LastWordIsRight
<1>1. DashInv => LastWordIsRight
  <2>. SUFFICES ASSUME DashInv, ~overlapped, \A p \in Poller : ~UnderWay(p),
                       NEW n \in Node, NEW i \in Said(n), \A j \in Said(n) : j <= i
                PROVE  alerts[i].kind = mesh_nodes[n].status
    BY DEF LastWordIsRight
  <2>1. Bases = {Len(lists)}
    BY DEF Bases
  <2>. QED
    BY <2>1 DEF DashInv, WordInv, mesh_nodes, Last
<1>. QED
  BY <1>1, DashInit, DashStep, PTL DEF Spec

\* An alert about a node's RAM is due, however many alerts are kept (generate_alerts
\* over the snapshots of _poll_data): what a poll will compare was high if it was told.
THEOREM AlertsAreDue == Spec => []RamAlertsAreDue
<1>1. DashInv => RamAlertsAreDue
  BY DEF DashInv, RamInv, RamAlertsAreDue
<1>. QED
  BY <1>1, DashInit, DashStep, PTL DEF Spec

\* A crossing that a poll met has its alert when the poll is over (generate_alerts over the
\* snapshots of _poll_data): what the poll compares it with was low.
THEOREM NoneIsMissed == Spec => []CrossingsAreTold
<1>1. DashInv => CrossingsAreTold
  BY DEF DashInv, RamInv, Past, UnderWay, CrossingsAreTold
<1>. QED
  BY <1>1, DashInit, DashStep, PTL DEF Spec

=============================================================================
