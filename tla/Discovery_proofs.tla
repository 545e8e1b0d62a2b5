-------------------------- MODULE Discovery_proofs --------------------------
(***************************************************************************)
(* Proofs about Discovery, for any peers, timeouts and interval that the   *)
(* assumption admits, whether or not cancellations are dropped.            *)
(***************************************************************************)
EXTENDS Discovery, TLAPS

\* Every action of Next, one named alternative for each.
LEMMA NextCases ==
    ASSUME Next
    PROVE  \/ Start \/ Stop \/ StopReturns
           \/ StatusReady \/ ScanFails \/ Wake \/ LoopCancelled
           \/ \E online \in SUBSET Peer : Scan(online)
           \/ \E b \in probes : Answer(b) \/ Identified(b) \/ ProbeFails(b) \/ ProbeCancelled(b)
           \/ \E b \in probes, data \in Data : Register(b, data)
           \/ \E p \in Peer : MarkPeerOffline(p) \/ PeerChanges(p)
           \/ Tick
BY DEF Next

-----------------------------------------------------------------------------
(* Types *)

LEMMA TypeInit == Init => TypeOK
<1>. USE DiscoveryAssumption
<1>. SUFFICES ASSUME Init PROVE TypeOK
  OBVIOUS
<1>1. loop \in Loop
  BY DEF Init, NoLoop, LoopAt, Loop
<1>2. peers \in [Peer -> [version : 0 .. None, status : {"absent", "online", "offline"}]]
  BY DEF Init, None
<1>3. version \in [Peer -> 0 .. MaxVersion]
  BY DEF Init
<1>4. probes \in SUBSET Probe /\ tracked \in SUBSET probes
  BY DEF Init
<1>. QED
  BY <1>1, <1>2, <1>3, <1>4 DEF Init, TypeOK

LEMMA TypeStep == TypeOK /\ [Next]_vars => TypeOK'
<1>. USE DiscoveryAssumption
<1>. SUFFICES ASSUME TypeOK, [Next]_vars PROVE TypeOK'
  OBVIOUS
<1>. USE DEF TypeOK
<1>0. /\ \A at \in {"none", "scan", "sleep"} : LoopAt(at) \in Loop
      /\ \A p \in Peer : NewProbe(p) \in Probe
  BY DEF LoopAt, NewProbe, ProbeAt, Loop, Probe, None
<1>1. CASE Start
  BY <1>0, <1>1 DEF Start
<1>2. CASE Stop
  <2>1. \A b \in probes : Cancelled(b) \in Probe
    BY DEF Cancelled, Probe
  <2>2. CancelLoop \in Loop
    BY DEF CancelLoop, Loop
  <2>. QED
    BY <1>2, <2>1, <2>2 DEF Stop
<1>3. CASE StopReturns
  BY <1>3 DEF StopReturns
<1>4. CASE StatusReady
  BY <1>4 DEF StatusReady, Loop
<1>5. CASE ScanFails \/ Wake \/ LoopCancelled
  BY <1>0, <1>5 DEF ScanFails, Wake, LoopCancelled, NoLoop
<1>6. ASSUME NEW online \in SUBSET Peer, Scan(online) PROVE TypeOK'
  BY <1>0, <1>6 DEF Scan
<1>7. ASSUME NEW b \in probes, Answer(b) PROVE TypeOK'
  <2>1. [b EXCEPT !.got = version[b.peer]] \in Probe
    BY DEF Probe, None
  <2>. QED
    BY <1>7, <2>1 DEF Answer, Becomes
<1>8. ASSUME NEW b \in probes, Identified(b) PROVE TypeOK'
  <2>1. ProbeAt(b.peer, "probe", b.cancel) \in Probe
    BY DEF ProbeAt, Probe, None
  <2>. QED
    BY <1>8, <2>1 DEF Identified, Becomes
<1>9. ASSUME NEW b \in probes, ProbeFails(b) \/ ProbeCancelled(b) PROVE TypeOK'
  BY <1>9 DEF ProbeFails, ProbeCancelled, Becomes
<1>10. ASSUME NEW b \in probes, NEW data \in Data, Register(b, data) PROVE TypeOK'
  <2>1. b.got \in 0 .. None
    BY DEF Probe
  <2>. QED
    BY <1>10, <2>1 DEF Register, Becomes
<1>11. ASSUME NEW p \in Peer, MarkPeerOffline(p) \/ PeerChanges(p) PROVE TypeOK'
  BY <1>11 DEF MarkPeerOffline, PeerChanges
<1>12. CASE Tick
  <2>1. \A b \in probes : [b EXCEPT !.for = @ + 1] \in Probe
    BY <1>12 DEF Tick, MayWait, Probe
  <2>3. loop' \in Loop
    BY <1>12 DEF Tick, Loop
  <2>. QED
    BY <1>12, <2>1, <2>3 DEF Tick
<1>13. CASE UNCHANGED vars
  BY <1>13 DEF vars
<1>. QED
  BY <1>1, <1>2, <1>3, <1>4, <1>5, <1>6, <1>7, <1>8, <1>9, <1>10, <1>11, <1>12,
     <1>13, NextCases

\* The types are invariant.
THEOREM TypeCorrect == Spec => []TypeOK
BY TypeInit, TypeStep, PTL DEF Spec

-----------------------------------------------------------------------------
(* The probes that nobody cancelled are those of the last scan *)

Free(b) == b.cancel = "no"

\* The time since a probe was started, as far as its state tells.
YoungerThan(b, t) ==
    /\ b.at = "identity" => t <= b.for
    /\ b.at = "probe" => t <= Timeout + b.for

\* While the loop sleeps they were started when it went to sleep, and it sleeps for
\* longer than a probe takes: in every other place of the loop there is none.  stop
\* finds them all in _probe_tasks.
ScanInv ==
    /\ \A b \in probes : Free(b) => b \in tracked
    /\ owner = "stopped" => loop.at = "none"
    /\ loop.at # "sleep" \/ loop.cancelled => \A b \in probes : ~Free(b)
    /\ loop.at = "sleep" => \A b \in probes : Free(b) => YoungerThan(b, loop.for)

LEMMA ScanInvInit == Init => ScanInv
BY DEF Init, ScanInv, NoLoop, LoopAt

\* What a probe does by itself keeps the invariant.
LEMMA ScanInvBecomes ==
    ASSUME TypeOK, ScanInv, NEW b \in probes, NEW S, Becomes(b, S), UNCHANGED <<owner, loop>>,
           \A c \in S : Free(c) => Free(b) /\ \A t \in Nat : YoungerThan(b, t) => YoungerThan(c, t)
    PROVE  ScanInv'
<1>1. loop.for \in Nat
  BY DiscoveryAssumption DEF TypeOK, Loop
<1>. QED
  BY <1>1 DEF ScanInv, Becomes

LEMMA ScanInvStep == TypeOK /\ ScanInv /\ [Next]_vars => ScanInv'
<1>. USE DiscoveryAssumption
<1>. SUFFICES ASSUME TypeOK, ScanInv, [Next]_vars PROVE ScanInv'
  OBVIOUS
<1>1. CASE Start
  BY <1>1 DEF Start, ScanInv, LoopAt
<1>2. CASE Stop
  <2>1. \A b \in probes' : ~Free(b)
    BY <1>2 DEF Stop, Cancelled, Free, ScanInv, TypeOK, Probe
  <2>2. owner' = "stopping"
    BY <1>2 DEF Stop
  <2>. QED
    BY <2>1, <2>2 DEF ScanInv
<1>3. CASE StopReturns
  BY <1>3 DEF StopReturns, ScanInv
<1>4. CASE StatusReady
  BY <1>4 DEF StatusReady, ScanInv, TypeOK, Loop
<1>5. CASE ScanFails
  BY <1>5 DEF ScanFails, ScanInv, LoopAt
<1>6. CASE Wake
  <2>1. \A b \in probes : ~Free(b)
    BY <1>6 DEF Wake, ScanInv, YoungerThan, TypeOK, Probe
  <2>2. owner \in {"running", "stopping"}
    BY <1>6 DEF Wake, ScanInv, TypeOK
  <2>. QED
    BY <1>6, <2>1, <2>2 DEF Wake, ScanInv, NoLoop, LoopAt
<1>7. CASE LoopCancelled
  BY <1>7 DEF LoopCancelled, ScanInv, NoLoop, LoopAt
<1>8. ASSUME NEW online \in SUBSET Peer, Scan(online) PROVE ScanInv'
  <2>1. \A b \in probes' : Free(b) => /\ b \in tracked'
                                      /\ YoungerThan(b, 0)
    BY <1>8 DEF Scan, ScanInv, NewProbe, ProbeAt, YoungerThan, TypeOK, Probe
  <2>2. loop' = [at |-> "sleep", for |-> 0, ready |-> FALSE, cancelled |-> FALSE]
    BY <1>8 DEF Scan, LoopAt
  <2>3. owner' # "stopped"
    BY <1>8 DEF Scan, ScanInv
  <2>. QED
    BY <2>1, <2>2, <2>3 DEF ScanInv
<1>9. ASSUME NEW b \in probes, Answer(b) PROVE ScanInv'
  BY <1>9, ScanInvBecomes DEF Answer, Free, YoungerThan, TypeOK, Probe
<1>10. ASSUME NEW b \in probes, Identified(b) PROVE ScanInv'
  <2>1. \A t \in Nat : YoungerThan(b, t) => t <= Timeout
    BY <1>10 DEF Identified, YoungerThan, TypeOK, Probe
  <2>2. \A t \in Nat : YoungerThan(b, t) =>
            YoungerThan(ProbeAt(b.peer, "probe", b.cancel), t)
    BY <2>1 DEF YoungerThan, ProbeAt
  <2>3. Free(ProbeAt(b.peer, "probe", b.cancel)) <=> Free(b)
    BY DEF Free, ProbeAt
  <2>4. /\ Becomes(b, {ProbeAt(b.peer, "probe", b.cancel)})
        /\ UNCHANGED <<owner, loop>>
    BY <1>10 DEF Identified
  <2>. QED
    BY <2>2, <2>3, <2>4, ScanInvBecomes
<1>11. ASSUME NEW b \in probes, ProbeFails(b) \/ ProbeCancelled(b) PROVE ScanInv'
  BY <1>11, ScanInvBecomes DEF ProbeFails, ProbeCancelled
<1>12. ASSUME NEW b \in probes, NEW data \in Data, Register(b, data) PROVE ScanInv'
  BY <1>12, ScanInvBecomes DEF Register
<1>13. ASSUME NEW p \in Peer, MarkPeerOffline(p) \/ PeerChanges(p) PROVE ScanInv'
  BY <1>13 DEF MarkPeerOffline, PeerChanges, ScanInv
<1>14. CASE Tick
  <2>1. \A b \in probes : /\ Free([b EXCEPT !.for = @ + 1]) <=> Free(b)
                          /\ \A t \in Nat : YoungerThan(b, t) =>
                                YoungerThan([b EXCEPT !.for = @ + 1], t + 1)
    BY DEF Free, YoungerThan, TypeOK, Probe
  <2>2. /\ loop.for \in Nat /\ ~loop.cancelled /\ UNCHANGED owner
        /\ loop' = IF loop.at = "none" THEN loop ELSE [loop EXCEPT !.for = @ + 1]
    BY <1>14 DEF Tick, TypeOK, Loop
  <2>3. loop'.at = loop.at /\ loop'.cancelled = loop.cancelled
        /\ (loop.at = "sleep" => loop'.for = loop.for + 1)
    BY <2>2 DEF TypeOK, Loop
  <2>4. probes' = {[b EXCEPT !.for = @ + 1] : b \in probes}
        /\ tracked' = {[b EXCEPT !.for = @ + 1] : b \in tracked}
    BY <1>14 DEF Tick
  <2>. QED
    BY <2>1, <2>2, <2>3, <2>4 DEF ScanInv
<1>15. CASE UNCHANGED vars
  BY <1>15 DEF vars, ScanInv
<1>. QED
  BY <1>1, <1>2, <1>3, <1>4, <1>5, <1>6, <1>7, <1>8, <1>9, <1>10, <1>11, <1>12,
     <1>13, <1>14, <1>15, NextCases

\* Once stop has returned, only probes whose cancellation was dropped go on.
THEOREM StopQuiets == Spec => []QuietWhenStopped
<1>1. ScanInv => QuietWhenStopped
  BY DEF ScanInv, QuietWhenStopped, Free
<1>. QED
  BY <1>1, TypeInit, TypeStep, ScanInvInit, ScanInvStep, PTL DEF Spec

-----------------------------------------------------------------------------
(* The order of answers *)

\* At most one probe of a peer may still record what it got, and what it got is at
\* least as new as the record: nobody else has written it since.
OrderInv ==
    /\ \A p \in Peer : peers[p].version <= version[p]
    /\ \A b \in probes : b.got # None => b.got <= version[b.peer]
    /\ \A b, c \in probes : Free(b) /\ Free(c) /\ b.peer = c.peer => b = c
    /\ ~dropped => \A b \in probes : b.cancel # "swallowed"
    /\ ~dropped => \A b \in probes : Free(b) /\ b.got # None => peers[b.peer].version <= b.got

LEMMA OrderInvInit == Init => OrderInv
BY DiscoveryAssumption DEF Init, OrderInv

LEMMA OrderInvStep == TypeOK /\ ScanInv /\ OrderInv /\ [Next]_vars => OrderInv'
<1>. USE DiscoveryAssumption
<1>. SUFFICES ASSUME TypeOK, ScanInv, OrderInv, [Next]_vars PROVE OrderInv'
  OBVIOUS
<1>1. CASE Start \/ StopReturns \/ StatusReady \/ ScanFails \/ Wake \/ LoopCancelled
  <2>1. UNCHANGED <<probes, peers, version, dropped>>
    BY <1>1 DEF Start, StopReturns, StatusReady, ScanFails, Wake, LoopCancelled
  <2>. QED
    BY <2>1 DEF OrderInv
<1>2. CASE Stop
  <2>1. \A b \in probes : ~Free(Cancelled(b)) /\ Cancelled(b).got = b.got /\ Cancelled(b).peer = b.peer
    BY DEF Cancelled, Free, ScanInv, TypeOK, Probe
  <2>2. /\ probes' = {Cancelled(b) : b \in probes}
        /\ dropped' = (dropped \/ \E b \in probes' : b.cancel = "swallowed")
        /\ UNCHANGED <<peers, version>>
    BY <1>2 DEF Stop
  <2>3. \A b \in probes' : ~Free(b) /\ (b.got # None => b.got <= version[b.peer])
    BY <2>1, <2>2 DEF OrderInv
  <2>4. ~dropped' => \A b \in probes' : b.cancel # "swallowed"
    BY <2>2
  <2>. QED
    BY <2>2, <2>3, <2>4 DEF OrderInv
<1>3. ASSUME NEW online \in SUBSET Peer, Scan(online) PROVE OrderInv'
  <2>1. \A b \in probes : ~Free(b)
    BY <1>3 DEF Scan, ScanInv
  <2>2. \A p \in online : /\ NewProbe(p).peer = p /\ NewProbe(p).got = None
                          /\ NewProbe(p).cancel = "no"
    BY DEF NewProbe, ProbeAt
  <2>3. probes' = probes \cup {NewProbe(p) : p \in online}
        /\ UNCHANGED <<peers, version, dropped>>
    BY <1>3 DEF Scan
  <2>. QED
    BY <2>1, <2>2, <2>3 DEF OrderInv, Free
<1>4. ASSUME NEW b \in probes, Answer(b) PROVE OrderInv'
  <2> DEFINE c == [b EXCEPT !.got = version[b.peer]]
  <2>1. c.peer = b.peer /\ c.cancel = b.cancel /\ c.got = version[b.peer]
        /\ b.peer \in Peer /\ version[b.peer] \in Nat /\ peers[b.peer].version <= version[b.peer]
    BY DEF TypeOK, Probe, OrderInv
  <2>2. probes' = (probes \ {b}) \cup {c} /\ UNCHANGED <<peers, version, dropped>>
    BY <1>4 DEF Answer, Becomes
  <2> HIDE DEF c
  <2>. QED
    BY <2>1, <2>2 DEF OrderInv, Free
<1>5. ASSUME NEW b \in probes, Identified(b) PROVE OrderInv'
  <2> DEFINE c == ProbeAt(b.peer, "probe", b.cancel)
  <2>1. c.peer = b.peer /\ c.cancel = b.cancel /\ c.got = None
    BY DEF ProbeAt
  <2>2. probes' = (probes \ {b}) \cup {c} /\ UNCHANGED <<peers, version, dropped>>
    BY <1>5 DEF Identified, Becomes
  <2> HIDE DEF c
  <2>. QED
    BY <2>1, <2>2 DEF OrderInv, Free
<1>6. ASSUME NEW b \in probes, ProbeFails(b) \/ ProbeCancelled(b) PROVE OrderInv'
  BY <1>6 DEF ProbeFails, ProbeCancelled, Becomes, OrderInv
<1>7. ASSUME NEW b \in probes, NEW data \in Data, Register(b, data) PROVE OrderInv'
  <2>1. /\ b.peer \in Peer /\ b.got # None
        /\ probes' = probes \ {b} /\ UNCHANGED <<version, dropped>>
    BY <1>7 DEF Register, Becomes, TypeOK, Probe
  <2>2. CASE peers' = peers
    BY <2>1, <2>2 DEF OrderInv
  <2>3. CASE peers' = [peers EXCEPT ![b.peer] = [version |-> b.got, status |-> "online"]]
    <3>1. \A p \in Peer : peers'[p].version = IF p = b.peer THEN b.got ELSE peers[p].version
      BY <2>1, <2>3 DEF TypeOK
    <3>2. ~dropped => Free(b)
      BY <1>7 DEF Register, OrderInv, Free, TypeOK, Probe
    <3>3. ~dropped => \A c \in probes' : Free(c) => c.peer # b.peer
      BY <2>1, <3>2 DEF OrderInv
    <3>4. \A c \in probes : c.peer \in Peer
      BY DEF TypeOK, Probe
    <3>. QED
      BY <2>1, <3>1, <3>3, <3>4 DEF OrderInv
  <2>. QED
    BY <1>7, <2>2, <2>3 DEF Register
<1>8. ASSUME NEW p \in Peer, MarkPeerOffline(p) PROVE OrderInv'
  <2>1. \A q \in Peer : peers'[q].version = peers[q].version
    BY <1>8 DEF MarkPeerOffline, TypeOK
  <2>2. \A c \in probes : c.peer \in Peer
    BY DEF TypeOK, Probe
  <2>. QED
    BY <1>8, <2>1, <2>2 DEF MarkPeerOffline, OrderInv
<1>9. ASSUME NEW p \in Peer, PeerChanges(p) PROVE OrderInv'
  <2>1. \A q \in Peer : /\ version[q] \in Nat /\ version'[q] \in Nat /\ version'[q] >= version[q]
                        /\ peers[q].version \in Nat
    BY <1>9 DEF PeerChanges, TypeOK, None
  <2>2. \A c \in probes : c.peer \in Peer /\ c.got \in Nat
    BY DEF TypeOK, Probe, None
  <2>. QED
    BY <1>9, <2>1, <2>2 DEF PeerChanges, OrderInv
<1>10. CASE Tick
  <2>1. \A b \in probes : LET c == [b EXCEPT !.for = @ + 1] IN
            c.peer = b.peer /\ c.cancel = b.cancel /\ c.got = b.got
    BY DEF TypeOK, Probe
  <2>2. probes' = {[b EXCEPT !.for = @ + 1] : b \in probes} /\ UNCHANGED <<peers, version, dropped>>
    BY <1>10 DEF Tick
  <2>3. \A c \in probes' : \E b \in probes : /\ c = [b EXCEPT !.for = @ + 1]
                                            /\ c.peer = b.peer /\ c.cancel = b.cancel /\ c.got = b.got
    BY <2>1, <2>2
  <2>4. \A b, c \in probes' : Free(b) /\ Free(c) /\ b.peer = c.peer => b = c
    BY <2>3 DEF OrderInv, Free
  <2>. QED
    BY <2>2, <2>3, <2>4 DEF OrderInv, Free
<1>11. CASE UNCHANGED vars
  BY <1>11 DEF vars, OrderInv
<1>. QED
  BY <1>1, <1>2, <1>3, <1>4, <1>5, <1>6, <1>7, <1>8, <1>9, <1>10, <1>11, NextCases

\* A record is never replaced by older data.
THEOREM RecordsGrow == Spec => AnswersInOrder
<1>1. ASSUME TypeOK, ScanInv, OrderInv, [Next]_vars, ~dropped, NEW p \in Peer
      PROVE  peers'[p].version >= peers[p].version
  <2>0. peers[p].version \in Nat
    BY <1>1, DiscoveryAssumption DEF TypeOK, None
  <2>1. ASSUME NEW b \in probes, NEW data \in Data, Register(b, data)
        PROVE  peers'[p].version >= peers[p].version
    <3>1. b.peer \in Peer /\ b.got \in Nat /\ b.cancel = "no" /\ b.got # None
      BY <1>1, <2>1, DiscoveryAssumption DEF Register, OrderInv, TypeOK, Probe, None
    <3>2. peers[b.peer].version <= b.got
      BY <1>1, <3>1 DEF OrderInv, Free
    <3>. QED
      BY <1>1, <2>0, <2>1, <3>1, <3>2 DEF Register, TypeOK
  <2>2. ASSUME NEW q \in Peer, MarkPeerOffline(q)
        PROVE  peers'[p].version >= peers[p].version
    BY <1>1, <2>0, <2>2 DEF MarkPeerOffline, TypeOK
  <2>3. CASE UNCHANGED peers
    BY <2>0, <2>3
  <2>4. \/ UNCHANGED peers
        \/ \E b \in probes, data \in Data : Register(b, data)
        \/ \E q \in Peer : MarkPeerOffline(q)
    BY <1>1, NextCases DEF vars, Start, Stop, StopReturns, StatusReady, ScanFails, Wake,
       LoopCancelled, Scan, Answer, Identified, ProbeFails, ProbeCancelled, PeerChanges, Tick
  <2>. QED
    BY <2>1, <2>2, <2>3, <2>4
<1>2. TypeOK /\ ScanInv /\ OrderInv /\ [Next]_vars
        => [~dropped => \A p \in Peer : peers'[p].version >= peers[p].version]_vars
  BY <1>1
<1>. QED
  BY <1>2, TypeInit, TypeStep, ScanInvInit, ScanInvStep, OrderInvInit, OrderInvStep, PTL
     DEF Spec, AnswersInOrder
=============================================================================
