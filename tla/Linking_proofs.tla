---------------------------- MODULE Linking_proofs ----------------------------
(***************************************************************************)
(* Theorems about Linking, for any number of redemptions, creators, codes  *)
(* and addresses, and any limits.                                          *)
(***************************************************************************)
EXTENDS Linking, FiniteSetTheorems, TLAPS

\* The calls that touch no lock, nor the attempts.
Unguarded(t) ==
    \/ Lookup(t) \/ DeleteCode(t) \/ ReadSettings(t) \/ UpdateSettings(t)
    \/ CreateSettings(t) \/ LinkNode(t) \/ RedeemFails(t) \/ Retry(t)

LEMMA NextCases ==
    ASSUME Next
    PROVE  \/ \E c \in Code : Generate(c) \/ DeleteExpired(c) \/ Expire(c)
           \/ \E ip \in Ip : AgeOut(ip)
           \/ \E t \in Task : CountIp(t) \/ CountGlobal(t) \/ InsertAttempt(t)
                                \/ CommitAttempt(t) \/ CheckFails(t)
           \/ \E t \in Task : Unguarded(t)
           \/ \E g \in Creator : Get(g) \/ Create(g)
BY DEF Next, RedeemStep, Unguarded

-----------------------------------------------------------------------------
(* Types *)

LEMMA TypeStep == TypeOK /\ [Next]_vars => TypeOK'
<1>. USE LinkingAssumption DEF TypeOK
<1>. SUFFICES ASSUME TypeOK, [Next]_vars PROVE TypeOK'
  OBVIOUS
<1>1. ASSUME NEW c \in Code, Generate(c) \/ DeleteExpired(c) \/ Expire(c) PROVE TypeOK'
  BY <1>1 DEF Generate, DeleteExpired, Expire, locks
<1>2. ASSUME NEW ip \in Ip, AgeOut(ip) PROVE TypeOK'
  BY <1>2 DEF AgeOut, locks
<1>3. ASSUME NEW t \in Task,
             CountIp(t) \/ CountGlobal(t) \/ InsertAttempt(t) \/ CheckFails(t)
      PROVE  TypeOK'
  BY <1>3 DEF CountIp, CountGlobal, InsertAttempt, CheckFails, Go, Shared, Release, tables, locks,
              Checking, Finished
<1>4. ASSUME NEW t \in Task, CommitAttempt(t) PROVE TypeOK'
  BY <1>4 DEF CommitAttempt, Go, Release
<1>5. ASSUME NEW t \in Task, Unguarded(t) PROVE TypeOK'
  <2>. AccountOf[Ask[t].code] \in Account
    BY DEF Account
  <2>. QED
    BY <1>5 DEF Unguarded, Lookup, DeleteCode, ReadSettings, UpdateSettings, CreateSettings,
                LinkNode, RedeemFails, Retry, Go, tables, locks, Writing, Finished
<1>6. ASSUME NEW g \in Creator, Get(g) \/ Create(g) PROVE TypeOK'
  <2>. NewAccount[g] \in Account
    BY DEF Account
  <2>. QED
    BY <1>6 DEF Get, Create, tables, locks
<1>7. CASE UNCHANGED vars
  BY <1>7 DEF vars, tables, locks
<1>. QED
  BY <1>1, <1>2, <1>3, <1>4, <1>5, <1>6, <1>7, NextCases

\* The types of the tables, the locks and the calls are invariant (linking.py): an
\* account in the tables is that of a code, or one that a creator made.
THEOREM TypeCorrect == Spec => []TypeOK
<1>1. Init => TypeOK
  BY LinkingAssumption DEF Init, TypeOK
<1>. QED
  BY <1>1, TypeStep, PTL DEF Spec

-----------------------------------------------------------------------------
(* The locks *)

\* A call has the SHARED lock for as long as its transaction lasts, and the RESERVED
\* lock from its INSERT on.
LockInv ==
    /\ readers = {t \in Task : pc[t] \in Checking}
    /\ \A t \in Task : reserved = t <=> pc[t] = "commit"

LEMMA LockStep == TypeOK /\ LockInv /\ [Next]_vars => LockInv'
<1>. USE LinkingAssumption DEF TypeOK, LockInv, Checking
<1>. SUFFICES ASSUME TypeOK, LockInv, [Next]_vars PROVE LockInv'
  OBVIOUS
<1>1. CASE UNCHANGED <<locks, pc>>
  BY <1>1 DEF locks
<1>2. ASSUME NEW t \in Task, CountIp(t) PROVE LockInv'
  BY <1>2 DEF CountIp, Go, Shared
<1>3. ASSUME NEW t \in Task, CountGlobal(t) PROVE LockInv'
  BY <1>3 DEF CountGlobal, Go, Release, locks
<1>4. ASSUME NEW t \in Task, InsertAttempt(t) PROVE LockInv'
  BY <1>4 DEF InsertAttempt, Go, Release
<1>5. ASSUME NEW t \in Task, CommitAttempt(t) \/ CheckFails(t) PROVE LockInv'
  BY <1>5 DEF CommitAttempt, CheckFails, Go, Release
<1>6. ASSUME NEW t \in Task, Unguarded(t) PROVE LockInv'
  <2>1. /\ UNCHANGED locks
        /\ pc[t] \notin Checking
        /\ \E w : w \notin Checking /\ pc' = [pc EXCEPT ![t] = w]
    BY <1>6 DEF Unguarded, Lookup, DeleteCode, ReadSettings, UpdateSettings, CreateSettings,
                LinkNode, RedeemFails, Retry, Go, Writing
  <2>. QED
    BY <2>1 DEF locks
<1>7. ASSUME \/ \E c \in Code : Generate(c) \/ DeleteExpired(c) \/ Expire(c)
             \/ \E ip \in Ip : AgeOut(ip)
             \/ \E g \in Creator : Get(g) \/ Create(g)
             \/ UNCHANGED vars
      PROVE  UNCHANGED <<locks, pc>>
  BY <1>7 DEF Generate, DeleteExpired, Expire, AgeOut, Get, Create, vars
<1>. QED
  BY <1>1, <1>2, <1>3, <1>4, <1>5, <1>6, <1>7, NextCases

\* Only one transaction has written at a time (MeshDB.transaction).
THEOREM LocksAreKept == Spec => []LockInv
<1>1. Init => LockInv
  BY LinkingAssumption DEF Init, LockInv, Checking
<1>. QED
  BY <1>1, LockStep, TypeCorrect, PTL DEF Spec

-----------------------------------------------------------------------------
(* The limits *)

LEMMA OneMore ==
    ASSUME TypeOK, NEW ip \in Ip,
           link_attempts' = [link_attempts EXCEPT ![ip] = @ + 1]
    PROVE  Attempts' = Attempts \cup {<<ip, link_attempts[ip] + 1>>}
<1>1. \A i \in Ip : /\ link_attempts[i] \in Nat
                    /\ link_attempts'[i] = IF i = ip THEN link_attempts[i] + 1 ELSE link_attempts[i]
  BY DEF TypeOK
<1>2. \A i \in Ip : \A k : k \in 1 .. link_attempts'[i] <=>
          k \in 1 .. link_attempts[i] \/ (i = ip /\ k = link_attempts[ip] + 1)
  BY <1>1
<1>. QED
  BY <1>2 DEF Attempts

LEMMA OneLess ==
    ASSUME TypeOK, NEW ip \in Ip, link_attempts[ip] > 0,
           link_attempts' = [link_attempts EXCEPT ![ip] = @ - 1]
    PROVE  Attempts' = Attempts \ {<<ip, link_attempts[ip]>>}
<1>1. \A i \in Ip : /\ link_attempts[i] \in Nat
                    /\ link_attempts'[i] = IF i = ip THEN link_attempts[i] - 1 ELSE link_attempts[i]
  BY DEF TypeOK
<1>2. \A i \in Ip : \A k : k \in 1 .. link_attempts'[i] <=>
          k \in 1 .. link_attempts[i] /\ ~(i = ip /\ k = link_attempts[ip])
  BY <1>1
<1>. QED
  BY <1>2 DEF Attempts

\* A call that has counted keeps its SHARED lock, so that nobody else commits an
\* attempt before it has made its own: its counts hold until then.
LimitInv ==
    /\ IsFiniteSet(Attempts)
    /\ RateLimited
    /\ \A t \in Task : pc[t] \in Checking => link_attempts[Ask[t].ip] < PerIp
    /\ \A t \in Task : pc[t] \in {"insert", "commit"} => Recent < Global

LEMMA LimitStep == TypeOK /\ LockInv /\ LimitInv /\ [Next]_vars => LimitInv'
<1>. USE LinkingAssumption DEF TypeOK
<1>. SUFFICES ASSUME TypeOK, LockInv, LimitInv, [Next]_vars PROVE LimitInv'
  OBVIOUS
<1>0. Recent \in Nat
  BY FS_CardinalityType DEF LimitInv, Recent
<1>1. ASSUME UNCHANGED link_attempts,
             \A t \in Task : pc'[t] \in Checking =>
                 pc[t] \in Checking \/ link_attempts[Ask[t].ip] < PerIp,
             \A t \in Task : pc'[t] \in {"insert", "commit"} =>
                 pc[t] \in {"insert", "commit"} \/ Recent < Global
      PROVE  LimitInv'
  BY <1>1 DEF LimitInv, RateLimited, Recent, Attempts
<1>2. ASSUME NEW ip \in Ip, AgeOut(ip) PROVE LimitInv'
  <2>1. Attempts' = Attempts \ {<<ip, link_attempts[ip]>>}
    BY <1>2, OneLess DEF AgeOut
  <2>2. IsFiniteSet(Attempts') /\ Recent' <= Recent /\ Recent' \in Nat
    <3>. DEFINE x == <<ip, link_attempts[ip]>>
    <3>1. /\ IsFiniteSet(Attempts \ {x})
          /\ Cardinality(Attempts \ {x}) = IF x \in Attempts THEN Recent - 1 ELSE Recent
      BY FS_RemoveElement DEF LimitInv, Recent
    <3>2. Cardinality(Attempts \ {x}) \in Nat
      BY <3>1, FS_CardinalityType
    <3>. QED
      BY <1>0, <2>1, <3>1, <3>2 DEF Recent
  <2>3. \A i \in Ip : link_attempts'[i] \in Nat /\ link_attempts'[i] <= link_attempts[i]
    BY <1>2 DEF AgeOut
  <2>4. UNCHANGED pc
    BY <1>2 DEF AgeOut
  <2>. QED
    BY <1>0, <2>2, <2>3, <2>4 DEF LimitInv, RateLimited
<1>3. ASSUME NEW t \in Task, CommitAttempt(t) PROVE LimitInv'
  <2>. DEFINE ip == Ask[t].ip
  <2>1. Attempts' = Attempts \cup {<<ip, link_attempts[ip] + 1>>}
    BY <1>3, OneMore DEF CommitAttempt
  <2>2. IsFiniteSet(Attempts') /\ Recent' <= Recent + 1 /\ Recent' \in Nat
    <3>. DEFINE x == <<ip, link_attempts[ip] + 1>>
    <3>1. /\ IsFiniteSet(Attempts \cup {x})
          /\ Cardinality(Attempts \cup {x}) = IF x \in Attempts THEN Recent ELSE Recent + 1
      BY FS_AddElement DEF LimitInv, Recent
    <3>. HIDE DEF x
    <3>2. Attempts' = Attempts \cup {x}
      BY <2>1 DEF x
    <3>. QED
      BY <1>0, <3>1, <3>2 DEF Recent
  <2>3. link_attempts[ip] < PerIp /\ Recent < Global
    BY <1>3 DEF LimitInv, CommitAttempt, Checking
  <2>4. RateLimited'
    BY <1>0, <1>3, <2>2, <2>3 DEF LimitInv, RateLimited, CommitAttempt
  <2>5. \A u \in Task : pc'[u] \notin Checking
    BY <1>3 DEF CommitAttempt, LockInv, Go, Checking
  <2>. QED
    BY <2>2, <2>4, <2>5 DEF LimitInv, Checking
<1>4. ASSUME NEW t \in Task, CountIp(t) \/ CountGlobal(t) \/ InsertAttempt(t) \/ CheckFails(t)
      PROVE  LimitInv'
  BY <1>1, <1>4, <1>0 DEF CountIp, CountGlobal, InsertAttempt, CheckFails, Go, tables, Checking
<1>5. ASSUME NEW t \in Task, Unguarded(t) PROVE LimitInv'
  <2>1. /\ UNCHANGED link_attempts
        /\ \E w : w \notin Checking /\ pc' = [pc EXCEPT ![t] = w]
    BY <1>5 DEF Unguarded, Lookup, DeleteCode, ReadSettings, UpdateSettings, CreateSettings,
                LinkNode, RedeemFails, Retry, Go, tables, Checking
  <2>. QED
    BY <1>1, <2>1 DEF Checking
<1>6. ASSUME \/ \E c \in Code : Generate(c) \/ DeleteExpired(c) \/ Expire(c)
             \/ \E g \in Creator : Get(g) \/ Create(g)
             \/ UNCHANGED vars
      PROVE  LimitInv'
  <2>1. UNCHANGED <<link_attempts, pc>>
    BY <1>6 DEF Generate, DeleteExpired, Expire, Get, Create, vars, tables
  <2>. QED
    BY <1>1, <2>1
<1>. QED
  BY <1>2, <1>3, <1>4, <1>5, <1>6, NextCases

\* However many redemptions overlap, the limits of redeem_link_code are never
\* exceeded, of one ip or of all together.
THEOREM LimitsHold == Spec => []RateLimited
<1>1. Init => LimitInv
  <2>1. ASSUME Init PROVE Attempts = {}
    BY <2>1 DEF Init, Attempts
  <2>2. Init => IsFiniteSet(Attempts) /\ Recent = 0
    BY <2>1, FS_EmptySet DEF Recent
  <2>. QED
    BY <2>2, LinkingAssumption DEF Init, LimitInv, RateLimited, Checking
<1>2. LimitInv => RateLimited
  BY DEF LimitInv
<1>. QED
  BY <1>1, <1>2, LimitStep, LocksAreKept, TypeCorrect, PTL DEF Spec

-----------------------------------------------------------------------------
(* The codes *)

Redeeming == {"settings", "update", "create", "node", "linked"}

\* A row that a redemption has deleted stays so: a code is generated once.
CodeInv == \A t \in Task : pc[t] \in Redeeming => link_codes[Ask[t].code] = "deleted"

LEMMA CodeStep == TypeOK /\ CodeInv /\ [Next]_vars => CodeInv'
<1>. USE LinkingAssumption DEF TypeOK, Redeeming
<1>. SUFFICES ASSUME TypeOK, CodeInv, [Next]_vars PROVE CodeInv'
  OBVIOUS
<1>1. \A c \in Code : link_codes[c] = "deleted" => link_codes'[c] = "deleted"
  <2>1. ASSUME NEW c \in Code, Generate(c) \/ DeleteExpired(c) \/ Expire(c)
        PROVE  \A d \in Code : link_codes[d] = "deleted" => link_codes'[d] = "deleted"
    BY <2>1 DEF Generate, DeleteExpired, Expire
  <2>2. ASSUME NEW t \in Task, DeleteCode(t)
        PROVE  \A d \in Code : link_codes[d] = "deleted" => link_codes'[d] = "deleted"
    BY <2>2 DEF DeleteCode
  <2>3. ASSUME \/ \E ip \in Ip : AgeOut(ip)
               \/ \E t \in Task : CountIp(t) \/ CountGlobal(t) \/ InsertAttempt(t)
                                    \/ CommitAttempt(t) \/ CheckFails(t)
               \/ \E t \in Task : Unguarded(t) /\ ~DeleteCode(t)
               \/ \E g \in Creator : Get(g) \/ Create(g)
               \/ UNCHANGED vars
        PROVE  UNCHANGED link_codes
    BY <2>3 DEF AgeOut, CountIp, CountGlobal, InsertAttempt, CommitAttempt, CheckFails, Unguarded,
                Lookup, ReadSettings, UpdateSettings, CreateSettings, LinkNode,
                RedeemFails, Retry, Get, Create, vars, tables
  <2>. QED
    BY <2>1, <2>2, <2>3, NextCases
<1>2. \A t \in Task : pc'[t] \in Redeeming =>
          pc[t] \in Redeeming \/ link_codes'[Ask[t].code] = "deleted"
  <2>1. ASSUME NEW t \in Task, CountIp(t) \/ CountGlobal(t) \/ InsertAttempt(t)
                                 \/ CommitAttempt(t) \/ CheckFails(t)
        PROVE  \A u \in Task : pc'[u] \in Redeeming => pc[u] \in Redeeming
    BY <2>1 DEF CountIp, CountGlobal, InsertAttempt, CommitAttempt, CheckFails, Go
  <2>2. ASSUME NEW t \in Task, Unguarded(t)
        PROVE  \A u \in Task : pc'[u] \in Redeeming =>
                   pc[u] \in Redeeming \/ link_codes'[Ask[u].code] = "deleted"
    BY <2>2 DEF Unguarded, Lookup, DeleteCode, ReadSettings, UpdateSettings, CreateSettings,
                LinkNode, RedeemFails, Retry, Go
  <2>3. ASSUME \/ \E c \in Code : Generate(c) \/ DeleteExpired(c) \/ Expire(c)
               \/ \E ip \in Ip : AgeOut(ip)
               \/ \E g \in Creator : Get(g) \/ Create(g)
               \/ UNCHANGED vars
        PROVE  UNCHANGED pc
    BY <2>3 DEF Generate, DeleteExpired, Expire, AgeOut, Get, Create, vars
  <2>. QED
    BY <2>1, <2>2, <2>3, NextCases
<1>. QED
  BY <1>1, <1>2 DEF CodeInv

LEMMA OnlyLookupFinds ==
    ASSUME TypeOK, [Next]_vars, NEW t \in Task, pc[t] = "lookup", pc'[t] = "delete"
    PROVE  link_codes[Ask[t].code] = "live"
<1>. USE LinkingAssumption DEF TypeOK
<1>1. ASSUME NEW u \in Task, CountIp(u) \/ CountGlobal(u) \/ InsertAttempt(u)
                               \/ CommitAttempt(u) \/ CheckFails(u)
      PROVE  FALSE
  BY <1>1 DEF CountIp, CountGlobal, InsertAttempt, CommitAttempt, CheckFails, Go, Checking
<1>2. ASSUME NEW u \in Task, Unguarded(u) PROVE link_codes[Ask[t].code] = "live"
  BY <1>2 DEF Unguarded, Lookup, DeleteCode, ReadSettings, UpdateSettings, CreateSettings,
              LinkNode, RedeemFails, Retry, Go
<1>3. ASSUME \/ \E c \in Code : Generate(c) \/ DeleteExpired(c) \/ Expire(c)
             \/ \E ip \in Ip : AgeOut(ip)
             \/ \E g \in Creator : Get(g) \/ Create(g)
             \/ UNCHANGED vars
      PROVE  FALSE
  BY <1>3 DEF Generate, DeleteExpired, Expire, AgeOut, Get, Create, vars
<1>. QED
  BY <1>1, <1>2, <1>3, NextCases

\* A lookup that comes after the DELETE of a redemption does not find the code
\* again (redeem_link_code), however many calls overlap.
THEOREM CodesAreGone == Spec => RedeemedIsGone
<1>1. Init => CodeInv
  BY LinkingAssumption DEF Init, CodeInv, Redeeming
<1>2. ASSUME TypeOK, CodeInv, [Next]_vars
      PROVE  \A t, u \in Task :
                 pc[t] = "lookup" /\ pc'[t] = "delete" /\ Ask[u].code = Ask[t].code
                   => pc[u] \notin {"settings", "update", "create", "node", "linked"}
  BY <1>2, OnlyLookupFinds DEF CodeInv, Redeeming
<1>. QED
  BY <1>1, <1>2, CodeStep, TypeCorrect, PTL DEF Spec, RedeemedIsGone

-----------------------------------------------------------------------------
(* The account *)

\* What a creator returned is the account still, or a redemption has replaced it.
AccountInv ==
    /\ settings = NoAccount => \A g \in Creator : creator[g] # "done"
    /\ \A g \in Creator : creator[g] = "done" =>
          got[g] = settings \/ got[g] \in Replaced \/ settings \in Replaced
    /\ OneAccount

LEMMA ReplacedGrows == TypeOK /\ [Next]_vars => Replaced \subseteq Replaced'
<1>. USE LinkingAssumption DEF TypeOK
<1>. SUFFICES ASSUME TypeOK, [Next]_vars
              PROVE  \A t \in Task : pc[t] \in {"node", "linked", "raised"} =>
                                         pc'[t] \in {"node", "linked", "raised"}
  BY DEF Replaced
<1>1. ASSUME NEW t \in Task, CountIp(t) \/ CountGlobal(t) \/ InsertAttempt(t)
                               \/ CommitAttempt(t) \/ CheckFails(t)
      PROVE  \E w : pc[t] \notin {"node", "linked", "raised"} /\ pc' = [pc EXCEPT ![t] = w]
  BY <1>1 DEF CountIp, CountGlobal, InsertAttempt, CommitAttempt, CheckFails, Go, Checking
<1>2. ASSUME NEW t \in Task, Unguarded(t)
      PROVE  \E w : /\ pc' = [pc EXCEPT ![t] = w]
                    /\ pc[t] \notin {"node", "linked", "raised"} \/ w \in {"linked", "raised"}
  BY <1>2 DEF Unguarded, Lookup, DeleteCode, ReadSettings, UpdateSettings, CreateSettings,
              LinkNode, RedeemFails, Retry, Go, Writing
<1>3. ASSUME \/ \E c \in Code : Generate(c) \/ DeleteExpired(c) \/ Expire(c)
             \/ \E ip \in Ip : AgeOut(ip)
             \/ \E g \in Creator : Get(g) \/ Create(g)
             \/ UNCHANGED vars
      PROVE  UNCHANGED pc
  BY <1>3 DEF Generate, DeleteExpired, Expire, AgeOut, Get, Create, vars
<1>. QED
  BY <1>1, <1>2, <1>3, NextCases

LEMMA AccountStep == TypeOK /\ AccountInv /\ [Next]_vars => AccountInv'
<1>. USE LinkingAssumption DEF TypeOK
<1>. SUFFICES ASSUME TypeOK, AccountInv, [Next]_vars PROVE AccountInv'
  OBVIOUS
<1>0. Replaced \subseteq Replaced'
  BY ReplacedGrows
<1>1. ASSUME UNCHANGED <<settings, creator, got>> PROVE AccountInv'
  BY <1>0, <1>1 DEF AccountInv, OneAccount
<1>2. ASSUME NEW t \in Task, UpdateSettings(t) \/ CreateSettings(t) PROVE AccountInv'
  <2>1. CASE UNCHANGED settings
    BY <1>1, <1>2, <2>1 DEF UpdateSettings, CreateSettings
  <2>2. CASE settings' = AccountOf[Ask[t].code] /\ pc'[t] = "node"
    <3>1. settings' \in Replaced' /\ settings' # NoAccount
      BY <2>2 DEF Replaced, Account
    <3>2. UNCHANGED <<creator, got>>
      BY <1>2 DEF UpdateSettings, CreateSettings
    <3>. QED
      BY <1>0, <3>1, <3>2 DEF AccountInv, OneAccount
  <2>. QED
    BY <1>2, <2>1, <2>2 DEF UpdateSettings, CreateSettings, Go
<1>3. ASSUME NEW g \in Creator, Get(g) PROVE AccountInv'
  <2>1. /\ UNCHANGED settings
        /\ got' = [got EXCEPT ![g] = settings]
        /\ creator' = [creator EXCEPT ![g] = IF settings = NoAccount THEN "create" ELSE "done"]
    BY <1>3 DEF Get, tables
  <2>. QED
    BY <1>0, <2>1 DEF AccountInv, OneAccount
<1>4. ASSUME NEW g \in Creator, Create(g) PROVE AccountInv'
  <2>1. CASE settings = NoAccount
    <3>1. /\ settings' = NewAccount[g] /\ settings' # NoAccount
          /\ got' = [got EXCEPT ![g] = NewAccount[g]]
          /\ creator' = [creator EXCEPT ![g] = "done"]
      BY <1>4, <2>1 DEF Create, Account
    <3>2. \A h \in Creator : creator'[h] = "done" => h = g
      BY <2>1, <3>1 DEF AccountInv
    <3>. QED
      BY <3>1, <3>2 DEF AccountInv, OneAccount
  <2>2. CASE settings # NoAccount
    <3>1. /\ UNCHANGED <<settings, got>>
          /\ creator' = [creator EXCEPT ![g] = "raised"]
      BY <1>4, <2>2 DEF Create
    <3>. QED
      BY <1>0, <3>1 DEF AccountInv, OneAccount
  <2>. QED
    BY <2>1, <2>2
<1>5. ASSUME \/ \E c \in Code : Generate(c) \/ DeleteExpired(c) \/ Expire(c)
             \/ \E ip \in Ip : AgeOut(ip)
             \/ \E t \in Task : CountIp(t) \/ CountGlobal(t) \/ InsertAttempt(t)
                                  \/ CommitAttempt(t) \/ CheckFails(t)
             \/ \E t \in Task : Unguarded(t) /\ ~UpdateSettings(t) /\ ~CreateSettings(t)
             \/ UNCHANGED vars
      PROVE  UNCHANGED <<settings, creator, got>>
  BY <1>5 DEF Generate, DeleteExpired, Expire, AgeOut, CountIp, CountGlobal, InsertAttempt,
              CommitAttempt, CheckFails, Unguarded, Lookup, DeleteCode, ReadSettings, LinkNode,
              RedeemFails, Retry, vars, tables
<1>. QED
  BY <1>1, <1>2, <1>3, <1>4, <1>5, NextCases

\* Whoever asks get_or_create_account_id gets the same id, until a redemption
\* replaces the account; the second of two that insert one raises.
THEOREM AccountsAgree == Spec => []OneAccount
<1>1. Init => AccountInv
  BY DEF Init, AccountInv, OneAccount
<1>2. AccountInv => OneAccount
  BY DEF AccountInv
<1>. QED
  BY <1>1, <1>2, AccountStep, TypeCorrect, PTL DEF Spec
=============================================================================
