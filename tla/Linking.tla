------------------------------ MODULE Linking ------------------------------
(***************************************************************************)
(* Device linking (linking.py): the redemption of link codes, limited in   *)
(* rate by a count of recent attempts, and the account id that the local   *)
(* node makes for itself.                                                  *)
(*                                                                         *)
(* The limit is checked in one MeshDB.transaction(), every later statement *)
(* commits by itself.  transaction() is a deferred SQLite transaction on a *)
(* database file: its first SELECT takes a SHARED lock and keeps it, its   *)
(* INSERT needs the one RESERVED lock and raises at once when another      *)
(* connection has it, and its COMMIT waits for the other SHARED locks to   *)
(* go.  (":memory:", which the tests use, has one connection for all and   *)
(* is not modelled.)  Time is abstracted: codes expire and attempts leave  *)
(* their 15 minutes at any moment.                                         *)
(***************************************************************************)
EXTENDS Naturals, FiniteSets

CONSTANTS
    Task,       \* the calls of redeem_link_code
    Creator,    \* the calls of get_or_create_account_id
    Code,
    Ip,
    Node,       \* the node ids that codes are redeemed for
    Ask,        \* the arguments of each redemption: code, ip and node
    AccountOf,  \* the account of each code
    NewAccount, \* the account id that each creator would make
    PerIp,      \* MAX_LINK_ATTEMPTS_PER_15MIN
    Global,     \* MAX_GLOBAL_LINK_ATTEMPTS_PER_15MIN
    NoAccount,  \* no row, or an empty account_id
    NoTask

Account == {AccountOf[c] : c \in Code} \cup {NewAccount[g] : g \in Creator}

ASSUME LinkingAssumption ==
    /\ Ask \in [Task -> [code : Code, ip : Ip, node : Node]]
    /\ PerIp \in Nat /\ Global \in Nat
    /\ NoAccount \notin Account /\ NoTask \notin Task

VARIABLES
    link_codes,     \* the state of each code's row
    cleaning,       \* generate_link_code calls between their two statements
    link_attempts,  \* the committed attempts of each ip in the last 15 minutes
    settings,       \* the value of mesh_account_id, or NoAccount
    account_id,     \* nodes.account_id of each node
    readers,        \* the transactions with a SHARED lock
    reserved,       \* the one with the RESERVED lock, or NoTask
    pc,             \* where each redemption is
    creator, got    \* where each creator is, and what it returned

tables == <<link_codes, link_attempts, settings, account_id>>
locks  == <<readers, reserved>>
vars   == <<tables, cleaning, locks, pc, creator, got>>

Checking == {"global", "insert", "commit"}
Writing  == {"delete", "settings", "update", "create", "node"}
Finished == {"none", "linked", "raised"}

TypeOK ==
    /\ link_codes \in [Code -> {"new", "live", "expired", "deleted"}]
    /\ cleaning \in SUBSET Code
    /\ link_attempts \in [Ip -> Nat]
    /\ settings \in Account \cup {NoAccount}
    /\ account_id \in [Node -> Account \cup {NoAccount}]
    /\ readers \in SUBSET Task
    /\ reserved \in Task \cup {NoTask}
    /\ pc \in [Task -> {"idle", "lookup"} \cup Checking \cup Writing \cup Finished]
    /\ creator \in [Creator -> {"idle", "create", "done", "raised"}]
    /\ got \in [Creator -> Account \cup {NoAccount}]

Init ==
    /\ link_codes = [c \in Code |-> "new"]
    /\ cleaning = {}
    /\ link_attempts = [ip \in Ip |-> 0]
    /\ settings = NoAccount
    /\ account_id = [n \in Node |-> NoAccount]
    /\ readers = {}
    /\ reserved = NoTask
    /\ pc = [t \in Task |-> "idle"]
    /\ creator = [g \in Creator |-> "idle"]
    /\ got = [g \in Creator |-> NoAccount]

Go(t, where) == pc' = [pc EXCEPT ![t] = where]

\* A statement that commits by itself waits until nobody else has a lock.
Unlocked == readers = {} /\ reserved = NoTask

-----------------------------------------------------------------------------
(* generate_link_code, and the passing of time *)

Generate(c) ==
    /\ link_codes[c] = "new" /\ Unlocked
    /\ link_codes' = [link_codes EXCEPT ![c] = "live"]
    /\ cleaning' = cleaning \cup {c}
    /\ UNCHANGED <<link_attempts, settings, account_id, locks, pc, creator, got>>

DeleteExpired(c) ==
    /\ c \in cleaning /\ Unlocked
    /\ link_codes' = [d \in Code |-> IF link_codes[d] = "expired" THEN "deleted"
                                     ELSE link_codes[d]]
    /\ cleaning' = cleaning \ {c}
    /\ UNCHANGED <<link_attempts, settings, account_id, locks, pc, creator, got>>

Expire(c) ==
    /\ link_codes[c] = "live"
    /\ link_codes' = [link_codes EXCEPT ![c] = "expired"]
    /\ UNCHANGED <<cleaning, link_attempts, settings, account_id, locks, pc, creator, got>>

AgeOut(ip) ==
    /\ link_attempts[ip] > 0
    /\ link_attempts' = [link_attempts EXCEPT ![ip] = @ - 1]
    /\ UNCHANGED <<link_codes, cleaning, settings, account_id, locks, pc, creator, got>>

-----------------------------------------------------------------------------
(* redeem_link_code: the transaction that checks the limits *)

\* The rows of link_attempts that count, the k-th of each ip.
Attempts == UNION {{ip} \X (1 .. link_attempts[ip]) : ip \in Ip}

Recent == Cardinality(Attempts)

\* (mutant) The SHARED lock goes with the statement.
NoShared(t) == readers

Shared(t) == readers \cup {t}

Release(t) ==
    /\ readers' = readers \ {t}
    /\ reserved' = IF reserved = t THEN NoTask ELSE reserved

CountIp(t) ==
    /\ pc[t] = "idle"
    /\ IF link_attempts[Ask[t].ip] >= PerIp
       THEN Go(t, "none") /\ UNCHANGED readers
       ELSE Go(t, "global") /\ readers' = Shared(t)
    /\ UNCHANGED <<tables, cleaning, reserved, creator, got>>

CountGlobal(t) ==
    /\ pc[t] = "global"
    /\ IF Recent >= Global
       THEN Go(t, "none") /\ Release(t)
       ELSE Go(t, "insert") /\ UNCHANGED locks
    /\ UNCHANGED <<tables, cleaning, creator, got>>

\* (mutant) The INSERT waits for the lock.
InsertWaits(t) ==
    /\ pc[t] = "insert" /\ reserved = NoTask
    /\ reserved' = t
    /\ Go(t, "commit")
    /\ UNCHANGED <<tables, cleaning, readers, creator, got>>

\* The lock is taken, or the INSERT raises: the except clause returns None.
InsertAttempt(t) ==
    /\ pc[t] = "insert"
    /\ IF reserved = NoTask
       THEN /\ reserved' = t
            /\ Go(t, "commit")
            /\ UNCHANGED readers
       ELSE Go(t, "none") /\ Release(t)
    /\ UNCHANGED <<tables, cleaning, creator, got>>

CommitAttempt(t) ==
    /\ pc[t] = "commit" /\ readers \subseteq {t}
    /\ link_attempts' = [link_attempts EXCEPT ![Ask[t].ip] = @ + 1]
    /\ Go(t, "lookup")
    /\ Release(t)
    /\ UNCHANGED <<link_codes, settings, account_id, cleaning, creator, got>>

\* A statement raises for another reason, COMMIT's busy timeout among them.
CheckFails(t) ==
    /\ pc[t] \in Checking
    /\ Go(t, "none")
    /\ Release(t)
    /\ UNCHANGED <<tables, cleaning, creator, got>>

(* redeem_link_code: the redemption, statement by statement *)

Lookup(t) ==
    /\ pc[t] = "lookup"
    /\ Go(t, IF link_codes[Ask[t].code] = "live" THEN "delete" ELSE "none")
    /\ UNCHANGED <<tables, cleaning, locks, creator, got>>

\* (mutant) The row is left for generate_link_code to clean up.
KeepCode(t) ==
    /\ pc[t] = "delete" /\ Unlocked
    /\ Go(t, "settings")
    /\ UNCHANGED <<tables, cleaning, locks, creator, got>>

\* Deletes what is there by now: another redemption may have been first.
DeleteCode(t) ==
    /\ pc[t] = "delete" /\ Unlocked
    /\ link_codes' = [link_codes EXCEPT ![Ask[t].code] = "deleted"]
    /\ Go(t, "settings")
    /\ UNCHANGED <<link_attempts, settings, account_id, cleaning, locks, creator, got>>

ReadSettings(t) ==
    /\ pc[t] = "settings"
    /\ Go(t, IF settings = NoAccount THEN "create" ELSE "update")
    /\ UNCHANGED <<tables, cleaning, locks, creator, got>>

UpdateSettings(t) ==
    /\ pc[t] = "update" /\ Unlocked
    /\ settings' = AccountOf[Ask[t].code]
    /\ Go(t, "node")
    /\ UNCHANGED <<link_codes, link_attempts, account_id, cleaning, locks, creator, got>>

\* The key may be there by now: the INSERT raises, and so does the call.
CreateSettings(t) ==
    /\ pc[t] = "create" /\ Unlocked
    /\ IF settings = NoAccount
       THEN settings' = AccountOf[Ask[t].code] /\ Go(t, "node")
       ELSE Go(t, "raised") /\ UNCHANGED settings
    /\ UNCHANGED <<link_codes, link_attempts, account_id, cleaning, locks, creator, got>>

LinkNode(t) ==
    /\ pc[t] = "node" /\ Unlocked
    /\ account_id' = [account_id EXCEPT ![Ask[t].node] = AccountOf[Ask[t].code]]
    /\ Go(t, "linked")
    /\ UNCHANGED <<link_codes, link_attempts, settings, cleaning, locks, creator, got>>

\* A statement raises, or the process ends: nothing is undone.
RedeemFails(t) ==
    /\ pc[t] \in Writing \cup {"lookup"}
    /\ Go(t, "raised")
    /\ UNCHANGED <<tables, cleaning, locks, creator, got>>

-----------------------------------------------------------------------------
(* get_or_create_account_id *)

Get(g) ==
    /\ creator[g] = "idle"
    /\ got' = [got EXCEPT ![g] = settings]
    /\ creator' = [creator EXCEPT ![g] = IF settings = NoAccount THEN "create" ELSE "done"]
    /\ UNCHANGED <<tables, cleaning, locks, pc>>

\* (mutant) INSERT OR REPLACE.
Replace(g) ==
    /\ creator[g] = "create" /\ Unlocked
    /\ settings' = NewAccount[g]
    /\ got' = [got EXCEPT ![g] = NewAccount[g]]
    /\ creator' = [creator EXCEPT ![g] = "done"]
    /\ UNCHANGED <<link_codes, link_attempts, account_id, cleaning, locks, pc>>

Create(g) ==
    /\ creator[g] = "create" /\ Unlocked
    /\ IF settings = NoAccount
       THEN /\ settings' = NewAccount[g]
            /\ got' = [got EXCEPT ![g] = NewAccount[g]]
            /\ creator' = [creator EXCEPT ![g] = "done"]
       ELSE creator' = [creator EXCEPT ![g] = "raised"] /\ UNCHANGED <<settings, got>>
    /\ UNCHANGED <<link_codes, link_attempts, account_id, cleaning, locks, pc>>

-----------------------------------------------------------------------------
\* A call that returned None is made again.
Retry(t) ==
    /\ pc[t] = "none"
    /\ Go(t, "idle")
    /\ UNCHANGED <<tables, cleaning, locks, creator, got>>

RedeemStep(t) ==
    \/ CountGlobal(t) \/ InsertAttempt(t) \/ CommitAttempt(t)
    \/ Lookup(t) \/ DeleteCode(t)
    \/ ReadSettings(t) \/ UpdateSettings(t) \/ CreateSettings(t)
    \/ LinkNode(t)

Next ==
    \/ \E c \in Code : Generate(c) \/ DeleteExpired(c) \/ Expire(c)
    \/ \E ip \in Ip : AgeOut(ip)
    \/ \E t \in Task : CountIp(t) \/ RedeemStep(t) \/ CheckFails(t) \/ RedeemFails(t) \/ Retry(t)
    \/ \E g \in Creator : Get(g) \/ Create(g)

Spec == Init /\ [][Next]_vars

\* Each call goes on; a statement that waits for a lock polls for it, so that it
\* runs if the lock is free again and again.  (In the code it raises after 5 s.)
Fairness == \A t \in Task : SF_vars(RedeemStep(t))

LiveSpec == Spec /\ Fairness

-----------------------------------------------------------------------------
\* However many redemptions overlap, no more attempts than the limits allow are
\* let through in 15 minutes, of one ip and of all together.
RateLimited == /\ \A ip \in Ip : link_attempts[ip] <= PerIp
               /\ Recent <= Global

\* A lookup that comes after the DELETE of a redemption, ended or not, does not
\* find the code again (one that came before the DELETE may still succeed).
RedeemedIsGone ==
    [][\A t, u \in Task :
          pc[t] = "lookup" /\ pc'[t] = "delete" /\ Ask[u].code = Ask[t].code
            => pc[u] \notin {"settings", "update", "create", "node", "linked"}]_vars

\* The account ids that get_or_create_account_id returns are all one, until a
\* redemption replaces the account (one that raised may have done so before).
Replaced == {AccountOf[Ask[t].code] : t \in {u \in Task : pc[u] \in {"node", "linked", "raised"}}}

OneAccount ==
    \A g, h \in Creator :
        creator[g] = "done" /\ creator[h] = "done" /\ got[g] # got[h] =>
            got[g] \in Replaced \/ got[h] \in Replaced

\* No redemption hangs on a lock that another holds while it waits itself, even
\* if SQLite's busy timeout were not there to end the wait.
RedemptionEnds == \A t \in Task : pc[t] # "idle" ~> pc[t] \in Finished
=============================================================================
