------------------------------ MODULE ElectHub ------------------------------
(***************************************************************************)
(* The pure part of election.py: the capability that elect computes from   *)
(* a row of the nodes table, and elect_hub.                                *)
(*                                                                         *)
(* A capability is a float with two decimals; it is counted in hundredths. *)
(* Ids and names are only compared, and are numbers here.  elect_hub is a  *)
(* relation between the list and the winner: TLC checks on every list of a *)
(* bounded table, and Election_proofs in general, that it is a function.   *)
(***************************************************************************)
EXTENDS Integers, Sequences

CONSTANT
    Short   \* the capabilities h for which the float product h * 1.2 is less
            \* than 6h/5, so that a challenger at exactly 20% more exceeds it

ASSUME ShortAssumption == Short \subseteq Nat \ {0}

Least(a, b) == IF a < b THEN a ELSE b

\* round(): to the nearest, a tie to the even neighbour.
Round(num, den) ==
    LET q == num \div den
        r == num % den
    IN IF 2 * r > den \/ (2 * r = den /\ q % 2 = 1) THEN q + 1 ELSE q

\* min(ram / 8192, 1.0) * 40 + min(storage / 500, 1.0) * 20, in hundredths.
Capability(ram, storage) ==
    Round(125 * Least(ram, 8192) + 1024 * Least(storage, 500), 256)

-----------------------------------------------------------------------------
(* A list of nodes is a sequence of records [id, name, cap, hub]. *)

NoId == 0

Members(s) == {s[i] : i \in DOMAIN s}

\* The order of the sort key (-capability, name, id).
Before(a, b) ==
    \/ a.cap > b.cap
    \/ a.cap = b.cap /\ a.name < b.name
    \/ a.cap = b.cap /\ a.name = b.name /\ a.id <= b.id

IsTop(s, top) == top \in Members(s) /\ \A x \in Members(s) : Before(top, x)

\* hub_id: the argument, or the first node of the list flagged is_hub.
HubId(s, current) ==
    IF current # NoId THEN current
    ELSE IF \E i \in DOMAIN s : s[i].hub
         THEN s[CHOOSE i \in DOMAIN s :
                    s[i].hub /\ \A j \in DOMAIN s : s[j].hub => i <= j].id
         ELSE NoId

\* (mutant) top >= hub * (1 + 0.20).
AtLeast(top, hub) == 5 * top >= 6 * hub

\* top > hub * (1 + 0.20) in floating point.
Exceeds(top, hub) == 5 * top > 6 * hub \/ (5 * top = 6 * hub /\ hub \in Short)

\* elect_hub may return w.
Wins(s, current, w) ==
    \E top \in Members(s) :
        /\ IsTop(s, top)
        /\ \/ /\ \A x \in Members(s) : x.id # HubId(s, current) \/ x.id = top.id
              /\ w = top.id
           \/ \E hub \in Members(s) :
                  /\ hub.id = HubId(s, current) /\ hub.id # top.id
                  /\ w = IF Exceeds(top.cap, hub.cap) THEN top.id ELSE hub.id
=============================================================================
