----------------------------- MODULE MCElection -----------------------------
(* An instance of Election for TLC. *)
EXTENDS Election

\* 75, 90 and 108 hundredths, each 20% more than the one before.  The float product
\* 0.75 * 1.2 is 0.8999999999999999, and 0.9 * 1.2 is 1.08.
SmallSpecs == {[ram |-> 153, storage |-> 0], [ram |-> 184, storage |-> 0],
               [ram |-> 221, storage |-> 0]}
SameName == [n \in Node |-> IF n = 1 THEN 2 ELSE 1]
ShortOfTwo == {75}
TwoLocals == [t \in Task |-> t]
=============================================================================
