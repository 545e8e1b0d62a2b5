----------------------------- MODULE MCLinking -----------------------------
(* An instance of Linking for TLC: two redemptions of one code, from two *)
(* addresses, and two creators.                                          *)
EXTENDS Linking, TLC

CONSTANTS t1, t2, i1, i2, n1, c1, a1, g1, g2, b1, b2

Asks == t1 :> [code |-> c1, ip |-> i1, node |-> n1]
     @@ t2 :> [code |-> c1, ip |-> i2, node |-> n1]
Accounts == c1 :> a1
NewAccounts == g1 :> b1 @@ g2 :> b2
=============================================================================
