------------------------------ MODULE MCWk2xxx ------------------------------
(***************************************************************************)
(* Instances of Wk2xxx for TLC.                                            *)
(***************************************************************************)
EXTENDS Wk2xxx

OnePort  == {1}
TwoPorts == {1, 2}

\* How often each port does something.
Never  == [p \in Ports |-> 0]
Once   == [p \in Ports |-> 1]
Thrice == [p \in Ports |-> 3]

\* One port is written twice, the other one only sends XON/XOFF.
First  == [p \in Ports |-> IF p = 1 THEN 2 ELSE 0]
Second == [p \in Ports |-> IF p = 2 THEN 1 ELSE 0]
=============================================================================
