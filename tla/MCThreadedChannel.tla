-------------------------- MODULE MCThreadedChannel --------------------------
(* Small instances of ThreadedChannel for TLC. *)
EXTENDS ThreadedChannel

CONSTANTS a, b

Pair == {a, b}

\* Alice and Bob of the documentation: each layer wants one packet that the
\* other one does not want, and one packet is wanted by both.
OneEach        == [l \in Layers |-> IF l = a THEN {1, 2} \cap (1..MaxIn)
                                             ELSE {2, 3} \cap (1..MaxIn)]

SocketFaults == {"write", "read"}

SendFaults == {"permission", "write"}
NoFaults  == {}
OnlyA     == {a}
Once      == [l \in Layers |-> 1]
TwiceA    == [l \in Layers |-> IF l = a THEN 2 ELSE 1]
=============================================================================
