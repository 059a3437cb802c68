--------------------------- MODULE MCMessageParsing --------------------------
(* Small symbols for TLC. *)
EXTENDS MessageParsing

CONSTANTS pad, id, end, head, mark, tail, note, gap, key, x, y

AllLeafs == {pad, id, end, head, mark, tail, note, gap, key}
TwoBytes == {x, y}

\* A padding, a session identifier and a delimiter; a mark and the session
\* identifier of another exchange, which may be missing; a remark, a gap and a
\* key that comes from the environment.
ThreeSymbols == << <<pad, id, end>>, <<head, mark, tail>>, <<note, gap, key>> >>

\* With and without the key.
WithKey == {[Nothing EXCEPT ![key] = k] : k \in {None, <<x>>}}

Scopes ==
    [v \in AllLeafs |-> CASE v \in {id, tail} -> "SESSION"
                          [] v \in {end, key} -> "CONSTANT"
                          [] v = note -> "MESSAGE"
                          [] OTHER -> "NONE"]
Shortest == [v \in AllLeafs |-> IF v \in {pad, tail, gap} THEN 0 ELSE 1]
Longest  == [v \in AllLeafs |-> IF v \in {note, gap} THEN 2 ELSE 1]
Accepted == [v \in AllLeafs |-> IF v = tail THEN {y} ELSE TwoBytes]
Fixed    == [v \in AllLeafs |-> IF v = end THEN <<x>>
                               ELSE IF v = mark THEN <<y>> ELSE None]
=============================================================================
