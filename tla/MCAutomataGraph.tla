--------------------------- MODULE MCAutomataGraph ---------------------------
(***************************************************************************)
(* Automata built by hand, when nothing was captured, and automata built   *)
(* from one session or from several, among them sessions with messages in  *)
(* disorder, at the same time, unknown, unanswered or of a third end.      *)
(***************************************************************************)
EXTENDS AutomataGraph

MCSymbols == <<"a", "b">>
M(time, src, dst, data) == [time |-> time, src |-> src, dst |-> dst, data |-> data]
Ask(time, data) == M(time, "cli", "srv", data)
Answer(time, data) == M(time, "srv", "cli", data)

Data == {"a", "b", "unknown"}
Pairs(x, y) == <<Ask(1, x), Answer(2, y)>>
Conversation(x, y, z) == Pairs(x, y) \o <<Ask(3, z), Answer(4, y)>>

(* A session of three messages, by time, in reverse and all at once.       *)
Singles ==
  {<<M(t1, "cli", "srv", x), M(2, "srv", "cli", y), M(t3, s3, IF s3 = "cli" THEN "srv" ELSE "cli", z)>> :
     t1 \in {1, 2, 3}, t3 \in {1, 2, 3}, s3 \in {"cli", "srv"}, x \in Data, y \in Data, z \in {"a", "b"}}

Strangers == {<<Ask(1, "a"), M(2, "eve", "cli", "b"), Answer(3, "b")>>}

Talks == {Pairs("a", "a"), Pairs("a", "b"), Conversation("a", "b", "b"),
          Conversation("a", "a", "b"), <<Ask(1, "b"), Ask(2, "a"), Answer(3, "a")>>}

MCCaptures == {<<>>} \cup {<<s>> : s \in Singles \cup Strangers}
                     \cup {<<x, y, z>> : x \in Talks, y \in Talks, z \in Talks}
=============================================================================
