---------------------------- MODULE MCActorVisit ----------------------------
(* Small automata and instances of ActorVisit for TLC. *)
EXTENDS ActorVisit, TLC

CONSTANTS bob, alice, S0, S1, S2, S3, S4, req, bye, ans

Both     == {bob, alice}
OnlyBob  == {bob}
Nobody   == {}
Vertices == {S0, S1, S2, S3, S4}
Words    == {req, bye, ans}

T(n, to, in, out) ==
    [name |-> n, kind |-> "Transition", to |-> to, prob |-> 10, input |-> in,
     outputs |-> out, preset |-> FALSE, inverse |-> FALSE, drawn |-> out]

Op(n, k, to, p) ==
    [name |-> n, kind |-> k, to |-> to, prob |-> p, input |-> Empty,
     outputs |-> {Empty}, preset |-> FALSE, inverse |-> FALSE, drawn |-> {Empty}]

\* A session: open, login, any number of requests, quit, close.
Session ==
    S0 :> <<Op("open", "Open", S1, 100)>> @@
    S1 :> <<T("login", S2, req, {ans})>> @@
    S2 :> <<T("get", S1, req, {ans}), T("quit", S3, bye, {ans, bye})>> @@
    S3 :> <<Op("close", "Close", S4, 5)>> @@
    S4 :> <<>>
SessionOfBoth == [x \in Actors |-> Session]

\* The theorems about sessions hold of this one.
ASSUME SessionIsClientServer == Automaton = SessionOfBoth => ClientsAsk

\* The automaton of the documentation's examples: one exchange in a loop, with
\* a closing transition beside it; a notice of the other side and a wait.
Loop ==
    S0 :> <<Op("open", "Open", S1, 100)>> @@
    S1 :> <<[T("hello", S2, req, {ans}) EXCEPT !.preset = TRUE],
            T("idle", S3, Empty, {Empty}), Op("close", "Close", S4, 5)>> @@
    S2 :> <<[T("notice", S1, bye, {Empty}) EXCEPT !.inverse = TRUE],
            [T("hello2", S1, req, {ans}) EXCEPT !.drawn = {}]>> @@
    S3 :> <<[T("alarm", S3, bye, {ans}) EXCEPT !.prob = 100],
            [T("alert", S1, req, {Empty}) EXCEPT !.prob = 100]>> @@
    S4 :> <<Op("reopen", "Open", S1, 100), Op("close2", "Close", S4, 5)>>

\* Bob alone initiates: he asks, or tells without waiting for an answer.
Client ==
    S0 :> <<Op("open", "Open", S1, 100)>> @@
    S1 :> <<[T("hello", S2, req, {ans}) EXCEPT !.preset = TRUE],
            T("idle", S3, Empty, {Empty}), Op("close", "Close", S4, 5)>> @@
    S2 :> <<T("notice", S1, bye, {Empty})>> @@
    S3 :> <<T("hello2", S1, req, {ans})>> @@
    S4 :> <<Op("reopen", "Open", S1, 100), Op("close2", "Close", S4, 5)>>
ClientAndLoop == [x \in Actors |-> IF x = bob THEN Client ELSE Loop]

AllNames  == {"open", "login", "get", "quit", "close", "hello", "idle", "notice",
              "hello2", "alarm", "alert", "reopen", "close2"}
SomeNames == AllNames \ {"idle", "alert"}

StartAtS0 == [x \in Actors |-> S0]
Opposite  == bob :> alice @@ alice :> bob
Alone     == [x \in Actors |-> x]
Unaimed   == [x \in Actors |-> NoState]
BobFive   == [x \in Actors |-> IF x = bob THEN 5 ELSE 0]
AllFour   == [x \in Actors |-> 4]
AllFaults == {"oserror", "exception"}
Strange   == {req, bye, ans, Unknown, Empty}
=============================================================================
