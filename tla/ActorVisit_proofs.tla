-------------------------- MODULE ActorVisit_proofs --------------------------
(***************************************************************************)
(* For any actors, automata, callbacks, networks and strangers: the limit  *)
(* on the transitions of a visit, and where an actor stands in its         *)
(* automaton (the active flags of the states and the types of all          *)
(* variables).                                                             *)
(***************************************************************************)
EXTENDS ActorVisit, WellFoundedInduction, TLAPS

\* Where an actor thread may still begin or continue a transition.
Running == {"loop", "pick", "exec", "recv", "await", "joining"}
Over    == {"exiting", "ended"}

\* VisitLimit is not inductive: the test of the limit is made at the end of the
\* transition before, so that it must hold at the head of the loop as well.
LimitInvariant ==
    /\ pc \in [Actors -> Running \cup Over]
    /\ count \in [Actors -> Nat]
    /\ \A a \in Actors :
          MaxTransitions[a] > 0 /\ pc[a] \in Running => count[a] < MaxTransitions[a]

\* A thread that runs on, or leaves, without finishing a transition: what every
\* step does to pc and count that does not end State.execute.
Moves(a) ==
    /\ count' = count
    /\ \E p \in Running \cup Over :
          /\ pc' = [pc EXCEPT ![a] = p]
          /\ p \in Running => pc[a] \in Running

-----------------------------------------------------------------------------

LEMMA MovesKeeps ==
    ASSUME LimitInvariant, NEW a \in Actors, Moves(a)
    PROVE  LimitInvariant'
BY DEF LimitInvariant, Moves

LEMMA FinishKeeps ==
    ASSUME LimitInvariant, NEW a \in Actors, NEW s, Finish(a, s)
    PROVE  LimitInvariant'
<1> DEFINE quits == s = NoState \/ s = Target[a]
<1>1. MaxTransitions[a] \in Nat
    BY VisitAssumption
<1>2. count' \in [Actors -> Nat]
    BY DEF LimitInvariant, Finish
<1>3. pc' \in [Actors -> Running \cup Over]
    BY DEF LimitInvariant, Finish, Running, Over
<1>4. ASSUME MaxTransitions[a] > 0, pc'[a] \in Running
      PROVE  count'[a] < MaxTransitions[a]
    <2>1. pc'[a] = IF quits \/ (MaxTransitions[a] > 0 /\ count'[a] >= MaxTransitions[a])
                   THEN "exiting" ELSE "loop"
        BY DEF LimitInvariant, Finish
    <2>2. ~(MaxTransitions[a] > 0 /\ count'[a] >= MaxTransitions[a])
        BY <2>1, <1>4 DEF Running
    <2>3. count'[a] \in Nat
        BY <1>2
    <2> QED
        BY <2>2, <2>3, <1>1, <1>4
<1>5. \A b \in Actors : b # a => pc'[b] = pc[b] /\ count'[b] = count[b]
    BY DEF LimitInvariant, Finish
<1> QED
    BY <1>2, <1>3, <1>4, <1>5 DEF LimitInvariant

\* An exception sends the thread to the exit of its loop.
LEMMA RaiseMoves ==
    ASSUME NEW a \in Actors, NEW r, Raise(a, r)
    PROVE  Moves(a)
BY DEF Raise, Moves, Over, Running

LEMMA ExecuteMoves ==
    ASSUME NEW a \in Actors, NEW t, NEW p, Execute(a, t, p), pc[a] \in Running
    PROVE  Moves(a)
BY DEF Execute, Moves, Over, Running

LEMMA ConcludeKeeps ==
    ASSUME LimitInvariant, NEW a \in Actors, NEW s, Conclude(a, s)
    PROVE  LimitInvariant'
<1>1. CASE Raise(a, TRUE)
    BY <1>1, RaiseMoves, MovesKeeps
<1>2. CASE Finish(a, s)
    BY <1>2, FinishKeeps
<1> QED
    BY <1>1, <1>2 DEF Conclude

LEMMA CompleteKeeps ==
    ASSUME LimitInvariant, NEW a \in Actors, Complete(a)
    PROVE  LimitInvariant'
BY ConcludeKeeps DEF Complete

LEMMA ReactKeeps ==
    ASSUME LimitInvariant, NEW a \in Actors, NEW t, React(a, t), pc[a] \in Running
    PROVE  LimitInvariant'
<1>1. PICK u \in Modified(a, t) :
          IF u # NoTransition
          THEN /\ cur' = [cur EXCEPT ![a] = u]
               /\ pc' = [pc EXCEPT ![a] = "exec"]
               /\ UNCHANGED <<state, via, stopEvent, count, active>>
          ELSE IF a \in Staying \ Modifying THEN Conclude(a, NoState)
                                           ELSE Raise(a, FALSE)
    BY DEF React
<1>2. CASE u # NoTransition
    <2>1. Moves(a)
        BY <1>1, <1>2 DEF Moves, Running, Over
    <2> QED
        BY <2>1, MovesKeeps
<1>3. CASE u = NoTransition /\ Conclude(a, NoState)
    BY <1>3, ConcludeKeeps
<1>4. CASE u = NoTransition /\ Raise(a, FALSE)
    BY <1>4, RaiseMoves, MovesKeeps
<1> QED
    BY <1>1, <1>2, <1>3, <1>4

LEMMA WriteFailsKeeps ==
    ASSUME LimitInvariant, NEW a \in Actors, pc[a] \in Running, WriteFails(a)
    PROVE  LimitInvariant'
<1>1. CASE Conclude(a, NoState)
    BY <1>1, ConcludeKeeps
<1>2. CASE Raise(a, via[a] = "initiator")
    BY <1>2, RaiseMoves, MovesKeeps
<1>3. CASE pc' = [pc EXCEPT ![a] = "joining"] /\ count' = count
    <2>1. Moves(a)
        BY <1>3 DEF Moves, Running, Over
    <2> QED
        BY <2>1, MovesKeeps
<1> QED
    BY <1>1, <1>2, <1>3 DEF WriteFails

LEMMA StopsReadingMoves ==
    ASSUME NEW a \in Actors, StopsReading(a)
    PROVE  Moves(a)
BY DEF StopsReading, Moves, Over, Running

-----------------------------------------------------------------------------
(* One lemma for each step of the actor thread that can finish a transition. *)

LEMMA PickKeeps ==
    ASSUME LimitInvariant, NEW a \in Actors, Pick(a)
    PROVE  LimitInvariant'
<1>1. pc[a] \in Running
    BY DEF Pick, Running
<1>2. CASE \E t, p : Execute(a, t, p)
    BY <1>1, <1>2, ExecuteMoves, MovesKeeps
<1>3. CASE Finish(a, NoState)
    BY <1>3, FinishKeeps
<1>4. (\E t, p : Execute(a, t, p)) \/ Finish(a, NoState)
    BY ZenonT(30) DEF Pick
<1> QED
    BY <1>2, <1>3, <1>4

LEMMA ExecOpenKeeps ==
    ASSUME LimitInvariant, NEW a \in Actors, ExecOpen(a)
    PROVE  LimitInvariant'
<1>1. CASE Raise(a, via[a] = "initiator")
    BY <1>1, RaiseMoves, MovesKeeps
<1>2. CASE Complete(a)
    BY <1>2, CompleteKeeps
<1> QED
    BY <1>1, <1>2 DEF ExecOpen

LEMMA ExecSendKeeps ==
    ASSUME LimitInvariant, NEW a \in Actors, ExecSend(a)
    PROVE  LimitInvariant'
<1>1. pc[a] \in Running
    BY DEF ExecSend, Running
<1>2. CASE Complete(a)
    BY <1>2, CompleteKeeps
<1>3. CASE WriteFails(a)
    BY <1>1, <1>3, WriteFailsKeeps
<1>4. CASE pc' = [pc EXCEPT ![a] = "recv"] /\ count' = count
    <2>1. Moves(a)
        BY <1>1, <1>4 DEF Moves, Running, Over
    <2> QED
        BY <2>1, MovesKeeps
<1> QED
    BY <1>2, <1>3, <1>4 DEF ExecSend

LEMMA ExecAnswerKeeps ==
    ASSUME LimitInvariant, NEW a \in Actors, ExecAnswer(a)
    PROVE  LimitInvariant'
<1>1. CASE Complete(a)
    BY <1>1, CompleteKeeps
<1>2. CASE WriteFails(a)
    BY <1>2, WriteFailsKeeps DEF ExecAnswer, Running
<1>3. CASE Raise(a, FALSE)
    BY <1>3, RaiseMoves, MovesKeeps
<1> QED
    BY <1>1, <1>2, <1>3 DEF ExecAnswer

LEMMA ReceiveAnswerKeeps ==
    ASSUME LimitInvariant, NEW a \in Actors, ReceiveAnswer(a)
    PROVE  LimitInvariant'
<1>1. CASE Complete(a)
    BY <1>1, CompleteKeeps
<1>2. CASE \E s : Conclude(a, s)
    BY <1>2, ConcludeKeeps
<1>3. CASE Raise(a, TRUE)
    BY <1>3, RaiseMoves, MovesKeeps
<1>4. CASE StopsReading(a)
    BY <1>4, StopsReadingMoves, MovesKeeps
<1> QED
    BY <1>1, <1>2, <1>3, <1>4 DEF ReceiveAnswer, ReadRaises

LEMMA ReceiveInputKeeps ==
    ASSUME LimitInvariant, NEW a \in Actors, ReceiveInput(a)
    PROVE  LimitInvariant'
<1>1. pc[a] \in Running
    BY DEF ReceiveInput, Running
<1>2. CASE \E t : React(a, t)
    BY <1>1, <1>2, ReactKeeps
<1>3. CASE Conclude(a, NoState)
    BY <1>3, ConcludeKeeps
<1>4. CASE StopsReading(a)
    BY <1>4, StopsReadingMoves, MovesKeeps
<1>5. CASE Finish(a, NoState)
    BY <1>5, FinishKeeps
<1>6. CASE Raise(a, TRUE)
    BY <1>6, RaiseMoves, MovesKeeps
<1> QED
    BY <1>2, <1>3, <1>4, <1>5, <1>6 DEF ReceiveInput, ReadRaises

-----------------------------------------------------------------------------

LEMMA StepKeepsLimit ==
    ASSUME LimitInvariant, [Next]_vars
    PROVE  LimitInvariant'
<1>1. ASSUME NEW a \in Actors, TestStopEvent(a)
      PROVE  LimitInvariant'
    <2>1. Moves(a)
        BY <1>1 DEF TestStopEvent, Moves, Running, Over
    <2> QED
        BY <1>1, <2>1, MovesKeeps
<1>2. ASSUME NEW a \in Actors, ExecClose(a)
      PROVE  LimitInvariant'
    BY <1>2, CompleteKeeps DEF ExecClose
<1>3. ASSUME NEW a \in Actors, ExitLoop(a)
      PROVE  LimitInvariant'
    <2>1. Moves(a)
        BY <1>3 DEF ExitLoop, Moves, Running, Over
    <2> QED
        BY <1>3, <2>1, MovesKeeps
<1>4. ASSUME NEW a \in Actors, ActorStep(a)
      PROVE  LimitInvariant'
    BY <1>1, <1>2, <1>3, <1>4, PickKeeps, ExecOpenKeeps, ExecSendKeeps,
       ExecAnswerKeeps, ReceiveAnswerKeeps, ReceiveInputKeeps DEF ActorStep
<1>5. ASSUME NEW a \in Actors, Stop(a) \/ Arrive(a) \/ Lose(a) \/ Inject(a)
      PROVE  UNCHANGED <<pc, count>>
    BY <1>5 DEF Stop, Arrive, Lose, Inject, flowVars
<1>6. UNCHANGED <<pc, count>> => LimitInvariant'
    BY DEF LimitInvariant
<1>7. CASE UNCHANGED vars
    BY <1>6, <1>7 DEF vars, flowVars
<1> QED
    BY <1>4, <1>5, <1>6, <1>7 DEF Next

LEMMA InitLimit == Init => LimitInvariant
BY VisitAssumption DEF Init, LimitInvariant, Running, Over

\* The inductive invariant: where a thread may begin or continue a transition,
\* its count is below its limit (the test at the end of execute_transition).
THEOREM LimitIsInvariant == Spec => []LimitInvariant
<1>1. Init => LimitInvariant
    BY InitLimit
<1>2. LimitInvariant /\ [Next]_vars => LimitInvariant'
    BY StepKeepsLimit
<1> QED
    BY <1>1, <1>2, PTL DEF Spec

\* No actor begins a transition beyond nbMaxTransitions, whatever timeouts,
\* exceptions, callbacks, strangers or stops the transitions before met.
THEOREM LimitIsExact == Spec => []VisitLimit
<1>1. LimitInvariant => VisitLimit
    BY DEF LimitInvariant, VisitLimit, Running
<1> QED
    BY <1>1, LimitIsInvariant, PTL

-----------------------------------------------------------------------------
\* Where an actor has a transition to execute.
Acting == {"exec", "recv", "joining"}

FlowTypes ==
    /\ pc \in [Actors -> Running \cup Over]
    /\ state \in [Actors -> States \cup {NoState}]
    /\ cur \in [Actors -> TransitionType \cup {NoTransition}]
    /\ via \in [Actors -> {"none", "initiator", "special", "read"}]
    /\ active \in [Actors -> [States -> BOOLEAN]]

\* A thread that visits stands on a state; what it executes is a transition,
\* on the path of State that its position and its state allow.
FlowAt(a) ==
    /\ pc[a] \in Running => state[a] \in States
    /\ pc[a] \in Acting => cur[a] \in TransitionType
    /\ pc[a] \notin Acting \cup {"await"} => via[a] = "none"
    /\ pc[a] = "await" => via[a] = "read"
    /\ pc[a] = "recv" => via[a] = "initiator"
    /\ via[a] = "special" => SpecialOf(Automaton[a][state[a]]) # NoTransition

\* An actor that initiates all its transitions takes no other path of State.
PureAt(a) ==
    /\ pc[a] # "await"
    /\ pc[a] \in Acting => via[a] = "initiator"

\* The active flags of the states that tell: ActiveIffExecuting for one actor.
FlagsAt(a) ==
    /\ Executing(a) => active[a][state[a]]
    /\ \A s \in Told(a) : active[a][s] =>
          \/ state[a] = s /\ Executing(a)
          \/ pc[a] \in Over /\ a \notin PureInitiators
    /\ \A s, u \in Told(a) : active[a][s] /\ active[a][u] => s = u

FlowInvariant ==
    /\ FlowTypes
    /\ \A a \in Actors : FlowAt(a)
    /\ \A a \in PureInitiators : PureAt(a)
    /\ \A a \in Actors : FlagsAt(a)

\* What every step does to an actor that stays out of its transitions, or
\* leaves the one it executes: only the state it stood on may stay active, and
\* only if the visit breaks off.
Leaves(a) ==
    /\ \E p \in {"loop"} \cup Over, s \in States \cup {NoState} :
          /\ pc' = [pc EXCEPT ![a] = p]
          /\ state' = [state EXCEPT ![a] = s]
          /\ p = "loop" => s \in States
    /\ cur' = [cur EXCEPT ![a] = NoTransition]
    /\ via' = [via EXCEPT ![a] = "none"]
    /\ active' \in [Actors -> [States -> BOOLEAN]]
    /\ \A b \in Actors \ {a} : active'[b] = active[b]
    /\ \A s \in Told(a) : active'[a][s] =>
          s = state[a] /\ a \notin PureInitiators /\ pc'[a] \in Over

\* What every step does to an actor that begins or chooses a transition, or
\* begins to read.
Enters(a) ==
    /\ \E p \in {"exec", "await"}, v \in {"initiator", "special", "read"},
          t \in TransitionType \cup {NoTransition} :
          /\ pc' = [pc EXCEPT ![a] = p]
          /\ via' = [via EXCEPT ![a] = v]
          /\ cur' = [cur EXCEPT ![a] = t]
          /\ p = "exec" => t \in TransitionType
          /\ p = "await" => v = "read"
          /\ v = "special" => SpecialOf(Automaton[a][state[a]]) # NoTransition
          /\ a \in PureInitiators => p = "exec" /\ v = "initiator"
    /\ state' = state /\ state[a] \in States
    /\ SetActive(a, TRUE) \/ (UNCHANGED active /\ pc[a] = "await")

-----------------------------------------------------------------------------
(* The ways a step changes where an actor stands. *)

LEMMA PureIsActor == PureInitiators \subseteq Actors
BY VisitAssumption DEF PureInitiators

LEMMA ToldIsState == \A a : Told(a) \subseteq States
BY DEF Told

LEMMA ExecutingIs == \A a : Executing(a) <=> pc[a] \in Acting \cup {"await"}
BY DEF Executing, Acting

\* While a visit goes on, only the state that executes is active.
LEMMA ActiveIsCurrent ==
    ASSUME FlowInvariant, NEW a \in Actors, pc[a] \in Running, NEW s \in Told(a), active[a][s]
    PROVE  s = state[a] /\ Executing(a)
<1>1. FlagsAt(a)
    BY DEF FlowInvariant
<1>2. pc[a] \notin Over
    BY DEF Running, Over
<1> QED
    BY <1>1, <1>2 DEF FlagsAt

LEMMA LeavesKeeps ==
    ASSUME FlowInvariant, NEW a \in Actors, Leaves(a)
    PROVE  FlowInvariant'
<1>1. PICK p \in {"loop"} \cup Over, s \in States \cup {NoState} :
          /\ pc' = [pc EXCEPT ![a] = p]
          /\ state' = [state EXCEPT ![a] = s]
          /\ p = "loop" => s \in States
    BY DEF Leaves
<1>2. /\ cur' = [cur EXCEPT ![a] = NoTransition]
      /\ via' = [via EXCEPT ![a] = "none"]
    BY DEF Leaves
<1>3. FlowTypes'
    <2>1. pc' \in [Actors -> Running \cup Over] /\ state' \in [Actors -> States \cup {NoState}]
        BY <1>1 DEF FlowInvariant, FlowTypes, Running
    <2>2. /\ cur' \in [Actors -> TransitionType \cup {NoTransition}]
          /\ via' \in [Actors -> {"none", "initiator", "special", "read"}]
        BY <1>2 DEF FlowInvariant, FlowTypes
    <2> QED
        BY <2>1, <2>2 DEF FlowTypes, Leaves
<1>4. /\ pc'[a] = p /\ state'[a] = s /\ via'[a] = "none"
      /\ p \notin Acting \cup {"await"}
    BY <1>1, <1>2 DEF FlowInvariant, FlowTypes, Acting, Over
<1>5. \A b \in Actors \ {a} : /\ pc'[b] = pc[b] /\ state'[b] = state[b]
                              /\ cur'[b] = cur[b] /\ via'[b] = via[b]
                              /\ active'[b] = active[b]
    BY <1>1, <1>2 DEF FlowInvariant, FlowTypes, Leaves
<1>6. ASSUME NEW b \in Actors PROVE FlowAt(b)'
    <2>1. CASE b = a
        BY <2>1, <1>1, <1>4 DEF FlowAt, Running, Over, Acting
    <2>2. CASE b # a
        BY <2>2, <1>5 DEF FlowAt, FlowInvariant
    <2> QED
        BY <2>1, <2>2
<1>7. ASSUME NEW b \in PureInitiators PROVE PureAt(b)'
    <2>1. CASE b = a
        BY <2>1, <1>4 DEF PureAt
    <2>2. CASE b # a
        BY <2>2, <1>5, <1>7, PureIsActor DEF PureAt, FlowInvariant
    <2> QED
        BY <2>1, <2>2
<1>8. ASSUME NEW b \in Actors PROVE FlagsAt(b)'
    <2>1. CASE b = a
        <3>1. ~Executing(a)'
            BY <1>4 DEF Executing, Acting
        <3>2. \A u \in Told(a) : active'[a][u] =>
                  u = state[a] /\ a \notin PureInitiators /\ pc'[a] \in Over
            BY DEF Leaves
        <3>3. /\ \A u \in Told(a) : active'[a][u] => pc'[a] \in Over /\ a \notin PureInitiators
              /\ \A u, w \in Told(a) : active'[a][u] /\ active'[a][w] => u = w
            BY <3>2
        <3> QED
            BY <2>1, <3>1, <3>3 DEF FlagsAt, Told, PureInitiators
    <2>2. CASE b # a
        <3>1. FlagsAt(b)
            BY DEF FlowInvariant
        <3> QED
            BY <2>2, <3>1, <1>5 DEF FlagsAt, Executing, Told, PureInitiators
    <2> QED
        BY <2>1, <2>2
<1> QED
    BY <1>3, <1>6, <1>7, <1>8 DEF FlowInvariant, PureInitiators

LEMMA EntersKeeps ==
    ASSUME FlowInvariant, NEW a \in Actors, Enters(a), pc[a] \in {"pick", "await"}
    PROVE  FlowInvariant'
<1>1. PICK p \in {"exec", "await"}, v \in {"initiator", "special", "read"},
           t \in TransitionType \cup {NoTransition} :
          /\ pc' = [pc EXCEPT ![a] = p]
          /\ via' = [via EXCEPT ![a] = v]
          /\ cur' = [cur EXCEPT ![a] = t]
          /\ p = "exec" => t \in TransitionType
          /\ p = "await" => v = "read"
          /\ v = "special" => SpecialOf(Automaton[a][state[a]]) # NoTransition
          /\ a \in PureInitiators => p = "exec" /\ v = "initiator"
    BY DEF Enters
<1>2. state' = state /\ state[a] \in States
    BY DEF Enters
<1>3. /\ active' \in [Actors -> [States -> BOOLEAN]]
      /\ \A b \in Actors \ {a} : active'[b] = active[b]
      /\ active'[a][state[a]]
      /\ \A s \in States : s # state[a] => active'[a][s] = active[a][s]
    <2>1. active \in [Actors -> [States -> BOOLEAN]]
        BY DEF FlowInvariant, FlowTypes
    <2>2. CASE SetActive(a, TRUE)
        BY <2>1, <2>2, <1>2 DEF SetActive
    <2>3. CASE UNCHANGED active /\ pc[a] = "await"
        <3>1. active[a][state[a]]
            BY <2>3 DEF FlowInvariant, FlagsAt, Executing
        <3> QED
            BY <2>1, <2>3, <3>1
    <2> QED
        BY <2>2, <2>3 DEF Enters
<1>4. FlowTypes'
    <2>1. pc' \in [Actors -> Running \cup Over]
        BY <1>1 DEF FlowInvariant, FlowTypes, Running
    <2>2. via' \in [Actors -> {"none", "initiator", "special", "read"}]
        BY <1>1 DEF FlowInvariant, FlowTypes
    <2>3. cur' \in [Actors -> TransitionType \cup {NoTransition}]
        BY <1>1 DEF FlowInvariant, FlowTypes
    <2> QED
        BY <2>1, <2>2, <2>3, <1>2, <1>3 DEF FlowInvariant, FlowTypes
<1>5. pc'[a] = p /\ via'[a] = v /\ cur'[a] = t
    BY <1>1 DEF FlowInvariant, FlowTypes
<1>6. \A b \in Actors \ {a} : /\ pc'[b] = pc[b] /\ state'[b] = state[b]
                              /\ cur'[b] = cur[b] /\ via'[b] = via[b]
                              /\ active'[b] = active[b]
    BY <1>1, <1>2, <1>3 DEF FlowInvariant, FlowTypes
<1>7. ASSUME NEW b \in Actors PROVE FlowAt(b)'
    <2>1. CASE b = a
        BY <2>1, <1>1, <1>2, <1>5 DEF FlowAt, Acting
    <2>2. CASE b # a
        BY <2>2, <1>6 DEF FlowAt, FlowInvariant
    <2> QED
        BY <2>1, <2>2
<1>8. ASSUME NEW b \in PureInitiators PROVE PureAt(b)'
    <2>1. CASE b = a
        BY <2>1, <1>1, <1>5, <1>8 DEF PureAt
    <2>2. CASE b # a
        BY <2>2, <1>6, <1>8, PureIsActor DEF PureAt, FlowInvariant
    <2> QED
        BY <2>1, <2>2
<1>9. ASSUME NEW b \in Actors PROVE FlagsAt(b)'
    <2>1. CASE b = a
        <3>1. ASSUME NEW s \in Told(a), active'[a][s] PROVE s = state[a]
            <4>1. CASE s # state[a]
                <5>1. active[a][s] /\ pc[a] \in Running
                    BY <3>1, <4>1, <1>3, ToldIsState DEF Running
                <5> QED
                    BY <5>1, ActiveIsCurrent
            <4> QED
                BY <4>1
        <3>2. Executing(a)' /\ active'[a][state'[a]] /\ state'[a] = state[a]
            BY <1>2, <1>3, <1>5 DEF Executing
        <3> QED
            BY <2>1, <3>1, <3>2 DEF FlagsAt, Told, PureInitiators
    <2>2. CASE b # a
        <3>1. FlagsAt(b)
            BY DEF FlowInvariant
        <3> QED
            BY <2>2, <3>1, <1>6 DEF FlagsAt, Executing, Told, PureInitiators
    <2> QED
        BY <2>1, <2>2
<1> QED
    BY <1>4, <1>7, <1>8, <1>9 DEF FlowInvariant, PureInitiators

\* A thread that stays in its transition: it waits for an answer, or in join().
LEMMA WaitsKeeps ==
    ASSUME FlowInvariant, NEW a \in Actors, pc[a] = "exec", NEW p \in {"recv", "joining"},
           p = "recv" => via[a] = "initiator",
           pc' = [pc EXCEPT ![a] = p], UNCHANGED <<state, cur, via, active>>
    PROVE  FlowInvariant'
<1>1. FlowTypes'
    BY DEF FlowInvariant, FlowTypes, Running
<1>2. pc'[a] = p /\ \A b \in Actors \ {a} : pc'[b] = pc[b]
    BY DEF FlowInvariant, FlowTypes
<1>3. ASSUME NEW b \in Actors PROVE FlowAt(b)'
    <2>1. FlowAt(b)
        BY DEF FlowInvariant
    <2>2. CASE b = a
        BY <2>1, <2>2, <1>2 DEF FlowAt, Running, Acting
    <2>3. CASE b # a
        BY <2>1, <2>3, <1>2 DEF FlowAt
    <2> QED
        BY <2>2, <2>3
<1>4. ASSUME NEW b \in PureInitiators PROVE PureAt(b)'
    <2>1. PureAt(b) /\ b \in Actors
        BY PureIsActor DEF FlowInvariant
    <2>2. CASE b = a
        BY <2>1, <2>2, <1>2 DEF PureAt, Acting
    <2>3. CASE b # a
        BY <2>1, <2>3, <1>2 DEF PureAt
    <2> QED
        BY <2>2, <2>3
<1>5. ASSUME NEW b \in Actors PROVE FlagsAt(b)'
    <2>1. FlagsAt(b) /\ (Executing(b)' <=> Executing(b))
        BY <1>2 DEF FlowInvariant, Executing
    <2>2. pc'[b] \in Over <=> pc[b] \in Over
        BY <1>2 DEF Over
    <2> QED
        BY <2>1, <2>2 DEF FlagsAt, Told, PureInitiators
<1> QED
    BY <1>1, <1>3, <1>4, <1>5 DEF FlowInvariant, PureInitiators

-----------------------------------------------------------------------------
(* The operators the steps are made of. *)

\* Whoever finishes a transition leaves its state inactive, unless the flag of
\* the state tells nothing or the visit breaks off there.
LEMMA FinishLeaves ==
    ASSUME FlowInvariant, NEW a \in Actors, NEW s \in States \cup {NoState}, Finish(a, s),
           pc[a] \in Running,
           \/ SetActive(a, FALSE)
           \/ /\ UNCHANGED active
              /\ \/ s = NoState /\ a \notin PureInitiators
                 \/ state[a] \notin Told(a) \/ ~Executing(a)
    PROVE  Leaves(a)
<1>1. PICK p \in {"loop", "exiting"} :
          pc' = [pc EXCEPT ![a] = p] /\ (s = NoState => p = "exiting")
    BY DEF Finish
<1>2. p \in {"loop"} \cup Over /\ (p = "loop" => s \in States) /\ pc'[a] = p
    BY <1>1 DEF Over, FlowInvariant, FlowTypes
<1>3. state' = [state EXCEPT ![a] = s]
    BY DEF Finish
<1>4. active \in [Actors -> [States -> BOOLEAN]]
    BY DEF FlowInvariant, FlowTypes
<1>5. /\ active' \in [Actors -> [States -> BOOLEAN]]
      /\ \A b \in Actors \ {a} : active'[b] = active[b]
    <2>1. CASE SetActive(a, FALSE)
        BY <1>4, <2>1 DEF SetActive
    <2>2. CASE UNCHANGED active
        BY <1>4, <2>2
    <2> QED
        BY <2>1, <2>2
<1>6. ASSUME NEW u \in Told(a), active'[a][u]
      PROVE  u = state[a] /\ a \notin PureInitiators /\ pc'[a] \in Over
    <2>1. CASE SetActive(a, FALSE)
        <3>1. u # state[a] /\ active[a][u]
            BY <1>4, <1>6, <2>1, ToldIsState DEF SetActive
        <3> QED
            BY <3>1, ActiveIsCurrent
    <2>2. CASE UNCHANGED active
        <3>1. u = state[a] /\ Executing(a)
            BY <1>6, <2>2, ActiveIsCurrent
        <3>2. state[a] \in Told(a)
            BY <3>1
        <3>3. CASE s = NoState /\ a \notin PureInitiators
            BY <3>1, <3>3, <1>1, <1>2 DEF Over
        <3>4. CASE SetActive(a, FALSE)
            BY <3>4, <2>1
        <3> QED
            BY <3>1, <3>2, <3>3, <3>4
    <2> QED
        BY <2>1, <2>2
<1> QED
    BY <1>1, <1>2, <1>3, <1>5, <1>6 DEF Leaves, Finish

\* The visit breaks off, with the flag of its state reset or not.
LEMMA BreaksLeaves ==
    ASSUME FlowInvariant, NEW a \in Actors, NEW r \in BOOLEAN, NEW p \in Over,
           pc[a] \in Running, a \in PureInitiators => r,
           pc' = [pc EXCEPT ![a] = p], state' = state,
           cur' = [cur EXCEPT ![a] = NoTransition], via' = [via EXCEPT ![a] = "none"],
           active' = IF r THEN [active EXCEPT ![a][state[a]] = FALSE] ELSE active
    PROVE  Leaves(a)
<1>1. state' = [state EXCEPT ![a] = state[a]] /\ state[a] \in States \cup {NoState}
    BY DEF FlowInvariant, FlowTypes
<1>2. p # "loop" /\ pc'[a] = p
    BY DEF Over, FlowInvariant, FlowTypes
<1>3. active \in [Actors -> [States -> BOOLEAN]]
    BY DEF FlowInvariant, FlowTypes
<1>4. /\ active' \in [Actors -> [States -> BOOLEAN]]
      /\ \A b \in Actors \ {a} : active'[b] = active[b]
    BY <1>3
<1>5. ASSUME NEW u \in Told(a), active'[a][u]
      PROVE  u = state[a] /\ a \notin PureInitiators /\ pc'[a] \in Over
    <2>1. active[a][u]
        BY <1>3, <1>5, ToldIsState
    <2>2. u = state[a]
        BY <2>1, ActiveIsCurrent
    <2>3. ~r
        BY <1>3, <1>5, <2>2, ToldIsState
    <2> QED
        BY <2>2, <2>3, <1>2
<1> QED
    BY <1>1, <1>2, <1>4, <1>5 DEF Leaves

LEMMA RaiseLeaves ==
    ASSUME FlowInvariant, NEW a \in Actors, NEW r \in BOOLEAN, Raise(a, r),
           pc[a] \in Running, a \in PureInitiators => r
    PROVE  Leaves(a)
BY BreaksLeaves DEF Raise, Over

\* A pure initiator executes on no other path.
LEMMA PureInitiator ==
    ASSUME FlowInvariant, NEW a \in PureInitiators, Executing(a)
    PROVE  via[a] = "initiator"
<1>1. PureAt(a)
    BY DEF FlowInvariant
<1> QED
    BY <1>1, ExecutingIs DEF PureAt

LEMMA StopsReadingLeaves ==
    ASSUME FlowInvariant, NEW a \in Actors, StopsReading(a), pc[a] \in {"recv", "await"}
    PROVE  Leaves(a)
<1>1. PICK r \in BOOLEAN : r <=> via[a] = "initiator"
    OBVIOUS
<1>2. a \in PureInitiators => r
    BY <1>1, PureInitiator DEF Executing
<1>3. active' = IF r THEN [active EXCEPT ![a][state[a]] = FALSE] ELSE active
    BY <1>1 DEF StopsReading
<1>4. pc[a] \in Running /\ "ended" \in Over
    BY DEF Running, Over
<1> QED
    BY <1>2, <1>3, <1>4, BreaksLeaves DEF StopsReading

LEMMA ConcludeLeaves ==
    ASSUME FlowInvariant, NEW a \in Actors, NEW s \in States \cup {NoState}, Conclude(a, s),
           Executing(a)
    PROVE  Leaves(a)
<1>1. pc[a] \in Running
    BY DEF Executing, Running
<1>2. CASE via[a] # "special"
    BY <1>1, <1>2, FinishLeaves DEF Conclude
<1>3. CASE via[a] = "special"
    <2>1. a \notin PureInitiators
        BY <1>3, PureInitiator
    <2>2. state[a] \notin Told(a)
        BY <1>3, <2>1 DEF Told, FlowInvariant, FlowAt
    <2>3. CASE Raise(a, TRUE)
        BY <1>1, <2>3, RaiseLeaves
    <2>4. CASE Finish(a, s) /\ UNCHANGED active
        BY <1>1, <2>2, <2>4, FinishLeaves
    <2> QED
        BY <1>3, <2>3, <2>4 DEF Conclude
<1> QED
    BY <1>2, <1>3

LEMMA CompleteLeaves ==
    ASSUME FlowInvariant, NEW a \in Actors, pc[a] \in Acting, Complete(a)
    PROVE  Leaves(a)
<1>1. cur[a] \in TransitionType
    BY DEF FlowInvariant, FlowAt
<1>2. cur[a].to \in States
    BY <1>1 DEF TransitionType
<1> QED
    BY <1>2, ConcludeLeaves, ExecutingIs DEF Complete

LEMMA WriteFailsFlow ==
    ASSUME FlowInvariant, NEW a \in Actors, pc[a] = "exec", WriteFails(a)
    PROVE  FlowInvariant'
<1>1. Executing(a) /\ pc[a] \in Running
    BY DEF Executing, Running
<1>2. CASE Conclude(a, NoState)
    BY <1>1, <1>2, ConcludeLeaves, LeavesKeeps
<1>3. CASE Raise(a, via[a] = "initiator")
    BY <1>1, <1>3, PureInitiator, RaiseLeaves, LeavesKeeps
<1>4. CASE /\ pc' = [pc EXCEPT ![a] = "joining"]
           /\ UNCHANGED <<state, cur, via, stopEvent, count, active>>
    BY <1>4, WaitsKeeps
<1> QED
    BY <1>2, <1>3, <1>4 DEF WriteFails

-----------------------------------------------------------------------------
(* The transitions an actor may find. *)

LEMMA TransitionsTyped ==
    ASSUME NEW a \in Actors, state[a] \in States
    PROVE  /\ Transitions(a) \in Seq(TransitionType)
           /\ ToSet(Transitions(a)) \subseteq TransitionType
<1>1. Transitions(a) \in Seq(TransitionType)
    BY VisitAssumption DEF Transitions
<1> QED
    BY <1>1 DEF ToSet

LEMMA AvailableTyped ==
    ASSUME NEW a \in Actors, state[a] \in States, NEW t \in Available(a)
    PROVE  t \in TransitionType /\ t.name \in Filtered /\ t \in ToSet(Transitions(a))
BY TransitionsTyped DEF Available

LEMMA ModifiedTyped ==
    ASSUME NEW a \in Actors, state[a] \in States, NEW t, NEW u \in Modified(a, t)
    PROVE  u = t \/ u \in Available(a)
BY DEF Modified

\* A nonempty set of positions has a first and a last one.
LEMMA FirstPosition ==
    ASSUME NEW S \in SUBSET Nat, S # {}
    PROVE  \E i \in S : \A j \in S : i <= j
<1>1. PICK i \in S : \A j \in S : ~(<<j, i>> \in OpToRel(<, Nat))
    BY NatLessThanWellFounded, WFMin
<1>2. ASSUME NEW j \in S PROVE i <= j
    <2>1. ~(<<j, i>> \in OpToRel(<, Nat))
        BY <1>1
    <2>2. ~(j < i)
        BY <2>1 DEF OpToRel
    <2> QED
        BY <2>2
<1> QED
    BY <1>2

LEMMA LastPosition ==
    ASSUME NEW n \in Nat, NEW S \in SUBSET (1..n), S # {}
    PROVE  \E i \in S : \A j \in S : j <= i
<1> DEFINE R == {k \in 0..n : n - k \in S}
<1>1. R \in SUBSET Nat
    OBVIOUS
<1>2. R # {}
    <2>1. PICK j \in S : TRUE
        OBVIOUS
    <2>2. n - j \in R
        OBVIOUS
    <2> QED
        BY <2>2
<1>3. PICK k \in R : \A l \in R : k <= l
    BY <1>1, <1>2, FirstPosition
<1>4. ASSUME NEW j \in S PROVE j <= n - k
    <2>1. n - j \in R
        OBVIOUS
    <2> QED
        BY <2>1, <1>3
<1> QED
    BY <1>3, <1>4

LEMMA SpecialTyped ==
    ASSUME NEW a \in Actors, state[a] \in States
    PROVE  Special(a) \in TransitionType \cup {NoTransition}
<1> DEFINE T == Transitions(a)
           certain == {i \in 1..Len(T) : T[i].prob = 100}
           last == CHOOSE i \in certain : \A j \in certain : j <= i
<1>1. T \in Seq(TransitionType)
    BY TransitionsTyped
<1>2. \A i \in 1..Len(T) : T[i] \in TransitionType
    BY <1>1
<1>3. Len(T) \in Nat
    BY <1>1
<1>4. CASE certain # {}
    <2>1. \E i \in certain : \A j \in certain : j <= i
        BY <1>3, <1>4, LastPosition
    <2>2. last \in 1..Len(T)
        BY <2>1
    <2>3. Special(a) = T[last]
        BY <1>4 DEF Special, SpecialOf
    <2> QED
        BY <2>2, <2>3, <1>2
<1>5. CASE certain = {}
    BY <1>2, <1>5 DEF Special, SpecialOf
<1> QED
    BY <1>4, <1>5

LEMMA FirstOfTyped ==
    ASSUME NEW a \in Actors, state[a] \in States, NEW ts
    PROVE  FirstOf(a, ts) \in TransitionType \cup {NoTransition}
<1> DEFINE T == Transitions(a)
           places == {i \in 1..Len(T) : T[i] \in ts}
           first == CHOOSE i \in places : \A j \in places : i <= j
<1>1. T \in Seq(TransitionType)
    BY TransitionsTyped
<1>2. \A i \in 1..Len(T) : T[i] \in TransitionType
    BY <1>1
<1>3. Len(T) \in Nat
    BY <1>1
<1>4. CASE places # {}
    <2>1. \E i \in places : \A j \in places : i <= j
        <3>1. places \in SUBSET Nat
            BY <1>3
        <3> QED
            BY <3>1, <1>4, FirstPosition
    <2>2. first \in 1..Len(T)
        BY <2>1
    <2>3. FirstOf(a, ts) = T[first]
        BY <1>4 DEF FirstOf
    <2> QED
        BY <2>2, <2>3, <1>2
<1>5. CASE places = {}
    BY <1>5 DEF FirstOf
<1> QED
    BY <1>4, <1>5

\* A pure initiator initiates every transition of its states.
LEMMA PureInitiates ==
    ASSUME NEW a \in PureInitiators, state[a] \in States, NEW t \in ToSet(Transitions(a))
    PROVE  Initiates(a, t)
<1>1. PICK i \in 1..Len(Transitions(a)) : t = Transitions(a)[i]
    BY TransitionsTyped, PureIsActor DEF ToSet
<1>2. ~t.inverse /\ a \in Initiator
    BY <1>1 DEF PureInitiators, Transitions
<1>3. t.inverse \in BOOLEAN
    BY TransitionsTyped, PureIsActor DEF TransitionType
<1> QED
    BY <1>2, <1>3 DEF Initiates

-----------------------------------------------------------------------------
(* The steps of an actor. *)

\* An actor that is not a pure initiator starts to answer, or to read.
LEMMA AnswersEnters ==
    ASSUME FlowInvariant, NEW a \in Actors, state[a] \in States, a \notin PureInitiators,
           Execute(a, Special(a), IF Special(a) = NoTransition THEN "read" ELSE "special")
    PROVE  Enters(a)
<1>1. PICK t \in TransitionType \cup {NoTransition} : t = Special(a)
    BY SpecialTyped
<1>2. PICK p, v : /\ p = IF t = NoTransition THEN "await" ELSE "exec"
                  /\ v = IF t = NoTransition THEN "read" ELSE "special"
    OBVIOUS
<1>3. Execute(a, t, v)
    BY <1>1, <1>2
<1>4. /\ p \in {"exec", "await"} /\ v \in {"initiator", "special", "read"}
      /\ p = "exec" => t \in TransitionType
      /\ p = "await" => v = "read"
      /\ v # "initiator"
      /\ v = "special" => SpecialOf(Automaton[a][state[a]]) # NoTransition
    BY <1>1, <1>2 DEF Special, Transitions
<1>5. /\ pc' = [pc EXCEPT ![a] = p] /\ via' = [via EXCEPT ![a] = v]
      /\ cur' = [cur EXCEPT ![a] = t] /\ state' = state /\ SetActive(a, TRUE)
    BY <1>2, <1>3 DEF Execute
<1> QED
    BY <1>4, <1>5 DEF Enters

LEMMA InitiatesEnters ==
    ASSUME FlowInvariant, NEW a \in Actors, state[a] \in States,
           NEW t \in Available(a), NEW u \in Modified(a, t), Execute(a, u, "initiator")
    PROVE  Enters(a)
<1>1. u \in TransitionType
    BY ModifiedTyped, AvailableTyped
<1>2. u # NoTransition
    BY <1>1, VisitAssumption
<1>3. /\ pc' = [pc EXCEPT ![a] = "exec"] /\ via' = [via EXCEPT ![a] = "initiator"]
      /\ cur' = [cur EXCEPT ![a] = u] /\ state' = state /\ SetActive(a, TRUE)
    BY <1>2 DEF Execute
<1> QED
    BY <1>1, <1>3 DEF Enters

LEMMA PickFlow ==
    ASSUME FlowInvariant, NEW a \in Actors, Pick(a)
    PROVE  FlowInvariant'
<1> DEFINE Answers == Execute(a, Special(a),
                              IF Special(a) = NoTransition THEN "read" ELSE "special")
<1>1. pc[a] = "pick" /\ pc[a] \in Running /\ ~Executing(a) /\ state[a] \in States
    BY DEF Pick, Executing, FlowInvariant, FlowAt, Running
<1>2. CASE \E t \in Available(a) : ~Initiates(a, t) /\ Answers
    <2>1. a \notin PureInitiators
        BY <1>1, <1>2, PureInitiates, AvailableTyped
    <2> QED
        BY <1>1, <1>2, <2>1, AnswersEnters, EntersKeeps
<1>3. CASE Finish(a, NoState) /\ UNCHANGED active
    BY <1>1, <1>3, FinishLeaves, LeavesKeeps
<1>4. CASE \E t \in Available(a) : \E u \in Modified(a, t) : Execute(a, u, "initiator")
    BY <1>1, <1>4, InitiatesEnters, EntersKeeps
<1>5. \/ \E t \in Available(a) : ~Initiates(a, t) /\ Answers
      \/ Finish(a, NoState) /\ UNCHANGED active
      \/ \E t \in Available(a) : \E u \in Modified(a, t) : Execute(a, u, "initiator")
    <2>1. Candidates(a) \subseteq Available(a)
        BY DEF Candidates
    <2>2. CASE CheckReceived(a) /\ \E t \in Available(a) :
                  t.kind = "Transition" /\ ~Initiates(a, t)
        BY <2>2 DEF Pick
    <2>3. CASE ~(CheckReceived(a) /\ \E t \in Available(a) :
                  t.kind = "Transition" /\ ~Initiates(a, t))
        <3>1. \/ Candidates(a) = {} /\ Finish(a, NoState) /\ UNCHANGED active
              \/ \E t \in Candidates(a) :
                    IF Initiates(a, t)
                    THEN \E u \in Modified(a, t) : Execute(a, u, "initiator")
                    ELSE Answers
            BY <2>3, Zenon DEF Pick
        <3> QED
            BY <2>1, <3>1
    <2> QED
        BY <2>2, <2>3
<1> QED
    BY <1>2, <1>3, <1>4, <1>5

LEMMA ExecOpenFlow ==
    ASSUME FlowInvariant, NEW a \in Actors, ExecOpen(a)
    PROVE  FlowInvariant'
<1>1. pc[a] \in Acting /\ pc[a] \in Running /\ Executing(a)
    BY DEF ExecOpen, Acting, Running, Executing
<1>2. CASE Raise(a, via[a] = "initiator")
    BY <1>1, <1>2, PureInitiator, RaiseLeaves, LeavesKeeps
<1>3. CASE Complete(a)
    BY <1>1, <1>3, CompleteLeaves, LeavesKeeps
<1> QED
    BY <1>2, <1>3 DEF ExecOpen

LEMMA ExecCloseFlow ==
    ASSUME FlowInvariant, NEW a \in Actors, ExecClose(a)
    PROVE  FlowInvariant'
BY CompleteLeaves, LeavesKeeps DEF ExecClose, Acting

\* The initiator goes on to read the answer: nothing else changes.
LEMMA ExecSendFlow ==
    ASSUME FlowInvariant, NEW a \in Actors, ExecSend(a)
    PROVE  FlowInvariant'
<1>1. pc[a] = "exec" /\ via[a] = "initiator"
    BY DEF ExecSend
<1>2. CASE Complete(a)
    BY <1>1, <1>2, CompleteLeaves, LeavesKeeps DEF Acting
<1>3. CASE WriteFails(a)
    BY <1>1, <1>3, WriteFailsFlow
<1>4. CASE pc' = [pc EXCEPT ![a] = "recv"] /\ UNCHANGED <<state, cur, via, active>>
    BY <1>1, <1>4, WaitsKeeps
<1> QED
    BY <1>2, <1>3, <1>4 DEF ExecSend

LEMMA ExecAnswerFlow ==
    ASSUME FlowInvariant, NEW a \in Actors, ExecAnswer(a)
    PROVE  FlowInvariant'
<1>1. pc[a] = "exec" /\ pc[a] \in Acting /\ pc[a] \in Running /\ Executing(a)
      /\ via[a] # "initiator"
    BY DEF ExecAnswer, Acting, Running, Executing
<1>2. CASE Complete(a)
    BY <1>1, <1>2, CompleteLeaves, LeavesKeeps
<1>3. CASE WriteFails(a)
    BY <1>1, <1>3, WriteFailsFlow
<1>4. CASE Raise(a, FALSE)
    BY <1>1, <1>4, PureInitiator, RaiseLeaves, LeavesKeeps
<1> QED
    BY <1>2, <1>3, <1>4 DEF ExecAnswer

LEMMA ReceiveAnswerFlow ==
    ASSUME FlowInvariant, NEW a \in Actors, ReceiveAnswer(a)
    PROVE  FlowInvariant'
<1>1. /\ pc[a] = "recv" /\ pc[a] \in Acting /\ pc[a] \in Running /\ Executing(a)
      /\ state[a] \in States
    BY DEF ReceiveAnswer, FlowInvariant, FlowAt, Running, Acting, Executing
<1>2. CASE Complete(a)
    BY <1>1, <1>2, CompleteLeaves, LeavesKeeps
<1>3. CASE \E s \in States \cup {NoState} : Conclude(a, s)
    BY <1>1, <1>3, ConcludeLeaves, LeavesKeeps
<1>4. CASE Raise(a, TRUE)
    BY <1>1, <1>4, RaiseLeaves, LeavesKeeps
<1>5. CASE StopsReading(a)
    BY <1>1, <1>5, StopsReadingLeaves, LeavesKeeps
<1>6. \/ Complete(a) \/ Conclude(a, NoState) \/ Conclude(a, state[a])
      \/ Raise(a, TRUE) \/ StopsReading(a)
    BY DEF ReceiveAnswer, ReadRaises
<1> QED
    BY <1>1, <1>2, <1>3, <1>4, <1>5, <1>6

LEMMA ReactFlow ==
    ASSUME FlowInvariant, NEW a \in Actors, pc[a] = "await",
           NEW t \in TransitionType \cup {NoTransition}, React(a, t)
    PROVE  FlowInvariant'
<1>1. /\ state[a] \in States /\ via[a] = "read" /\ a \notin PureInitiators
      /\ Executing(a) /\ pc[a] \in Running
    BY DEF FlowInvariant, FlowAt, PureAt, Running, Executing
<1>2. PICK u \in Modified(a, t) :
          IF u # NoTransition
          THEN /\ cur' = [cur EXCEPT ![a] = u]
               /\ pc' = [pc EXCEPT ![a] = "exec"]
               /\ UNCHANGED <<state, via, stopEvent, count, active>>
          ELSE IF a \in Staying \ Modifying THEN Conclude(a, NoState)
                                           ELSE Raise(a, FALSE)
    BY DEF React
<1>3. CASE u # NoTransition
    <2>1. u \in TransitionType
        BY <1>1, <1>3, ModifiedTyped, AvailableTyped
    <2>2. via' = [via EXCEPT ![a] = "read"]
        BY <1>1, <1>2, <1>3 DEF FlowInvariant, FlowTypes
    <2>3. Enters(a)
        BY <1>1, <1>2, <1>3, <2>1, <2>2 DEF Enters
    <2> QED
        BY <2>3, EntersKeeps
<1>4. CASE u = NoTransition /\ Conclude(a, NoState)
    BY <1>1, <1>4, ConcludeLeaves, LeavesKeeps
<1>5. CASE u = NoTransition /\ Raise(a, FALSE)
    BY <1>1, <1>5, RaiseLeaves, LeavesKeeps
<1> QED
    BY <1>2, <1>3, <1>4, <1>5

LEMMA ReceiveInputFlow ==
    ASSUME FlowInvariant, NEW a \in Actors, ReceiveInput(a)
    PROVE  FlowInvariant'
<1>1. /\ pc[a] = "await" /\ pc[a] \in Running /\ Executing(a) /\ state[a] \in States
      /\ a \notin PureInitiators
    BY DEF ReceiveInput, FlowInvariant, FlowAt, PureAt, Running, Executing
<1>2. CASE \E ts : React(a, FirstOf(a, ts))
    BY <1>1, <1>2, FirstOfTyped, ReactFlow
<1>3. CASE Conclude(a, NoState)
    BY <1>1, <1>3, ConcludeLeaves, LeavesKeeps
<1>4. CASE StopsReading(a)
    BY <1>1, <1>4, StopsReadingLeaves, LeavesKeeps
<1>5. CASE Finish(a, NoState) /\ UNCHANGED active
    BY <1>1, <1>5, FinishLeaves, LeavesKeeps
<1>6. CASE Raise(a, TRUE)
    BY <1>1, <1>6, RaiseLeaves, LeavesKeeps
<1> QED
    BY <1>2, <1>3, <1>4, <1>5, <1>6 DEF ReceiveInput, ReadRaises

\* The head of the loop and its end: the thread is not in a transition.
LEMMA OutsideKeeps ==
    ASSUME FlowInvariant, NEW a \in Actors, pc[a] \in {"loop", "exiting"},
           NEW p \in {"pick", "ended"}, p = "pick" => pc[a] = "loop",
           pc' = [pc EXCEPT ![a] = p], UNCHANGED <<state, cur, via, active>>
    PROVE  FlowInvariant'
<1>1. FlowTypes'
    BY DEF FlowInvariant, FlowTypes, Running, Over
<1>2. pc'[a] = p /\ \A b \in Actors \ {a} : pc'[b] = pc[b]
    BY DEF FlowInvariant, FlowTypes
<1>3. ASSUME NEW b \in Actors PROVE FlowAt(b)'
    <2>1. FlowAt(b)
        BY DEF FlowInvariant
    <2>2. CASE b = a
        BY <2>1, <2>2, <1>2 DEF FlowAt, Running, Acting
    <2>3. CASE b # a
        BY <2>1, <2>3, <1>2 DEF FlowAt
    <2> QED
        BY <2>2, <2>3
<1>4. ASSUME NEW b \in PureInitiators PROVE PureAt(b)'
    <2>1. PureAt(b) /\ b \in Actors
        BY PureIsActor DEF FlowInvariant
    <2>2. CASE b = a
        BY <2>1, <2>2, <1>2 DEF PureAt, Acting
    <2>3. CASE b # a
        BY <2>1, <2>3, <1>2 DEF PureAt
    <2> QED
        BY <2>2, <2>3
<1>5. ASSUME NEW b \in Actors PROVE FlagsAt(b)'
    <2>1. FlagsAt(b)
        BY DEF FlowInvariant
    <2>2. Executing(b)' <=> Executing(b)
        BY <1>2 DEF Executing
    <2>3. pc[b] \in Over => pc'[b] \in Over
        BY <1>2 DEF Over
    <2> QED
        BY <2>1, <2>2, <2>3 DEF FlagsAt, Told, PureInitiators
<1> QED
    BY <1>1, <1>3, <1>4, <1>5 DEF FlowInvariant, PureInitiators

LEMMA StepKeepsFlow ==
    ASSUME FlowInvariant, [Next]_vars
    PROVE  FlowInvariant'
<1>1. ASSUME NEW a \in Actors, TestStopEvent(a)
      PROVE  FlowInvariant'
    <2>1. PICK p \in {"pick", "ended"} : pc' = [pc EXCEPT ![a] = p]
        BY <1>1 DEF TestStopEvent
    <2> QED
        BY <1>1, <2>1, OutsideKeeps DEF TestStopEvent
<1>2. ASSUME NEW a \in Actors, ExitLoop(a)
      PROVE  FlowInvariant'
    BY <1>2, OutsideKeeps DEF ExitLoop
<1>3. ASSUME NEW a \in Actors, ActorStep(a)
      PROVE  FlowInvariant'
    BY <1>1, <1>2, <1>3, PickFlow, ExecOpenFlow, ExecCloseFlow, ExecSendFlow,
       ExecAnswerFlow, ReceiveAnswerFlow, ReceiveInputFlow DEF ActorStep
<1>4. ASSUME NEW a \in Actors, Stop(a) \/ Arrive(a) \/ Lose(a) \/ Inject(a)
      PROVE  UNCHANGED <<pc, state, cur, via, active>>
    BY <1>4 DEF Stop, Arrive, Lose, Inject, flowVars
<1>5. CASE UNCHANGED <<pc, state, cur, via, active>>
    BY <1>5 DEF FlowInvariant, FlowTypes, FlowAt, PureAt, FlagsAt, Executing, Told,
                PureInitiators
<1>6. CASE UNCHANGED vars
    BY <1>5, <1>6 DEF vars, flowVars
<1> QED
    BY <1>3, <1>4, <1>5, <1>6 DEF Next

LEMMA InitFlow == Init => FlowInvariant
<1> SUFFICES ASSUME Init PROVE FlowInvariant
    OBVIOUS
<1>1. FlowTypes
    BY VisitAssumption DEF Init, FlowTypes, Running
<1>2. ASSUME NEW a \in Actors PROVE FlowAt(a)
    BY VisitAssumption DEF Init, FlowAt, Running, Acting
<1>3. ASSUME NEW a \in PureInitiators PROVE PureAt(a)
    BY PureIsActor DEF Init, PureAt, Acting
<1>4. ASSUME NEW a \in Actors PROVE FlagsAt(a)
    BY ToldIsState DEF Init, FlagsAt, Executing
<1> QED
    BY <1>1, <1>2, <1>3, <1>4 DEF FlowInvariant

\* Where an actor stands, for any automata and callbacks: on a state while it
\* visits, executing a transition on the path of State that its position allows.
THEOREM FlowIsInvariant == Spec => []FlowInvariant
<1>1. Init => FlowInvariant
    BY InitFlow
<1>2. FlowInvariant /\ [Next]_vars => FlowInvariant'
    BY StepKeepsFlow
<1> QED
    BY <1>1, <1>2, PTL DEF Spec

\* For any automata and any way State may be executed: the state that executes
\* is active, and of the other states an actor never leaves through a transition
\* it runs without reading, none is, except the one at which the visit of an
\* actor that does not begin every exchange has broken off.
THEOREM ActiveFlagsAreExact == Spec => []ActiveIffExecuting
<1>1. FlowInvariant => ActiveIffExecuting
    <2> SUFFICES ASSUME FlowInvariant, NEW a \in Actors
                 PROVE  /\ Executing(a) => active[a][state[a]]
                        /\ \A s \in Told(a) : active[a][s] =>
                              \/ state[a] = s /\ Executing(a)
                              \/ pc[a] \in {"exiting", "ended"} /\ a \notin PureInitiators
                        /\ \A s, u \in Told(a) : active[a][s] /\ active[a][u] => s = u
        BY DEF ActiveIffExecuting
    <2>1. FlagsAt(a)
        BY DEF FlowInvariant
    <2> QED
        BY <2>1 DEF FlagsAt, Over
<1> QED
    BY <1>1, FlowIsInvariant, PTL

-----------------------------------------------------------------------------
(* The types of the channels, the network and the histories. *)

EventTypes ==
    /\ stopEvent \in [Actors -> BOOLEAN] /\ connected \in [Actors -> BOOLEAN]
    /\ stopRequested \in [Actors -> BOOLEAN] /\ disturbed \in BOOLEAN
    /\ injected \in 0..MaxInjected
    /\ requests \in [Actors -> Nat] /\ timeouts \in [Actors -> Nat]

MessageTypes ==
    /\ inbox \in [Actors -> Seq(Numbered)] /\ net \in [Actors -> Seq(Numbered)]
    /\ rx \in [Actors -> Numbered]
    /\ path \in [Actors -> Seq(STRING)]

\* What TypeOK needs: what is written is a symbol of a transition, and its
\* names are what is recorded, so that the place of the actor matters.
TypeInvariant == FlowInvariant /\ LimitInvariant /\ EventTypes /\ MessageTypes

\* State and Actor.run leave the stop event to Actor.stop.
LEMMA VisitKeepsEvent ==
    ASSUME NEW a \in Actors
    PROVE  /\ \A s : Finish(a, s) \/ Conclude(a, s) => stopEvent' = stopEvent
           /\ \A r : Raise(a, r) => stopEvent' = stopEvent
           /\ \A t, p : Execute(a, t, p) => stopEvent' = stopEvent
           /\ \A t : React(a, t) => stopEvent' = stopEvent
           /\ StopsReading(a) \/ Complete(a) => stopEvent' = stopEvent
<1>1. ASSUME NEW s, Finish(a, s) PROVE stopEvent' = stopEvent
    BY <1>1 DEF Finish
<1>2. ASSUME NEW r, Raise(a, r) PROVE stopEvent' = stopEvent
    BY <1>2 DEF Raise
<1>3. ASSUME NEW s, Conclude(a, s) PROVE stopEvent' = stopEvent
    BY <1>1, <1>2, <1>3 DEF Conclude
<1>4. ASSUME NEW t, NEW p, Execute(a, t, p) PROVE stopEvent' = stopEvent
    BY <1>4 DEF Execute
<1>5. ASSUME StopsReading(a) PROVE stopEvent' = stopEvent
    BY <1>5 DEF StopsReading
<1>6. ASSUME NEW t, React(a, t) PROVE stopEvent' = stopEvent
    BY <1>2, <1>3, <1>6 DEF React
<1>7. ASSUME Complete(a) PROVE stopEvent' = stopEvent
    BY <1>3, <1>7 DEF Complete
<1> QED
    BY <1>1, <1>2, <1>3, <1>4, <1>5, <1>6, <1>7

LEMMA TransmitTyped ==
    ASSUME net \in [Actors -> Seq(Numbered)], NEW a \in Actors, NEW m \in Numbered,
           Transmit(a, m)
    PROVE  net' \in [Actors -> Seq(Numbered)]
<1>1. Peer[a] \in Actors
    BY VisitAssumption
<1>2. Append(net[Peer[a]], m) \in Seq(Numbered)
    BY <1>1
<1> QED
    BY <1>1, <1>2 DEF Transmit

LEMMA CompleteTyped ==
    ASSUME path \in [Actors -> Seq(STRING)], NEW a \in Actors,
           cur[a] \in TransitionType, Complete(a)
    PROVE  path' \in [Actors -> Seq(STRING)]
<1>1. cur[a].name \in STRING
    BY DEF TransitionType
<1>2. Append(path[a], cur[a].name) \in Seq(STRING)
    BY <1>1
<1> QED
    BY <1>2 DEF Complete

\* An actor reads what is in its inbox.
LEMMA ReadsTyped ==
    ASSUME MessageTypes, NEW a \in Actors, Reads(a)
    PROVE  inbox' \in [Actors -> Seq(Numbered)] /\ rx' \in [Actors -> Numbered]
<1>1. /\ inbox[a] \in Seq(Numbered) /\ inbox[a] # <<>>
      /\ inbox \in [Actors -> Seq(Numbered)] /\ rx \in [Actors -> Numbered]
    BY DEF Reads, MessageTypes
<1>2. Head(inbox[a]) \in Numbered /\ Tail(inbox[a]) \in Seq(Numbered)
    BY <1>1
<1> QED
    BY <1>1, <1>2 DEF Reads

LEMMA TimesOutTyped ==
    ASSUME EventTypes, NEW a \in Actors, TimesOut(a)
    PROVE  timeouts' \in [Actors -> Nat]
BY DEF TimesOut, EventTypes

\* Steps that send nothing and read nothing.
LEMMA QuietTyped ==
    ASSUME EventTypes, MessageTypes, NEW a \in Actors,
           TestStopEvent(a) \/ Pick(a) \/ ExitLoop(a) \/ Stop(a)
    PROVE  EventTypes' /\ MessageTypes'
<1>1. CASE TestStopEvent(a)
    BY <1>1 DEF TestStopEvent, EventTypes, MessageTypes, chanVars, histVars
<1>2. CASE Pick(a)
    <2>1. (\E t, p : Execute(a, t, p)) \/ Finish(a, NoState)
        BY <1>2, ZenonT(30) DEF Pick
    <2>2. stopEvent' = stopEvent
        BY <2>1, VisitKeepsEvent
    <2>3. UNCHANGED <<chanVars, histVars>>
        BY <1>2 DEF Pick
    <2> QED
        BY <2>2, <2>3 DEF EventTypes, MessageTypes, chanVars, histVars
<1>3. CASE ExitLoop(a)
    <2>1. connected' \in [Actors -> BOOLEAN] /\ stopEvent' \in [Actors -> BOOLEAN]
        BY <1>3 DEF ExitLoop, EventTypes
    <2> QED
        BY <1>3, <2>1 DEF ExitLoop, EventTypes, MessageTypes, histVars
<1>4. CASE Stop(a)
    <2>1. /\ connected' \in [Actors -> BOOLEAN] /\ stopEvent' \in [Actors -> BOOLEAN]
          /\ stopRequested' \in [Actors -> BOOLEAN]
        BY <1>4 DEF Stop, EventTypes
    <2> QED
        BY <1>4, <2>1 DEF Stop, EventTypes, MessageTypes
<1> QED
    BY <1>1, <1>2, <1>3, <1>4

LEMMA OpenCloseTyped ==
    ASSUME TypeInvariant, NEW a \in Actors, ExecOpen(a) \/ ExecClose(a)
    PROVE  EventTypes' /\ MessageTypes'
<1>1. cur[a] \in TransitionType
    BY DEF TypeInvariant, FlowInvariant, FlowAt, ExecOpen, ExecClose, Acting
<1>2. connected' \in [Actors -> BOOLEAN]
    BY DEF TypeInvariant, EventTypes, ExecOpen, ExecClose
<1>3. path' \in [Actors -> Seq(STRING)]
    <2>1. path' = path \/ Complete(a)
        BY DEF ExecOpen, ExecClose
    <2> QED
        BY <1>1, <2>1, CompleteTyped DEF TypeInvariant, MessageTypes
<1>4. stopEvent' = stopEvent
    BY VisitKeepsEvent DEF ExecOpen, ExecClose
<1>5. UNCHANGED <<inbox, net, injected, rx, requests, timeouts, stopRequested, disturbed>>
    BY DEF ExecOpen, ExecClose
<1> QED
    BY <1>2, <1>3, <1>4, <1>5 DEF TypeInvariant, EventTypes, MessageTypes

\* A write that fails writes nothing.
LEMMA WriteFailsTyped ==
    ASSUME EventTypes, MessageTypes, NEW a \in Actors, WriteFails(a)
    PROVE  EventTypes' /\ MessageTypes'
<1>1. stopEvent' = stopEvent
    BY VisitKeepsEvent DEF WriteFails
<1>2. UNCHANGED <<chanVars, histVars>>
    BY DEF WriteFails
<1> QED
    BY <1>1, <1>2 DEF EventTypes, MessageTypes, chanVars, histVars

LEMMA ExecSendTyped ==
    ASSUME TypeInvariant, NEW a \in Actors, ExecSend(a)
    PROVE  EventTypes' /\ MessageTypes'
<1>1. cur[a] \in TransitionType
    BY DEF TypeInvariant, FlowInvariant, FlowAt, ExecSend, Acting
<1>2. CASE WriteFails(a)
    BY <1>2, WriteFailsTyped DEF TypeInvariant
<1>3. CASE /\ IF cur[a].input = Empty
              THEN UNCHANGED <<net, requests>>
              ELSE /\ requests' = [requests EXCEPT ![a] = @ + 1]
                   /\ Transmit(a, Message(cur[a].input, TRUE, requests'[a]))
           /\ IF cur[a].outputs \subseteq {Empty}
              THEN Complete(a)
              ELSE /\ pc' = [pc EXCEPT ![a] = "recv"]
                   /\ UNCHANGED <<state, cur, via, stopEvent, count, active, path>>
           /\ UNCHANGED <<connected, inbox, injected, rx, timeouts, stopRequested,
                          disturbed>>
    <2>1. requests' \in [Actors -> Nat]
        <3>1. requests \in [Actors -> Nat]
            BY DEF TypeInvariant, EventTypes
        <3>2. requests' = requests \/ requests' = [requests EXCEPT ![a] = @ + 1]
            BY <1>3
        <3> QED
            BY <3>1, <3>2
    <2>2. net' \in [Actors -> Seq(Numbered)]
        <3>1. net \in [Actors -> Seq(Numbered)]
            BY DEF TypeInvariant, MessageTypes
        <3>2. CASE cur[a].input = Empty
            BY <1>3, <3>1, <3>2
        <3>3. CASE cur[a].input # Empty
            <4>1. PICK m : m = Message(cur[a].input, TRUE, requests'[a])
                OBVIOUS
            <4>2. cur[a].input \in Symbols \cup {Empty} /\ requests'[a] \in Nat
                BY <1>1, <2>1 DEF TransitionType
            <4>3. m \in Numbered
                BY <4>1, <4>2 DEF Message, Numbered
            <4> QED
                BY <1>3, <3>1, <3>3, <4>1, <4>3, TransmitTyped
        <3> QED
            BY <3>2, <3>3
    <2>3. path' \in [Actors -> Seq(STRING)] /\ stopEvent' = stopEvent
        <3>1. Complete(a) \/ UNCHANGED <<path, stopEvent>>
            BY <1>3
        <3> QED
            BY <1>1, <3>1, CompleteTyped, VisitKeepsEvent DEF TypeInvariant, MessageTypes
    <2> QED
        BY <1>3, <2>1, <2>2, <2>3 DEF TypeInvariant, EventTypes, MessageTypes
<1> QED
    BY <1>2, <1>3 DEF ExecSend

LEMMA ExecAnswerTyped ==
    ASSUME TypeInvariant, NEW a \in Actors, ExecAnswer(a)
    PROVE  EventTypes' /\ MessageTypes'
<1>1. cur[a] \in TransitionType
    BY DEF TypeInvariant, FlowInvariant, FlowAt, ExecAnswer, Acting
<1>2. CASE WriteFails(a)
    BY <1>2, WriteFailsTyped DEF TypeInvariant
<1>3. ASSUME NEW s \in cur[a].drawn,
             IF s = Empty THEN UNCHANGED net ELSE Transmit(a, Message(s, TRUE, rx[a].of)),
             Complete(a),
             UNCHANGED <<connected, inbox, injected, rx, requests, timeouts,
                         stopRequested, disturbed>>
      PROVE  EventTypes' /\ MessageTypes'
    <2>1. net' \in [Actors -> Seq(Numbered)]
        <3>1. net \in [Actors -> Seq(Numbered)] /\ rx[a] \in Numbered
            BY DEF TypeInvariant, MessageTypes
        <3>2. s \in Symbols \cup {Empty} /\ rx[a].of \in Nat
            BY <1>1, <1>3, <3>1 DEF TransitionType, Numbered
        <3>3. PICK m : m = Message(s, TRUE, rx[a].of)
            OBVIOUS
        <3>4. m \in Numbered
            BY <3>2, <3>3 DEF Message, Numbered
        <3> QED
            BY <1>3, <3>1, <3>3, <3>4, TransmitTyped
    <2>2. path' \in [Actors -> Seq(STRING)] /\ stopEvent' = stopEvent
        BY <1>1, <1>3, CompleteTyped, VisitKeepsEvent DEF TypeInvariant, MessageTypes
    <2> QED
        BY <1>3, <2>1, <2>2 DEF TypeInvariant, EventTypes, MessageTypes
<1>4. CASE Raise(a, FALSE) /\ UNCHANGED <<chanVars, histVars>>
    <2>1. stopEvent' = stopEvent
        BY <1>4, VisitKeepsEvent
    <2> QED
        BY <1>4, <2>1 DEF TypeInvariant, EventTypes, MessageTypes, chanVars, histVars
<1> QED
    BY <1>2, <1>3, <1>4 DEF ExecAnswer

\* A step that reads, gives up, or is interrupted.
LEMMA ReceiveTyped ==
    ASSUME TypeInvariant, NEW a \in Actors, ReceiveAnswer(a) \/ ReceiveInput(a)
    PROVE  EventTypes' /\ MessageTypes'
<1>1. inbox' \in [Actors -> Seq(Numbered)] /\ rx' \in [Actors -> Numbered]
    <2>1. Reads(a) \/ UNCHANGED <<inbox, rx>>
        BY DEF ReceiveAnswer, ReceiveInput
    <2> QED
        BY <2>1, ReadsTyped DEF TypeInvariant, MessageTypes
<1>2. timeouts' \in [Actors -> Nat]
    <2>1. TimesOut(a) \/ UNCHANGED timeouts
        BY DEF ReceiveAnswer, ReceiveInput
    <2> QED
        BY <2>1, TimesOutTyped DEF TypeInvariant, EventTypes
<1>3. path' \in [Actors -> Seq(STRING)]
    <2>1. CASE ReceiveAnswer(a)
        <3>1. Complete(a) \/ path' = path
            BY <2>1 DEF ReceiveAnswer
        <3>2. cur[a] \in TransitionType
            BY <2>1 DEF TypeInvariant, FlowInvariant, FlowAt, ReceiveAnswer, Acting
        <3> QED
            BY <3>1, <3>2, CompleteTyped DEF TypeInvariant, MessageTypes
    <2>2. CASE ReceiveInput(a)
        BY <2>2 DEF ReceiveInput, TypeInvariant, MessageTypes
    <2> QED
        BY <2>1, <2>2
<1>4. stopEvent' = stopEvent
    BY VisitKeepsEvent DEF ReceiveAnswer, ReceiveInput, ReadRaises
<1>5. UNCHANGED <<connected, net, injected, requests, stopRequested, disturbed>>
    BY DEF ReceiveAnswer, ReceiveInput
<1> QED
    BY <1>1, <1>2, <1>3, <1>4, <1>5 DEF TypeInvariant, EventTypes, MessageTypes

\* The network delivers, loses and carries what strangers send.
LEMMA NetworkTyped ==
    ASSUME EventTypes, MessageTypes, NEW a \in Actors, Arrive(a) \/ Lose(a) \/ Inject(a)
    PROVE  EventTypes' /\ MessageTypes'
<1>1. inbox \in [Actors -> Seq(Numbered)] /\ net \in [Actors -> Seq(Numbered)]
    BY DEF MessageTypes
<1>2. CASE Arrive(a)
    <2>1. Head(net[a]) \in Numbered /\ Tail(net[a]) \in Seq(Numbered)
        BY <1>1, <1>2 DEF Arrive
    <2>2. Append(inbox[a], Head(net[a])) \in Seq(Numbered)
        BY <1>1, <2>1
    <2>3. net' \in [Actors -> Seq(Numbered)]
        BY <1>1, <1>2, <2>1 DEF Arrive
    <2>4. inbox' \in [Actors -> Seq(Numbered)]
        BY <1>1, <1>2, <2>2 DEF Arrive
    <2>5. disturbed' \in BOOLEAN
        BY <1>2 DEF Arrive, EventTypes
    <2>6. UNCHANGED <<stopEvent, connected, injected, rx, requests, timeouts, path,
                      stopRequested>>
        BY <1>2 DEF Arrive, flowVars
    <2> QED
        BY <2>3, <2>4, <2>5, <2>6 DEF EventTypes, MessageTypes
<1>3. CASE Lose(a)
    <2>1. Tail(net[a]) \in Seq(Numbered)
        BY <1>1, <1>3 DEF Lose
    <2>2. net' \in [Actors -> Seq(Numbered)] /\ disturbed' \in BOOLEAN
        BY <1>1, <1>3, <2>1 DEF Lose
    <2>3. UNCHANGED <<stopEvent, connected, inbox, injected, rx, requests, timeouts, path,
                      stopRequested>>
        BY <1>3 DEF Lose, flowVars
    <2> QED
        BY <2>2, <2>3 DEF EventTypes, MessageTypes
<1>4. CASE Inject(a)
    <2>1. PICK s \in Injected, f \in BOOLEAN :
              net' = [net EXCEPT ![a] = Append(@, Message(s, f, 0))]
        BY <1>4 DEF Inject
    <2>2. Message(s, f, 0) \in Numbered
        BY VisitAssumption DEF Message, Numbered
    <2>3. Append(net[a], Message(s, f, 0)) \in Seq(Numbered)
        BY <1>1, <2>2
    <2>4. net' \in [Actors -> Seq(Numbered)]
        BY <1>1, <2>1, <2>3
    <2>5. injected' \in 0..MaxInjected
        BY <1>4, VisitAssumption DEF Inject, EventTypes
    <2>6. disturbed' \in BOOLEAN
        BY <1>4 DEF Inject
    <2>7. UNCHANGED <<stopEvent, connected, inbox, rx, requests, timeouts, path,
                      stopRequested>>
        BY <1>4 DEF Inject, flowVars
    <2> QED
        BY <2>4, <2>5, <2>6, <2>7 DEF EventTypes, MessageTypes
<1> QED
    BY <1>2, <1>3, <1>4

LEMMA StepKeepsTypes ==
    ASSUME TypeInvariant, [Next]_vars
    PROVE  TypeInvariant'
<1>1. FlowInvariant' /\ LimitInvariant'
    BY StepKeepsFlow, StepKeepsLimit DEF TypeInvariant
<1>2. ASSUME NEW a \in Actors, ActorStep(a)
      PROVE  EventTypes' /\ MessageTypes'
    BY <1>2, QuietTyped, OpenCloseTyped, ExecSendTyped, ExecAnswerTyped, ReceiveTyped
       DEF ActorStep, TypeInvariant
<1>3. ASSUME NEW a \in Actors, Stop(a) \/ Arrive(a) \/ Lose(a) \/ Inject(a)
      PROVE  EventTypes' /\ MessageTypes'
    BY <1>3, QuietTyped, NetworkTyped DEF TypeInvariant
<1>4. ASSUME UNCHANGED vars
      PROVE  EventTypes' /\ MessageTypes'
    <2>1. UNCHANGED <<stopEvent, chanVars, histVars>>
        BY <1>4 DEF vars, flowVars
    <2> QED
        BY <2>1 DEF TypeInvariant, EventTypes, MessageTypes, chanVars, histVars
<1>5. EventTypes' /\ MessageTypes'
    BY <1>2, <1>3, <1>4 DEF Next
<1> QED
    BY <1>1, <1>5 DEF TypeInvariant

LEMMA InitTypes == Init => TypeInvariant
<1>1. Init => EventTypes
    <2>1. 0 \in 0..MaxInjected
        BY VisitAssumption
    <2>2. Init => disturbed \in BOOLEAN
        BY DEF Init
    <2> QED
        BY <2>1, <2>2 DEF Init, EventTypes
<1>2. Init => MessageTypes
    <2> SUFFICES ASSUME Init PROVE MessageTypes
        OBVIOUS
    <2>1. NoMessage \in Numbered
        BY DEF NoMessage, Message, Numbered
    <2>2. <<>> \in Seq(Numbered) /\ <<>> \in Seq(STRING)
        OBVIOUS
    <2> QED
        BY <2>1, <2>2 DEF Init, MessageTypes
<1> QED
    BY <1>1, <1>2, InitFlow, InitLimit DEF TypeInvariant

\* Every variable of a session keeps its type, for any actors, automata and
\* callbacks: no step of Actor or State is left without a state, a transition
\* or a message where it needs one.
THEOREM VisitTypeCorrect == Spec => []TypeOK
<1>1. Init => TypeInvariant
    BY InitTypes
<1>2. TypeInvariant /\ [Next]_vars => TypeInvariant'
    BY StepKeepsTypes
<1>3. TypeInvariant => TypeOK
    BY DEF TypeInvariant, EventTypes, MessageTypes, FlowInvariant, FlowTypes,
       LimitInvariant, TypeOK, Running, Over
<1> QED
    BY <1>1, <1>2, <1>3, PTL DEF Spec
=============================================================================
