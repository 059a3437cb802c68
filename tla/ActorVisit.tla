----------------------------- MODULE ActorVisit ------------------------------
(***************************************************************************)
(* Actors visiting their automata (Actor.run and execute_transition,       *)
(* State.execute, Transition.executeAs...), exchanging symbols through the *)
(* read and write operations of their abstraction layers.                  *)
(*                                                                         *)
(* Every actor is a thread with its own copy of the automaton.  A step     *)
(* goes from one operation on the channel, or one reading of the stop      *)
(* event, to the next.  Messages travel through a network that may lose    *)
(* them; the application may stop an actor at any moment.  A write to a    *)
(* channel whose thread has ended never returns (ThreadedChannel).         *)
(***************************************************************************)
EXTENDS Integers, Sequences, FiniteSets, SequencesExt

CONSTANTS
    Actors, States, Symbols,
    Empty,           \* EmptySymbol
    Unknown,         \* data that parses as no symbol of the automaton
    NoState,         \* None as a state
    NoTransition,    \* None as a transition
    Automaton,       \* Automaton[a][s]: the list state.transitions
    InitialState,    \* automata.initialState of each actor
    Initiator,       \* the actors created with initiator = True
    Peer,            \* who receives what an actor writes, or itself: nobody
    Threaded,        \* channel.threaded_mode, for the whole run
    KeepOpen,        \* the actors with keep_open = True
    Filtered,        \* the names of the transitions the filter callbacks keep
    Modifying,       \* the actors with a cbk_modify_transition
    Staying,         \* the actors whose read callbacks return current_state
    Target,          \* target_state of each actor, or NoState
    MaxTransitions,  \* nbMaxTransitions of each actor, 0 for None
    Lossy,           \* the network may lose messages
    Faults,          \* what reads and writes may raise, "oserror" or "exception"
    Injected,        \* symbols a stranger may send, Empty for a read without data
    MaxInjected      \* bound: how many of them

TransitionType ==
    [name : STRING, kind : {"Transition", "Open", "Close"}, to : States,
     prob : 0..100, input : Symbols \cup {Empty},
     outputs : SUBSET (Symbols \cup {Empty}), preset : BOOLEAN, inverse : BOOLEAN,
     drawn : SUBSET (Symbols \cup {Empty})]  \* the outputs of positive probability

ASSUME VisitAssumption ==
    /\ {Empty, Unknown} \cap Symbols = {} /\ NoState \notin States
    /\ NoTransition \notin TransitionType
    /\ Automaton \in [Actors -> [States -> Seq(TransitionType)]]
    /\ \A a \in Actors, s \in States : \A i \in DOMAIN Automaton[a][s] :
          Automaton[a][s][i].drawn \subseteq Automaton[a][s][i].outputs
    /\ InitialState \in [Actors -> States] /\ Peer \in [Actors -> Actors]
    /\ Initiator \subseteq Actors /\ KeepOpen \subseteq Actors
    /\ Modifying \subseteq Actors /\ Staying \subseteq Actors
    /\ Target \in [Actors -> States \cup {NoState}]
    /\ MaxTransitions \in [Actors -> Nat] /\ MaxInjected \in Nat
    /\ Threaded \in BOOLEAN /\ Lossy \in BOOLEAN
    /\ Faults \subseteq {"oserror", "exception"}
    /\ Injected \subseteq Symbols \cup {Unknown, Empty}

VARIABLES
    pc,           \* where the actor thread is
    state,        \* Actor.current_state
    cur,          \* the transition being executed
    via,          \* which path of State executes it
    stopEvent,    \* Actor.__stopEvent
    count,        \* Actor.__currentnbTransitions
    active,       \* State.active, for every state of the actor's automaton
    connected,    \* the layer is registered, or the socket is open
    inbox,        \* received messages the actor has not read
    net,          \* messages on their way to the actor
    injected,     \* messages the stranger has sent
    rx,           \* history: the last message read
    requests,     \* history: input symbols written by the actor
    timeouts,     \* history: reads of the actor that timed out
    path,         \* history: names of the transitions it completed
    stopRequested,\* history: the application called stop()
    disturbed     \* history: a message was lost, dropped or injected

flowVars == <<pc, state, cur, via, stopEvent, count, active>>
chanVars == <<connected, inbox, net, injected>>
histVars == <<rx, requests, timeouts, path, stopRequested, disturbed>>
vars     == <<flowVars, chanVars, histVars>>

\* A message is a symbol, whether its fields fit the preset of the transition
\* that expects it, and the number of the request it is or answers.
Message(s, f, n) == [sym |-> s, fits |-> f, of |-> n]
NoMessage == Message(Empty, TRUE, 0)

Init ==
    /\ pc = [a \in Actors |-> "loop"]
    /\ state = InitialState
    /\ cur = [a \in Actors |-> NoTransition]
    /\ via = [a \in Actors |-> "none"]
    /\ stopEvent = [a \in Actors |-> FALSE]
    /\ count = [a \in Actors |-> 0]
    /\ active = [a \in Actors |-> [s \in States |-> FALSE]]
    /\ connected = [a \in Actors |-> FALSE]
    /\ inbox = [a \in Actors |-> <<>>] /\ net = [a \in Actors |-> <<>>]
    /\ injected = 0
    /\ rx = [a \in Actors |-> NoMessage]
    /\ requests = [a \in Actors |-> 0] /\ timeouts = [a \in Actors |-> 0]
    /\ path = [a \in Actors |-> <<>>]
    /\ stopRequested = [a \in Actors |-> FALSE]
    /\ disturbed = FALSE

-----------------------------------------------------------------------------
(* Helpers. *)

Transitions(a) == Automaton[a][state[a]]

\* Whether the actor plays the initiator in transition t.
Initiates(a, t) == (a \in Initiator) # t.inverse

\* Faulty variants of operations defined below: each property is tested by a
\* variant that must violate it.  No behaviour of Spec takes them.

\* The received symbol is not compared with the one the transition expects.
ExpectingAny(a, m) ==
    {t \in ToSet(Transitions(a)) : ~Initiates(a, t) /\ t.kind = "Transition"}

\* The limit on the transitions is compared with ">".
FinishLate(a, s) ==
    /\ state' = [state EXCEPT ![a] = s]
    /\ cur' = [cur EXCEPT ![a] = NoTransition]
    /\ via' = [via EXCEPT ![a] = "none"]
    /\ count' = [count EXCEPT ![a] = @ + 1]
    /\ pc' = [pc EXCEPT ![a] =
                IF s = NoState \/ s = Target[a]
                   \/ (MaxTransitions[a] > 0 /\ count'[a] > MaxTransitions[a])
                THEN "exiting" ELSE "loop"]
    /\ UNCHANGED stopEvent

\* A read without a timeout.
NeverTimesOut(a) == FALSE /\ timeouts' = timeouts

\* __filter_available_transitions.
Available(a) == {t \in ToSet(Transitions(a)) : t.name \in Filtered}

\* __pick_next_transition draws only among the greatest probabilities.
Candidates(a) ==
    {t \in Available(a) : \A u \in Available(a) : u.prob <= t.prob}

\* __modify_current_transition: a callback may return any available one.
Modified(a, t) == IF a \in Modifying THEN Available(a) \cup {t} ELSE {t}

\* AbstractionLayer.check_received.
CheckReceived(a) == Threaded /\ inbox[a] # <<>>

\* The transition executeAsNotInitiator runs without reading: the last of
\* probability 100, or a closing transition that is alone.
SpecialOf(T) ==
    LET certain == {i \in 1..Len(T) : T[i].prob = 100}
    IN  IF certain # {} THEN T[CHOOSE i \in certain : \A j \in certain : j <= i]
        ELSE IF Len(T) = 1 /\ T[1].kind = "Close" THEN T[1]
        ELSE NoTransition
Special(a) == SpecialOf(Transitions(a))

\* The transitions that expect the received message; symbols are compared by
\* identity, so that the EmptySymbol made for a read without data fits none.
Expecting(a, m) ==
    {t \in ToSet(Transitions(a)) :
        /\ ~Initiates(a, t) /\ t.kind = "Transition"
        /\ t.input = m.sym /\ m.sym # Empty /\ (t.preset => m.fits)}

\* The transitions whose input is the empty symbol, whoever initiates it.
Unprompted(a) ==
    {t \in ToSet(Transitions(a)) : t.kind = "Transition" /\ t.input = Empty}

\* The first transition of the state that is one of ts.
FirstOf(a, ts) ==
    LET T == Transitions(a)
        places == {i \in 1..Len(T) : T[i] \in ts}
    IN  IF places = {} THEN NoTransition
        ELSE T[CHOOSE i \in places : \A j \in places : i <= j]

SetActive(a, b) == active' = [active EXCEPT ![a][state[a]] = b]

\* execute_transition once State.execute has returned the state s.
Finish(a, s) ==
    /\ state' = [state EXCEPT ![a] = s]
    /\ cur' = [cur EXCEPT ![a] = NoTransition]
    /\ via' = [via EXCEPT ![a] = "none"]
    /\ LET quits == s = NoState \/ s = Target[a] IN
       /\ count' = IF quits THEN count ELSE [count EXCEPT ![a] = @ + 1]
       /\ pc' = [pc EXCEPT ![a] =
                   IF quits \/ (MaxTransitions[a] > 0 /\ count'[a] >= MaxTransitions[a])
                   THEN "exiting" ELSE "loop"]
    /\ UNCHANGED stopEvent

\* An exception reaches Actor.run, which stops the actor where it stands.
\* Only executeAsInitiator and the reading of executeAsNotInitiator reset the
\* active flag of the state before the exception leaves them.
Raise(a, resets) ==
    /\ active' = IF resets THEN [active EXCEPT ![a][state[a]] = FALSE] ELSE active
    /\ pc' = [pc EXCEPT ![a] = "exiting"]
    /\ cur' = [cur EXCEPT ![a] = NoTransition]
    /\ via' = [via EXCEPT ![a] = "none"]
    /\ UNCHANGED <<state, stopEvent, count>>

\* A faulty variant: the reading path forgets to reset the flag at its end.
ConcludeActive(a, s) ==
    IF via[a] = "special" /\ s = NoState THEN Raise(a, TRUE)
    ELSE /\ Finish(a, s)
         /\ IF via[a] = "initiator" THEN SetActive(a, FALSE) ELSE UNCHANGED active

\* The transition returned the state s to State, on one of its three paths.
Conclude(a, s) ==
    IF via[a] = "special"
    THEN IF s = NoState
         THEN Raise(a, TRUE)
         ELSE Finish(a, s) /\ UNCHANGED active
    ELSE Finish(a, s) /\ SetActive(a, FALSE)

\* State begins to execute transition t; NoTransition stands for a read.
Execute(a, t, path_) ==
    /\ SetActive(a, TRUE)
    /\ cur' = [cur EXCEPT ![a] = t]
    /\ via' = [via EXCEPT ![a] = path_]
    /\ pc' = [pc EXCEPT ![a] = IF t = NoTransition THEN "await" ELSE "exec"]
    /\ UNCHANGED <<state, stopEvent, count>>

\* The transition is completed: it leads to its end state.
Complete(a) ==
    /\ Conclude(a, cur[a].to)
    /\ path' = IF cur[a].kind = "Transition"
               THEN [path EXCEPT ![a] = Append(@, cur[a].name)] ELSE path

\* The message reaches the network, unless nobody listens to this actor.
Transmit(a, m) ==
    net' = IF Peer[a] = a THEN net ELSE [net EXCEPT ![Peer[a]] = Append(@, m)]

-----------------------------------------------------------------------------
(* The steps of an actor thread. *)

\* The loop of Actor.run tests the stop event before every transition.
TestStopEvent(a) ==
    /\ pc[a] = "loop"
    /\ pc' = [pc EXCEPT ![a] = IF stopEvent[a] THEN "ended" ELSE "pick"]
    /\ UNCHANGED <<state, cur, via, stopEvent, count, active, chanVars, histVars>>

\* State.execute: react to a message that is already there, or pick.
Pick(a) ==
    /\ pc[a] = "pick"
    /\ IF CheckReceived(a) /\ \E t \in Available(a) :
                               t.kind = "Transition" /\ ~Initiates(a, t)
       THEN Execute(a, Special(a), IF Special(a) = NoTransition THEN "read" ELSE "special")
       ELSE \/ /\ Candidates(a) = {}
               /\ Finish(a, NoState) /\ UNCHANGED active
            \/ \E t \in Candidates(a) :
                  IF Initiates(a, t)
                  THEN \E u \in Modified(a, t) : Execute(a, u, "initiator")
                  ELSE Execute(a, Special(a),
                               IF Special(a) = NoTransition THEN "read" ELSE "special")
    /\ UNCHANGED <<chanVars, histVars>>

\* OpenChannelTransition: open() raises when the channel is open already.
ExecOpen(a) ==
    /\ pc[a] = "exec" /\ cur[a].kind = "Open"
    /\ IF ~Threaded /\ connected[a]
       THEN Raise(a, via[a] = "initiator") /\ UNCHANGED <<connected, path>>
       ELSE connected' = [connected EXCEPT ![a] = TRUE] /\ Complete(a)
    /\ UNCHANGED <<inbox, net, injected, rx, requests, timeouts, stopRequested,
                   disturbed>>

ExecClose(a) ==
    /\ pc[a] = "exec" /\ cur[a].kind = "Close"
    /\ connected' = [connected EXCEPT ![a] = FALSE]
    /\ Complete(a)
    /\ UNCHANGED <<inbox, net, injected, rx, requests, timeouts, stopRequested,
                   disturbed>>

\* A write does not succeed.  An OSError of the socket makes the transition
\* return no state; any other exception, also one of the specialization, goes up
\* through State to Actor.run; and in threaded mode the write waits for ever in
\* queue.join() once the thread of the channel has ended.
WriteFails(a) ==
    /\ \/ ~Threaded /\ "oserror" \in Faults /\ Conclude(a, NoState)
       \/ "exception" \in Faults /\ Raise(a, via[a] = "initiator")
       \/ /\ Threaded
          /\ pc' = [pc EXCEPT ![a] = "joining"]
          /\ UNCHANGED <<state, cur, via, stopEvent, count, active>>
    /\ UNCHANGED <<chanVars, histVars>>

\* Transition.executeAsInitiator, up to the reading of the answer: it writes
\* the input symbol, and nothing when this is the empty symbol.
ExecSend(a) ==
    /\ pc[a] = "exec" /\ cur[a].kind = "Transition" /\ via[a] = "initiator"
    /\ \/ /\ IF cur[a].input = Empty
             THEN UNCHANGED <<net, requests>>
             ELSE /\ requests' = [requests EXCEPT ![a] = @ + 1]
                  /\ Transmit(a, Message(cur[a].input, TRUE, requests'[a]))
          /\ IF cur[a].outputs \subseteq {Empty}
             THEN Complete(a)
             ELSE /\ pc' = [pc EXCEPT ![a] = "recv"]
                  /\ UNCHANGED <<state, cur, via, stopEvent, count, active, path>>
          /\ UNCHANGED <<connected, inbox, injected, rx, timeouts, stopRequested,
                         disturbed>>
       \/ cur[a].input # Empty /\ WriteFails(a)

\* Transition.executeAsNotInitiator: draw an output symbol and write it; there
\* may be none to draw (IndexError of random.choice).
ExecAnswer(a) ==
    /\ pc[a] = "exec" /\ cur[a].kind = "Transition" /\ via[a] # "initiator"
    /\ \/ \E s \in cur[a].drawn :
             /\ IF s = Empty THEN UNCHANGED net
                             ELSE Transmit(a, Message(s, TRUE, rx[a].of))
             /\ Complete(a)
             /\ UNCHANGED <<connected, inbox, injected, rx, requests, timeouts,
                            stopRequested, disturbed>>
       \/ ~(cur[a].drawn \subseteq {Empty}) /\ WriteFails(a)
       \/ /\ cur[a].drawn = {} /\ Raise(a, FALSE)
          /\ UNCHANGED <<chanVars, histVars>>

\* readSymbol by a stopped actor that does not keep its channel open: an
\* ActorStopException, or the OSError of the closed socket.
Interrupted(a) == stopEvent[a] /\ a \notin KeepOpen
ReadFails(a)   == ~Threaded /\ ~connected[a]

\* Any other exception of readSymbol, after which State is no longer active.
ReadRaises(a) == "exception" \in Faults /\ Raise(a, TRUE)

\* A faulty variant: a stack in place of the queue of received messages.
ReadsNewest(a) ==
    /\ inbox[a] # <<>> /\ ~ReadFails(a) /\ ~(Threaded /\ Interrupted(a))
    /\ rx' = [rx EXCEPT ![a] = Last(inbox[a])]
    /\ inbox' = [inbox EXCEPT ![a] = Front(@)]

\* readSymbol returns a message.
Reads(a) ==
    /\ inbox[a] # <<>> /\ ~ReadFails(a) /\ ~(Threaded /\ Interrupted(a))
    /\ rx' = [rx EXCEPT ![a] = Head(inbox[a])]
    /\ inbox' = [inbox EXCEPT ![a] = Tail(@)]

\* readSymbol gives up after its timeout.
TimesOut(a) ==
    /\ inbox[a] = <<>> /\ ~ReadFails(a) /\ ~(Threaded /\ Interrupted(a))
    /\ timeouts' = [timeouts EXCEPT ![a] = @ + 1]

\* ActorStopException: Actor.run leaves its loop without calling stop().
StopsReading(a) ==
    /\ Threaded /\ Interrupted(a)
    /\ pc' = [pc EXCEPT ![a] = "ended"]
    /\ active' = IF via[a] = "initiator"
                 THEN [active EXCEPT ![a][state[a]] = FALSE] ELSE active
    /\ cur' = [cur EXCEPT ![a] = NoTransition]
    /\ via' = [via EXCEPT ![a] = "none"]
    /\ UNCHANGED <<state, stopEvent, count>>

\* Transition.executeAsInitiator once it has sent: the reading of the answer.
\* The callback on an unexpected symbol is given the transition in place of
\* the state; if it returns it, Actor.current_state refuses it (TypeError).
ReceiveAnswer(a) ==
    /\ pc[a] = "recv"
    /\ \/ /\ Reads(a)
          /\ LET m == Head(inbox[a]) IN
             IF m.sym \in cur[a].outputs
             THEN IF cur[a].preset => m.fits
                  THEN Complete(a)
                  ELSE Conclude(a, NoState) /\ UNCHANGED path
             ELSE /\ IF a \notin Staying THEN Conclude(a, NoState)
                     ELSE IF m.sym = Unknown THEN Conclude(a, state[a])
                     ELSE Raise(a, TRUE)
                  /\ UNCHANGED path
          /\ UNCHANGED timeouts
       \/ /\ TimesOut(a)
          /\ Conclude(a, state[a])
          /\ UNCHANGED <<inbox, rx, path>>
       \/ /\ StopsReading(a)
          /\ UNCHANGED <<inbox, rx, timeouts, path>>
       \/ /\ ReadFails(a)
          /\ Conclude(a, NoState)
          /\ UNCHANGED <<inbox, rx, timeouts, path>>
       \/ /\ ReadRaises(a)
          /\ UNCHANGED <<inbox, rx, timeouts, path>>
    /\ UNCHANGED <<connected, net, injected, requests, stopRequested, disturbed>>

\* The rest of executeAsNotInitiator once the transition is known or not; what
\* the callbacks return for an unexpected or unknown message is not used, and
\* a modifying callback that returns None makes State fail on it.
React(a, t) ==
    \E u \in Modified(a, t) :
        IF u # NoTransition
        THEN /\ cur' = [cur EXCEPT ![a] = u]
             /\ pc' = [pc EXCEPT ![a] = "exec"]
             /\ UNCHANGED <<state, via, stopEvent, count, active>>
        ELSE IF a \in Staying \ Modifying THEN Conclude(a, NoState)
                                         ELSE Raise(a, FALSE)

\* State.executeAsNotInitiator without a special transition: the reading.
ReceiveInput(a) ==
    /\ pc[a] = "await"
    /\ \/ /\ Reads(a)
          /\ React(a, FirstOf(a, Expecting(a, Head(inbox[a]))))
          /\ UNCHANGED timeouts
       \/ /\ TimesOut(a)
          /\ IF Unprompted(a) # {}
             THEN React(a, FirstOf(a, Unprompted(a)))
             ELSE Conclude(a, NoState)
          /\ UNCHANGED <<inbox, rx>>
       \/ /\ StopsReading(a)
          /\ UNCHANGED <<inbox, rx, timeouts>>
       \/ /\ ReadFails(a)
          /\ Finish(a, NoState)
          /\ UNCHANGED <<active, inbox, rx, timeouts>>
       \/ /\ ReadRaises(a)
          /\ UNCHANGED <<inbox, rx, timeouts>>
    /\ UNCHANGED <<connected, net, injected, requests, path, stopRequested,
                   disturbed>>

\* Actor.stop called by the thread itself, at an exit condition.
ExitLoop(a) ==
    /\ pc[a] = "exiting"
    /\ stopEvent' = [stopEvent EXCEPT ![a] = TRUE]
    /\ connected' = IF a \in KeepOpen THEN connected
                                      ELSE [connected EXCEPT ![a] = FALSE]
    /\ pc' = [pc EXCEPT ![a] = "ended"]
    /\ UNCHANGED <<state, cur, via, count, active, inbox, net, injected, histVars>>

ActorStep(a) ==
    \/ TestStopEvent(a) \/ Pick(a) \/ ExecOpen(a) \/ ExecClose(a)
    \/ ExecSend(a) \/ ExecAnswer(a) \/ ReceiveAnswer(a) \/ ReceiveInput(a)
    \/ ExitLoop(a)

-----------------------------------------------------------------------------
(* The application and the network. *)

\* Actor.stop called by the application, while the actor runs.
Stop(a) ==
    /\ ~stopEvent[a]
    /\ stopEvent' = [stopEvent EXCEPT ![a] = TRUE]
    /\ stopRequested' = [stopRequested EXCEPT ![a] = TRUE]
    /\ connected' = IF a \in KeepOpen THEN connected
                                      ELSE [connected EXCEPT ![a] = FALSE]
    /\ UNCHANGED <<pc, state, cur, via, count, active, inbox, net, injected, rx,
                   requests, timeouts, path, disturbed>>

\* A message arrives; it is dropped when the actor is not connected.
Arrive(a) ==
    /\ net[a] # <<>>
    /\ net' = [net EXCEPT ![a] = Tail(@)]
    /\ IF connected[a]
       THEN inbox' = [inbox EXCEPT ![a] = Append(@, Head(net[a]))] /\ UNCHANGED disturbed
       ELSE disturbed' = TRUE /\ UNCHANGED inbox
    /\ UNCHANGED <<flowVars, connected, injected, rx, requests, timeouts, path,
                   stopRequested>>

Lose(a) ==
    /\ Lossy /\ net[a] # <<>>
    /\ net' = [net EXCEPT ![a] = Tail(@)]
    /\ disturbed' = TRUE
    /\ UNCHANGED <<flowVars, connected, inbox, injected, rx, requests, timeouts,
                   path, stopRequested>>

\* A stranger, or a peer that does not follow the automaton, sends a message.
Inject(a) ==
    /\ injected < MaxInjected
    /\ injected' = injected + 1
    /\ \E s \in Injected, f \in BOOLEAN :
          net' = [net EXCEPT ![a] = Append(@, Message(s, f, 0))]
    /\ disturbed' = TRUE
    /\ UNCHANGED <<flowVars, connected, inbox, rx, requests, timeouts, path,
                   stopRequested>>

Next == \E a \in Actors :
    \/ ActorStep(a) \/ Stop(a) \/ Arrive(a) \/ Lose(a) \/ Inject(a)

Spec == Init /\ [][Next]_vars

\* Every actor is a running thread, which stops for ever only in queue.join()
\* (no step leaves "joining"); the network delivers eventually.
FairSpec == Spec /\ \A a \in Actors : WF_vars(ActorStep(a)) /\ WF_vars(Arrive(a))

-----------------------------------------------------------------------------
(* Properties. *)

Numbered == [sym : Symbols \cup {Empty, Unknown}, fits : BOOLEAN, of : Nat]

\* The one type invariant.
TypeOK ==
    /\ pc \in [Actors -> {"loop", "pick", "exec", "recv", "await", "joining",
                         "exiting", "ended"}]
    /\ state \in [Actors -> States \cup {NoState}]
    /\ \A a \in Actors : cur[a] \in TransitionType \cup {NoTransition}
    /\ via \in [Actors -> {"none", "initiator", "special", "read"}]
    /\ stopEvent \in [Actors -> BOOLEAN] /\ count \in [Actors -> Nat]
    /\ active \in [Actors -> [States -> BOOLEAN]]
    /\ connected \in [Actors -> BOOLEAN]
    /\ inbox \in [Actors -> Seq(Numbered)] /\ net \in [Actors -> Seq(Numbered)]
    /\ injected \in 0..MaxInjected
    /\ rx \in [Actors -> Numbered]
    /\ requests \in [Actors -> Nat] /\ timeouts \in [Actors -> Nat]
    /\ path \in [Actors -> Seq(STRING)]
    /\ stopRequested \in [Actors -> BOOLEAN] /\ disturbed \in BOOLEAN

\* As long as no message was lost and no read timed out, two actors that visit
\* the same automaton follow the same path, one of them possibly ahead, also
\* when either is stopped at any moment (State.execute on both sides).
AgreeOnPath ==
    (~disturbed /\ \A a \in Actors : timeouts[a] = 0) =>
        \A a \in Actors : \/ IsPrefix(path[a], path[Peer[a]])
                          \/ IsPrefix(path[Peer[a]], path[a])

\* A state that opens or closes the channel and does nothing else.
OpensOrCloses(list) == Len(list) = 1 /\ list[1].kind # "Transition"

\* A state of exchanges: the same side begins them all, with inputs that tell
\* them apart, and waits for an answer.
OffersExchanges(list) ==
    /\ \A i \in DOMAIN list :
        /\ list[i].kind = "Transition" /\ list[i].prob # 100
        /\ list[i].input # Empty /\ list[i].outputs # {} /\ Empty \notin list[i].outputs
    /\ \A i, j \in DOMAIN list :
        /\ list[i].inverse = list[j].inverse
        /\ list[i].input = list[j].input => list[i] = list[j]

\* The sessions in which peers stay in step: the two of a pair visit the same
\* automaton of such states from the same state, and only one of them is the
\* initiator; who modifies the transitions begins them.
SessionOfPairs ==
    /\ \A a \in Actors :
        /\ Peer[Peer[a]] = a /\ (a \in Initiator) # (Peer[a] \in Initiator)
        /\ Automaton[Peer[a]] = Automaton[a] /\ InitialState[Peer[a]] = InitialState[a]
        /\ \A s \in States :
            OpensOrCloses(Automaton[a][s]) \/ OffersExchanges(Automaton[a][s])
    /\ \A a \in Modifying, s \in States : \A i \in DOMAIN Automaton[a][s] :
        Initiates(a, Automaton[a][s][i])

\* Such sessions in which the initiator begins every exchange.
ClientsAsk ==
    /\ SessionOfPairs
    /\ \A a \in Actors, s \in States : \A i \in DOMAIN Automaton[a][s] :
        ~Automaton[a][s][i].inverse

\* In a session of two actors the variables keep their types and the actors
\* stay in step.
PeersInStep == TypeOK /\ AgreeOnPath

\* After a timeout the initiator starts the transition again, and the late
\* answer to the abandoned request is taken for the answer to the new one. Each
\* timeout makes all later answers exactly one request older, and nothing that
\* the actor does afterwards makes up for it.
StaleByTimeoutsOnly ==
    [][\A a \in Actors :
          ~disturbed /\ pc[a] = "recv" /\ Len(inbox'[a]) < Len(inbox[a])
            => requests[a] - rx'[a].of = timeouts[a]]_vars

\* An actor never begins a transition beyond nbMaxTransitions, whatever the
\* transitions before led to (execute_transition).
VisitLimit ==
    \A a \in Actors :
        MaxTransitions[a] > 0 /\ pc[a] \in {"pick", "exec", "recv", "await", "joining"}
            => count[a] < MaxTransitions[a]

\* The actors whose automaton only has transitions they initiate.
PureInitiators ==
    {a \in Initiator : \A s \in States :
        \A i \in 1..Len(Automaton[a][s]) : ~Automaton[a][s][i].inverse}

\* The actor is inside State.execute.
Executing(a) == pc[a] \in {"exec", "recv", "await", "joining"}

\* The states whose flag tells something: one that an actor may leave through a
\* transition run without reading stays active afterwards (State.py:216-225).
Told(a) == IF a \in PureInitiators THEN States
           ELSE {s \in States : SpecialOf(Automaton[a][s]) = NoTransition}

\* The state an actor executes is active; every other state that tells is not,
\* however many strange symbols, failing writes, callbacks and changes of role
\* the visit has been through.  Only the one at which a visit broke off may stay
\* active, and that of an actor that begins every exchange does not.
ActiveIffExecuting ==
    \A a \in Actors :
        /\ Executing(a) => active[a][state[a]]
        /\ \A s \in Told(a) : active[a][s] =>
              \/ state[a] = s /\ Executing(a)
              \/ pc[a] \in {"exiting", "ended"} /\ a \notin PureInitiators
        /\ \A s, u \in Told(a) : active[a][s] /\ active[a][u] => s = u

\* A stopped actor ends, unless it waits in queue.join() for a thread that has
\* ended: no other read, write or callback holds it for ever.
StopEndsVisit == \A a \in Actors : stopEvent[a] ~> pc[a] \in {"ended", "joining"}

\* A session whose client has a limit on its transitions ends on both sides, with
\* the same exception.
SessionEnds == <>(\A a \in Actors : pc[a] \in {"ended", "joining"})

\* Over a network that loses messages, and whatever reads time out, every visit
\* ends that was stopped or whose client has a limit, or waits in queue.join();
\* an actor that waits there does not hold the other one.
VisitsEnd == StopEndsVisit /\ SessionEnds

=============================================================================
