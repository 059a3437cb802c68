------------------------ MODULE ActorSessions_proofs -------------------------
(***************************************************************************)
(* Theorems about the sessions of two actors, for any automaton of states  *)
(* that open or close the channel and states of exchanges, any number of   *)
(* requests and of pairs of actors.                                        *)
(*                                                                         *)
(* PeersInStep is not inductive: that the paths of two peers agree rests   *)
(* on what is under way between them.  PairInvariant says so.  While no    *)
(* read timed out and nothing was disturbed, one of two peers has ended    *)
(* behind the other, or they are at one of four places: neither has begun  *)
(* an exchange (Level); one has asked (Asked); the other has read the      *)
(* question (Understood); it has answered, and may have asked in turn or   *)
(* ended (Answered).                                                       *)
(*                                                                         *)
(* How old an answer is rests on TallyInvariant: the answers under way,    *)
(* the one in preparation and the questions under way are numbered in a    *)
(* row, from the number of answers that were read.                         *)
(***************************************************************************)
EXTENDS ActorVisit_proofs, SequenceTheorems

-----------------------------------------------------------------------------
(* Peers stay in step. *)

\* The state s of the automaton of a only opens or closes the channel.
Operates(a, s) == s \in States /\ OpensOrCloses(Automaton[a][s])

\* Both states lead to the same exchanges: no set of states that the openings
\* and closings do not enter or leave tells them apart.
Closed(a, S) ==
    \A s \in States : Operates(a, s) => (s \in S <=> Automaton[a][s][1].to \in S)
Same(a, s, r) == \A S \in SUBSET States : Closed(a, S) => (s \in S <=> r \in S)

\* An actor is gone that ended, or that waits for ever for a write to return;
\* inside, it executes a transition.
Gone   == Over \cup {"joining"}
Inside == {"exec", "recv"}

Alive(a) == pc[a] \in Running \ {"joining"}
Answering(a) == pc[a] = "exec" /\ via[a] = "read"
Walking(a) == Alive(a) /\ pc[a] # "recv" /\ ~Answering(a)

\* What is under way to an actor.
Way(a) == inbox[a] \o net[a]

Asks(m, t) == m.sym = t.input /\ m.fits
Fits(m, t) == m.sym \in t.outputs /\ m.fits

\* An actor executes a transition of its state, on the path of State that fits
\* the side that begins it.
PlaceAt(a) ==
    /\ pc[a] \in Inside => cur[a] \in ToSet(Transitions(a))
    /\ pc[a] = "recv" => cur[a].kind = "Transition"
    /\ pc[a] \in Inside /\ cur[a].kind = "Transition" =>
          via[a] = IF Initiates(a, cur[a]) THEN "initiator" ELSE "read"
    /\ pc[a] = "exec" /\ cur[a].kind # "Transition" => via[a] # "read"
    /\ pc[a] = "await" => a \notin Modifying

\* Where a pair can be: neither has begun an exchange; x has asked; y has read
\* the question; y has answered, and may have asked in turn or ended.
Level(x, y) ==
    /\ path[x] = path[y] /\ Walking(x) /\ Walking(y)
    /\ Way(x) = <<>> /\ Way(y) = <<>> /\ Same(x, state[x], state[y])
Asked(x, y) ==
    /\ pc[x] = "recv" /\ path[x] = path[y] /\ Walking(y) /\ Same(x, state[x], state[y])
    /\ Way(x) = <<>> /\ Len(Way(y)) = 1 /\ Asks(Head(Way(y)), cur[x])
Understood(x, y) ==
    /\ pc[x] = "recv" /\ path[x] = path[y] /\ Answering(y) /\ cur[y] = cur[x]
    /\ Way(x) = <<>> /\ Way(y) = <<>>
Ahead(x, y, w) ==
    \/ ~Alive(y)
    \/ /\ Same(x, cur[x].to, state[y]) /\ Way(y) = <<>>
       /\ \/ w = <<>> /\ Walking(y)
          \/ pc[y] = "recv" /\ Len(w) = 1 /\ Asks(Head(w), cur[y])
Answered(x, y) ==
    /\ pc[x] = "recv" /\ path[y] = Append(path[x], cur[x].name)
    /\ Way(x) # <<>> /\ Fits(Head(Way(x)), cur[x]) /\ Ahead(x, y, Tail(Way(x)))
InOrder(x, y) ==
    \/ ~Alive(x) /\ IsPrefix(path[x], path[y])
    \/ Level(x, y) \/ Asked(x, y) \/ Understood(x, y) \/ Answered(x, y)

Calm == ~disturbed /\ \A a \in Actors : timeouts[a] = 0
PairInvariant ==
    /\ \A a \in Actors : PlaceAt(a)
    /\ Calm => \A a \in Actors : InOrder(a, Peer[a]) \/ InOrder(Peer[a], a)

\* Two states lead to the same exchanges, or not.
LEMMA SameIsEquivalence ==
    ASSUME NEW a, NEW r, NEW s, NEW t
    PROVE  /\ Same(a, r, r) /\ (Same(a, r, s) => Same(a, s, r))
           /\ Same(a, r, s) /\ Same(a, s, t) => Same(a, r, t)
BY DEF Same

\* An opening or a closing leads to the same exchanges.
LEMMA SameAfter ==
    ASSUME NEW a, NEW s, Operates(a, s)
    PROVE  Same(a, s, Automaton[a][s][1].to)
BY DEF Same, Closed, Operates

\* States of exchanges that lead to the same exchanges are the same state.
LEMMA SameState ==
    ASSUME NEW a, NEW r \in States, NEW s \in States, ~Operates(a, r), ~Operates(a, s),
           Same(a, r, s)
    PROVE  r = s
<1> DEFINE Back(S) == \A z \in States :
              Operates(a, z) /\ Automaton[a][z][1].to \in S => z \in S
           All == {S \in SUBSET States : r \in S /\ Back(S)}
           Least == {z \in States : \A S \in All : z \in S}
<1>1. r \in Least
    OBVIOUS
<1>2. ASSUME NEW S \in All PROVE Least \subseteq S
    OBVIOUS
<1>3. Back(Least)
    <2> SUFFICES ASSUME NEW z \in States, Operates(a, z), Automaton[a][z][1].to \in Least,
                        NEW S \in All
                 PROVE  z \in S
        OBVIOUS
    <2> QED
        OBVIOUS
<1>4. ASSUME NEW z \in States, Operates(a, z), z \in Least
      PROVE  Automaton[a][z][1].to \in Least
    <2> SUFFICES ASSUME Automaton[a][z][1].to \notin Least PROVE FALSE
        OBVIOUS
    <2> DEFINE S == Least \ {z}
    <2>1. r \in S
        BY <1>1, <1>4
    <2>2. ASSUME NEW w \in States, Operates(a, w), Automaton[a][w][1].to \in S
          PROVE  w \in S
        BY <1>3, <2>2
    <2>3. S \in All
        BY <2>1, <2>2
    <2>4. z \in S
        BY <1>2, <1>4, <2>3
    <2> QED
        BY <2>4
<1>5. Closed(a, Least)
    BY <1>3, <1>4 DEF Closed
<1>6. s \in Least
    BY <1>1, <1>5 DEF Same
<1> DEFINE T == Least \ {s}
<1>7. ASSUME r # s PROVE FALSE
    <2>1. r \in T
        BY <1>1, <1>7
    <2>2. ASSUME NEW w \in States, Operates(a, w), Automaton[a][w][1].to \in T
          PROVE  w \in T
        BY <1>3, <2>2
    <2>3. T \in All
        BY <2>1, <2>2
    <2> QED
        BY <1>2, <1>6, <2>3
<1> QED
    BY <1>7

\* Peers have the same automaton.
LEMMA SamePeer ==
    ASSUME SessionOfPairs, NEW a \in Actors
    PROVE  /\ Peer[a] \in Actors /\ Peer[Peer[a]] = a /\ Peer[a] # a
           /\ \A s : Operates(Peer[a], s) <=> Operates(a, s)
           /\ \A r, s : Same(Peer[a], r, s) <=> Same(a, r, s)
<1>1. Peer[a] \in Actors /\ Peer[Peer[a]] = a /\ Peer[a] # a
    BY VisitAssumption DEF SessionOfPairs
<1>2. Automaton[Peer[a]] = Automaton[a]
    BY DEF SessionOfPairs
<1>3. \A s : Operates(Peer[a], s) <=> Operates(a, s)
    BY <1>2 DEF Operates
<1>4. \A S : Closed(Peer[a], S) <=> Closed(a, S)
    BY <1>2, <1>3 DEF Closed
<1> QED
    BY <1>1, <1>3, <1>4 DEF Same

\* A transition of a state tells what the others of the state are.
LEMMA OfState ==
    ASSUME SessionOfPairs, NEW a \in Actors, state[a] \in States, NEW t \in ToSet(Transitions(a))
    PROVE  /\ t \in TransitionType
           /\ t.kind # "Transition" =>
                 /\ Operates(a, state[a]) /\ t = Automaton[a][state[a]][1]
                 /\ \A u \in ToSet(Transitions(a)) : u = t
           /\ t.kind = "Transition" =>
                 /\ ~Operates(a, state[a]) /\ t.input # Empty
                 /\ t.outputs # {} /\ Empty \notin t.outputs
                 /\ Empty \notin t.drawn /\ t.drawn \subseteq t.outputs
                 /\ \A u \in ToSet(Transitions(a)) :
                       /\ u.kind = "Transition" /\ u.inverse = t.inverse /\ u.prob # 100
                       /\ u.input # Empty /\ (u.input = t.input => u = t)
<1> DEFINE T == Automaton[a][state[a]]
<1>1. T \in Seq(TransitionType) /\ Transitions(a) = T
    BY VisitAssumption DEF Transitions
<1>2. ToSet(Transitions(a)) = {T[i] : i \in 1..Len(T)}
    BY <1>1 DEF ToSet
<1>3. PICK k \in 1..Len(T) : t = T[k]
    BY <1>2
<1>4. t \in TransitionType
    BY <1>1, <1>3
<1>5. OpensOrCloses(T) \/ OffersExchanges(T)
    BY DEF SessionOfPairs
<1>6. CASE OpensOrCloses(T)
    <2>1. Len(T) = 1 /\ T[1].kind # "Transition" /\ k = 1
        BY <1>1, <1>3, <1>6 DEF OpensOrCloses
    <2>2. \A u \in ToSet(Transitions(a)) : u = T[1]
        BY <1>2, <2>1
    <2> QED
        BY <1>3, <1>4, <1>6, <2>1, <2>2 DEF Operates
<1>7. CASE OffersExchanges(T)
    <2>1. DOMAIN T = 1..Len(T)
        BY <1>1
    <2>2. \A i \in 1..Len(T) : T[i].kind = "Transition"
        BY <1>7, <2>1 DEF OffersExchanges
    <2>3. ~OpensOrCloses(T)
        BY <2>2 DEF OpensOrCloses
    <2>4. ~Operates(a, state[a])
        BY <2>3 DEF Operates
    <2>5. t.kind = "Transition" /\ t.input # Empty /\ t.outputs # {} /\ Empty \notin t.outputs
        BY <1>3, <1>7, <2>1 DEF OffersExchanges
    <2>7. Empty \notin t.drawn /\ t.drawn \subseteq t.outputs
        BY <1>3, <2>1, <2>5, VisitAssumption
    <2>6. ASSUME NEW u \in ToSet(Transitions(a))
          PROVE  /\ u.kind = "Transition" /\ u.inverse = t.inverse /\ u.prob # 100
                 /\ u.input # Empty /\ (u.input = t.input => u = t)
        <3>1. PICK j \in 1..Len(T) : u = T[j]
            BY <1>2
        <3> QED
            BY <1>3, <1>7, <2>1, <3>1 DEF OffersExchanges
    <2> QED
        BY <1>4, <2>4, <2>5, <2>6, <2>7
<1> QED
    BY <1>5, <1>6, <1>7

-----------------------------------------------------------------------------
(* The ways in which a step of an actor changes a pair. *)

\* The other actors stay where they are.
Elsewhere(a) ==
    \A b \in Actors \ {a} :
        /\ pc'[b] = pc[b] /\ state'[b] = state[b] /\ cur'[b] = cur[b] /\ via'[b] = via[b]
        /\ path'[b] = path[b]

\* Nobody's messages change but those on their way to a.
Apart(a) == \A b \in Actors \ {a} : Way(b)' = Way(b)

Still == \A b \in Actors : Way(b)' = Way(b)

\* The actor takes the first message on its way.
Gets(a) == Way(a) # <<>> /\ Way(a)' = Tail(Way(a)) /\ Apart(a)

\* The actor sends m to its peer.
Sent(a, m) == Way(Peer[a])' = Append(Way(Peer[a]), m) /\ Apart(Peer[a])

\* The actor ends, or is at the head of its loop in the state s.
Arrives(a, s) == pc'[a] \in Gone \/ (pc'[a] = "loop" /\ via'[a] = "none" /\ state'[a] = s)

\* It ends, maybe after a message that it does not understand.
Dies(a) == pc'[a] \in Gone /\ path'[a] = path[a] /\ Apart(a)

\* It goes on outside of exchanges.
Walks(a) ==
    /\ Walking(a) /\ Walking(a)' /\ Same(a, state[a], state'[a])
    /\ path'[a] = path[a] /\ Still

\* It begins an exchange.
Sends(a) ==
    /\ Walking(a) /\ pc'[a] = "recv" /\ Initiates(a, cur[a]) /\ cur[a].kind = "Transition"
    /\ cur[a] \in ToSet(Transitions(a))
    /\ cur'[a] = cur[a] /\ state'[a] = state[a] /\ path'[a] = path[a]
    /\ \E m \in Numbered : Asks(m, cur[a]) /\ Sent(a, m)

\* It understands a question.
Takes(a) ==
    /\ Walking(a) /\ Answering(a)' /\ Gets(a) /\ path'[a] = path[a]
    /\ LET m == Head(Way(a))
           t == FirstOf(a, Expecting(a, m))
       IN  t # NoTransition /\ cur'[a] = t

\* It answers.
Answers(a) ==
    /\ Answering(a) /\ path'[a] = Append(path[a], cur[a].name) /\ Arrives(a, cur[a].to)
    /\ \E m \in Numbered : Fits(m, cur[a]) /\ Sent(a, m)

\* It understands the answer.
Completes(a) ==
    /\ pc[a] = "recv" /\ Gets(a) /\ Fits(Head(Way(a)), cur[a])
    /\ path'[a] = Append(path[a], cur[a].name) /\ Arrives(a, cur[a].to)

\* It reads what is not the answer.
Misreads(a) ==
    /\ pc[a] = "recv" /\ Gets(a) /\ ~Fits(Head(Way(a)), cur[a])
    /\ path'[a] = path[a] \/ path'[a] = Append(path[a], cur[a].name)

Changes(a) ==
    Dies(a) \/ Walks(a) \/ Sends(a) \/ Takes(a) \/ Answers(a) \/ Completes(a) \/ Misreads(a)

\* A step changes where a stands, and without a timeout in one of these ways.
Steps(a) == Elsewhere(a) /\ PlaceAt(a)' /\ (timeouts' = timeouts => Changes(a))

\* Taking the first, adding a last and passing one on, of two queues in a row.
LEMMA TwoQueues ==
    ASSUME NEW S, NEW s \in Seq(S), NEW n \in Seq(S)
    PROVE  /\ \A m \in S : s \o Append(n, m) = Append(s \o n, m)
           /\ s # <<>> => /\ s \o n # <<>> /\ Head(s \o n) = Head(s)
                          /\ Tail(s \o n) = Tail(s) \o n
           /\ n # <<>> => Append(s, Head(n)) \o Tail(n) = s \o n
<1>2. PICK j \in Nat, k \in Nat : j = Len(s) /\ k = Len(n)
    BY LenProperties
<1>1. /\ s \o n \in Seq(S) /\ Len(s \o n) = j + k
      /\ \A i \in 1..j + k : (s \o n)[i] = IF i <= j THEN s[i] ELSE n[i - j]
    BY <1>2, ConcatProperties
<1>3. ASSUME NEW m \in S PROVE s \o Append(n, m) = Append(s \o n, m)
    <2>1. PICK e : e = <<m>>
        OBVIOUS
    <2>2. e \in Seq(S)
        BY <1>3, <2>1
    <2>3. Append(n, m) = n \o e /\ Append(s \o n, m) = (s \o n) \o e
        BY <1>1, <1>3, <2>1, AppendIsConcat
    <2> QED
        BY <2>2, <2>3, ConcatAssociative
<1>4. ASSUME s # <<>>
      PROVE  s \o n # <<>> /\ Head(s \o n) = Head(s) /\ Tail(s \o n) = Tail(s) \o n
    <2>1. j >= 1 /\ Head(s) = s[1]
        BY <1>2, <1>4
    <2>2. s \o n # <<>>
        BY <1>1, <1>2, <2>1
    <2>3. Head(s \o n) = (s \o n)[1]
        BY <1>1, <2>2
    <2>4. /\ Tail(s) \in Seq(S) /\ Len(Tail(s)) = j - 1
          /\ \A i \in 1..j - 1 : Tail(s)[i] = s[i + 1]
        BY <1>2, <1>4, HeadTailProperties
    <2>5. /\ Tail(s \o n) \in Seq(S) /\ Len(Tail(s \o n)) = j + k - 1
          /\ \A i \in 1..j + k - 1 : Tail(s \o n)[i] = (s \o n)[i + 1]
        BY <1>1, <1>2, <2>2, HeadTailProperties
    <2>6. /\ Tail(s) \o n \in Seq(S) /\ Len(Tail(s) \o n) = (j - 1) + k
          /\ \A i \in 1..(j - 1) + k :
                (Tail(s) \o n)[i] = IF i <= j - 1 THEN Tail(s)[i] ELSE n[i - (j - 1)]
        BY <1>2, <2>4, ConcatProperties
    <2>7. \A i \in 1..j + k - 1 : Tail(s \o n)[i] = (Tail(s) \o n)[i]
        BY <1>1, <1>2, <2>1, <2>4, <2>5, <2>6
    <2>8. Len(Tail(s \o n)) = Len(Tail(s) \o n)
        BY <2>1, <2>5, <2>6
    <2>9. Tail(s \o n) = Tail(s) \o n
        BY <2>5, <2>6, <2>7, <2>8, SeqEqual
    <2> QED
        BY <1>1, <1>2, <2>1, <2>2, <2>3, <2>9
<1>5. ASSUME n # <<>>
      PROVE  Append(s, Head(n)) \o Tail(n) = s \o n
    <2>1. /\ Head(n) \in S /\ Tail(n) \in Seq(S)
        BY <1>5, HeadTailProperties
    <2>2. PICK e : e = <<Head(n)>>
        OBVIOUS
    <2>3. e \in Seq(S) /\ Append(s, Head(n)) = s \o e
        BY <2>1, <2>2, AppendIsConcat
    <2>4. n = e \o Tail(n)
        BY <1>5, <2>2
    <2>5. (s \o e) \o Tail(n) = s \o (e \o Tail(n))
        BY <2>1, <2>3, ConcatAssociative
    <2> QED
        BY <2>3, <2>4, <2>5
<1> QED
    BY <1>3, <1>4, <1>5

\* A step that leaves inboxes and network alone moves no message.
LEMMA StillWay ==
    ASSUME UNCHANGED <<inbox, net>>
    PROVE  Still
BY DEF Still, Way

LEMMA StillApart ==
    ASSUME Still, NEW a
    PROVE  Apart(a)
BY DEF Still, Apart

\* What is under way is a sequence of messages.
LEMMA WayTyped ==
    ASSUME MessageTypes, NEW a \in Actors
    PROVE  Way(a) \in Seq(Numbered)
BY DEF MessageTypes, Way

\* What was sent is the last under way.
LEMMA TransmitSent ==
    ASSUME MessageTypes, SessionOfPairs, NEW a \in Actors, NEW m \in Numbered,
           Transmit(a, m), UNCHANGED inbox
    PROVE  Sent(a, m)
<1> DEFINE p == Peer[a]
<1>1. p \in Actors /\ p # a
    BY SamePeer
<1>2. inbox[p] \in Seq(Numbered) /\ net[p] \in Seq(Numbered) /\ net \in [Actors -> Seq(Numbered)]
    BY <1>1 DEF MessageTypes
<1>3. net' = [net EXCEPT ![p] = Append(net[p], m)]
    BY <1>1 DEF Transmit
<1>4. net'[p] = Append(net[p], m) /\ \A b \in Actors \ {p} : net'[b] = net[b]
    BY <1>1, <1>2, <1>3
<1>5. inbox[p] \o Append(net[p], m) = Append(inbox[p] \o net[p], m)
    <2>1. PICK r \in Seq(Numbered), n \in Seq(Numbered) : r = inbox[p] /\ n = net[p]
        BY <1>2
    <2>2. \A e \in Numbered : r \o Append(n, e) = Append(r \o n, e)
        BY TwoQueues
    <2> QED
        BY <2>1, <2>2
<1> QED
    BY <1>4, <1>5 DEF Sent, Apart, Way

\* What is read is the first under way.
LEMMA ReadsGets ==
    ASSUME MessageTypes, NEW a \in Actors, Reads(a), UNCHANGED net
    PROVE  Gets(a) /\ Head(inbox[a]) = Head(Way(a))
<1>1. /\ inbox[a] \in Seq(Numbered) /\ net[a] \in Seq(Numbered) /\ inbox[a] # <<>>
      /\ inbox \in [Actors -> Seq(Numbered)]
    BY DEF MessageTypes, Reads
<1>2. inbox' = [inbox EXCEPT ![a] = Tail(inbox[a])]
    BY DEF Reads
<1>3. inbox'[a] = Tail(inbox[a]) /\ \A b \in Actors \ {a} : inbox'[b] = inbox[b]
    BY <1>1, <1>2
<1>4. PICK s \in Seq(Numbered), n \in Seq(Numbered) : s = inbox[a] /\ n = net[a] /\ s # <<>>
    BY <1>1
<1>5. s \o n # <<>> /\ Head(s \o n) = Head(s) /\ Tail(s \o n) = Tail(s) \o n
    BY <1>4, TwoQueues
<1> QED
    BY <1>3, <1>4, <1>5 DEF Gets, Apart, Way

\* A message that arrives was under way already.
LEMMA ArriveStill ==
    ASSUME MessageTypes, NEW a \in Actors, Arrive(a), connected[a]
    PROVE  Still
<1>1. PICK s \in Seq(Numbered), n \in Seq(Numbered) : s = inbox[a] /\ n = net[a] /\ n # <<>>
    BY DEF MessageTypes, Arrive
<1>2. /\ inbox'[a] = Append(s, Head(n)) /\ net'[a] = Tail(n)
      /\ \A b \in Actors \ {a} : inbox'[b] = inbox[b] /\ net'[b] = net[b]
    BY <1>1 DEF MessageTypes, Arrive
<1>3. Append(s, Head(n)) \o Tail(n) = s \o n
    <2>1. n # <<>> => Append(s, Head(n)) \o Tail(n) = s \o n
        BY TwoQueues
    <2> QED
        BY <1>1, <2>1
<1> QED
    BY <1>1, <1>2, <1>3 DEF Still, Way

\* What Leaves does to a pair: at the head of the loop, or over.
LEMMA OutOfPlace ==
    ASSUME FlowInvariant, NEW a \in Actors, Leaves(a), \A b \in Actors \ {a} : path'[b] = path[b]
    PROVE  Elsewhere(a) /\ PlaceAt(a)' /\ via'[a] = "none"
<1>1. PICK p \in {"loop"} \cup Over, s \in States \cup {NoState} :
          pc' = [pc EXCEPT ![a] = p] /\ state' = [state EXCEPT ![a] = s]
    BY DEF Leaves
<1>2. cur' = [cur EXCEPT ![a] = NoTransition] /\ via' = [via EXCEPT ![a] = "none"]
    BY DEF Leaves
<1>3. Elsewhere(a)
    BY <1>1, <1>2 DEF Elsewhere, FlowInvariant, FlowTypes
<1>4. pc'[a] \in {"loop"} \cup Over /\ via'[a] = "none"
    BY <1>1, <1>2 DEF FlowInvariant, FlowTypes
<1>5. pc'[a] \notin Inside /\ pc'[a] # "await"
    BY <1>4 DEF Gone, Over, Inside
<1> QED
    BY <1>3, <1>4, <1>5, SMT DEF PlaceAt, Inside

\* Finish leads to its state, if it is one.
LEMMA FinishArrives ==
    ASSUME FlowInvariant, NEW a \in Actors, NEW s \in States \cup {NoState}, Finish(a, s)
    PROVE  Arrives(a, s) /\ (s = NoState => pc'[a] \in Gone)
<1>1. pc'[a] \in {"exiting", "loop"} /\ (s = NoState => pc'[a] = "exiting")
    BY DEF Finish, FlowInvariant, FlowTypes
<1>2. state'[a] = s /\ via'[a] = "none"
    BY DEF Finish, FlowInvariant, FlowTypes
<1> QED
    BY <1>1, <1>2 DEF Arrives, Gone, Over

\* Raise ends the actor.
LEMMA RaiseEnds ==
    ASSUME FlowInvariant, NEW a \in Actors, NEW r, Raise(a, r)
    PROVE  pc'[a] \in Gone
BY DEF Raise, FlowInvariant, FlowTypes, Gone, Over

\* Conclude leads to its state, if it is one.
LEMMA ConcludeArrives ==
    ASSUME FlowInvariant, NEW a \in Actors, NEW s \in States \cup {NoState}, Conclude(a, s)
    PROVE  Arrives(a, s) /\ (s = NoState => pc'[a] \in Gone)
<1>1. CASE Finish(a, s)
    BY <1>1, FinishArrives
<1>2. CASE Raise(a, TRUE)
    BY <1>2, RaiseEnds DEF Arrives
<1> QED
    BY <1>1, <1>2 DEF Conclude

\* An actor that leaves its transition, and is over.
LEMMA OverSteps ==
    ASSUME FlowInvariant, NEW a \in Actors, Leaves(a), pc'[a] \in Gone, path' = path, Apart(a)
    PROVE  Steps(a)
BY OutOfPlace DEF Steps, Changes, Dies

\* The test of the stop event, and the end.
LEMMA LoopSteps ==
    ASSUME FlowInvariant, NEW a \in Actors, TestStopEvent(a) \/ ExitLoop(a)
    PROVE  Steps(a)
<1>1. /\ path' = path /\ UNCHANGED <<inbox, net>> /\ state' = state /\ cur' = cur /\ via' = via
    BY DEF TestStopEvent, ExitLoop, chanVars, histVars
<1>2. Still /\ Apart(a)
    BY <1>1, StillWay, StillApart
<1>3. PICK p \in {"pick", "ended"} :
          /\ pc' = [pc EXCEPT ![a] = p] /\ pc[a] \in {"loop", "exiting"}
          /\ p = "pick" => pc[a] = "loop"
    BY DEF TestStopEvent, ExitLoop
<1>4. pc'[a] = p /\ \A b \in Actors \ {a} : pc'[b] = pc[b]
    BY <1>3 DEF FlowInvariant, FlowTypes
<1>5. Elsewhere(a)
    BY <1>1, <1>4 DEF Elsewhere
<1>6. PlaceAt(a)'
    <2>1. pc'[a] \notin Inside /\ pc'[a] # "await"
        BY <1>4 DEF Inside
    <2> QED
        BY <2>1, SMT DEF PlaceAt, Inside
<1>7. p = "ended" => Dies(a)
    BY <1>1, <1>2, <1>4 DEF Dies, Gone, Over
<1>8. p = "pick" => Walks(a)
    <2> SUFFICES ASSUME p = "pick" PROVE Walks(a)
        OBVIOUS
    <2>1. Walking(a)
        BY <1>3 DEF Walking, Alive, Answering, Running
    <2>2. Walking(a)'
        BY <1>4 DEF Walking, Alive, Answering, Running
    <2>3. Same(a, state[a], state'[a])
        BY <1>1, SameIsEquivalence
    <2> QED
        BY <1>1, <1>2, <2>1, <2>2, <2>3 DEF Walks
<1> QED
    BY <1>5, <1>6, <1>7, <1>8 DEF Steps, Changes

\* What executeAsNotInitiator executes without reading opens or closes.
LEMMA SpecialOperates ==
    ASSUME SessionOfPairs, NEW a \in Actors, state[a] \in States, Special(a) # NoTransition
    PROVE  Special(a) \in ToSet(Transitions(a)) /\ Special(a).kind # "Transition"
<1> DEFINE T == Transitions(a)
           certain == {i \in 1..Len(T) : T[i].prob = 100}
           last == CHOOSE i \in certain : \A j \in certain : j <= i
<1>1. T \in Seq(TransitionType) /\ Len(T) \in Nat
    BY TransitionsTyped
<1>2. \A i \in 1..Len(T) : T[i] \in ToSet(T)
    BY <1>1 DEF ToSet
<1>3. CASE certain # {}
    <2>1. PICK i \in certain : \A j \in certain : j <= i
        BY <1>1, <1>3, LastPosition
    <2>2. last \in certain
        BY <2>1
    <2>3. T[last] \in ToSet(T) /\ T[last].prob = 100
        BY <1>2, <2>2
    <2>4. T[last].kind # "Transition"
        BY <2>3, OfState
    <2>5. Special(a) = T[last]
        BY <1>3 DEF Special, SpecialOf
    <2> QED
        BY <2>3, <2>4, <2>5
<1>4. CASE certain = {}
    <2>1. Len(T) = 1 /\ T[1].kind = "Close" /\ Special(a) = T[1]
        BY <1>4 DEF Special, SpecialOf
    <2> QED
        BY <1>2, <2>1
<1> QED
    BY <1>3, <1>4

\* State begins to execute a transition, or to read.
LEMMA ExecuteSteps ==
    ASSUME FlowInvariant, SessionOfPairs, NEW a \in Actors, pc[a] = "pick",
           NEW t, NEW v \in {"initiator", "special", "read"}, Execute(a, t, v),
           UNCHANGED <<chanVars, histVars>>,
           \/ t = NoTransition /\ v = "read" /\ a \notin Modifying
           \/ /\ t # NoTransition /\ t \in ToSet(Transitions(a))
              /\ IF t.kind = "Transition" THEN v = "initiator" /\ Initiates(a, t)
                                          ELSE v # "read"
    PROVE  Steps(a)
<1>1. /\ path' = path /\ UNCHANGED <<inbox, net>> /\ state' = state
    BY DEF Execute, chanVars, histVars
<1>2. Still
    BY <1>1, StillWay
<1>3. /\ pc' = [pc EXCEPT ![a] = IF t = NoTransition THEN "await" ELSE "exec"]
      /\ cur' = [cur EXCEPT ![a] = t] /\ via' = [via EXCEPT ![a] = v]
    BY DEF Execute
<1>4. /\ pc'[a] = IF t = NoTransition THEN "await" ELSE "exec"
      /\ cur'[a] = t /\ via'[a] = v
      /\ \A b \in Actors \ {a} : pc'[b] = pc[b] /\ cur'[b] = cur[b] /\ via'[b] = via[b]
    BY <1>3 DEF FlowInvariant, FlowTypes
<1>5. Elsewhere(a)
    BY <1>1, <1>4 DEF Elsewhere
<1>6. PlaceAt(a)'
    <2>1. Transitions(a)' = Transitions(a)
        BY <1>1 DEF Transitions
    <2>2. CASE t = NoTransition
        BY <1>4, <2>2 DEF PlaceAt, Inside
    <2>3. CASE t # NoTransition
        BY <1>4, <2>1, <2>3 DEF PlaceAt, Inside, Initiates
    <2> QED
        BY <2>2, <2>3
<1>7. Walking(a)
    BY DEF Walking, Alive, Answering, Running
<1>8. Walking(a)'
    <2>1. pc'[a] \in Running \ {"joining", "recv"}
        BY <1>4 DEF Running
    <2>2. pc'[a] = "exec" => via'[a] # "read"
        BY <1>4
    <2> QED
        BY <2>1, <2>2 DEF Walking, Alive, Answering
<1>9. Same(a, state[a], state'[a])
    BY <1>1, SameIsEquivalence
<1> QED
    BY <1>1, <1>2, <1>5, <1>6, <1>7, <1>8, <1>9 DEF Steps, Changes, Walks

\* State picks what to execute.
LEMMA PickSteps ==
    ASSUME FlowInvariant, SessionOfPairs, NEW a \in Actors, Pick(a)
    PROVE  Steps(a)
<1> DEFINE Reacts == Execute(a, Special(a),
                             IF Special(a) = NoTransition THEN "read" ELSE "special")
<1>1. /\ pc[a] = "pick" /\ state[a] \in States /\ UNCHANGED <<chanVars, histVars>>
    BY DEF Pick, FlowInvariant, FlowAt, Running
<1>2. Still /\ Apart(a) /\ path' = path
    BY <1>1, StillWay, StillApart DEF chanVars, histVars
<1>3. \/ Finish(a, NoState) /\ UNCHANGED active
      \/ \E t \in Available(a) : ~Initiates(a, t) /\ Reacts
      \/ \E t \in Available(a) : Initiates(a, t) /\ \E u \in Modified(a, t) : Execute(a, u, "initiator")
    BY Zenon DEF Pick, Candidates
<1>4. CASE Finish(a, NoState) /\ UNCHANGED active
    <2>1. Leaves(a)
        BY <1>1, <1>4, FinishLeaves DEF Executing, Running
    <2>2. pc'[a] \in Gone
        BY <1>4, FinishArrives
    <2> QED
        BY <1>2, <2>1, <2>2, OverSteps
<1>5. ASSUME NEW t \in Available(a), ~Initiates(a, t), Reacts
      PROVE  Steps(a)
    <2>1. a \notin Modifying
        <3>1. t \in ToSet(Transitions(a))
            BY <1>1, <1>5, AvailableTyped
        <3>2. Transitions(a) = Automaton[a][state[a]]
            BY DEF Transitions
        <3>3. \E i \in DOMAIN Automaton[a][state[a]] : t = Automaton[a][state[a]][i]
            BY <3>1, <3>2 DEF ToSet
        <3> QED
            BY <1>1, <1>5, <3>3 DEF SessionOfPairs
    <2>2. CASE Special(a) = NoTransition
        BY <1>1, <1>5, <2>1, <2>2, ExecuteSteps
    <2>3. CASE Special(a) # NoTransition
        BY <1>1, <1>5, <2>3, SpecialOperates, ExecuteSteps
    <2> QED
        BY <2>2, <2>3
<1>6. ASSUME NEW t \in Available(a), Initiates(a, t), NEW u \in Modified(a, t),
             Execute(a, u, "initiator")
      PROVE  Steps(a)
    <2>1. u \in TransitionType /\ u \in ToSet(Transitions(a)) /\ t \in ToSet(Transitions(a))
        BY <1>1, <1>6, ModifiedTyped, AvailableTyped
    <2>2. u # NoTransition
        BY <2>1, VisitAssumption
    <2>3. u.kind = "Transition" => Initiates(a, u)
        <3>1. u.kind = "Transition" => t.inverse = u.inverse
            BY <1>1, <2>1, OfState
        <3> QED
            BY <1>6, <3>1 DEF Initiates
    <2> QED
        BY <1>1, <1>6, <2>1, <2>2, <2>3, ExecuteSteps
<1> QED
    BY <1>3, <1>4, <1>5, <1>6

\* An opening or closing that is completed.
LEMMA OperationSteps ==
    ASSUME FlowInvariant, SessionOfPairs, NEW a \in Actors, PlaceAt(a), pc[a] = "exec",
           cur[a].kind # "Transition", Complete(a), UNCHANGED <<inbox, net>>
    PROVE  Steps(a)
<1>1. /\ state[a] \in States /\ cur[a] \in TransitionType /\ cur[a] \in ToSet(Transitions(a))
      /\ via[a] # "read" /\ cur[a].to \in States
    BY DEF FlowInvariant, FlowAt, PlaceAt, Running, Acting, Inside, TransitionType
<1>2. Leaves(a) /\ path' = path /\ Conclude(a, cur[a].to)
    BY CompleteLeaves DEF Complete, Acting
<1>3. Arrives(a, cur[a].to)
    BY <1>1, <1>2, ConcludeArrives
<1>4. Still /\ Apart(a)
    BY StillWay, StillApart
<1>5. CASE pc'[a] \in Gone
    BY <1>2, <1>4, <1>5, OverSteps
<1>6. CASE pc'[a] = "loop" /\ state'[a] = cur[a].to
    <2>1. Same(a, state[a], cur[a].to)
        BY <1>1, OfState, SameAfter
    <2>2. Walking(a)
        BY <1>1 DEF Walking, Alive, Answering, Running
    <2>3. Walking(a)'
        BY <1>6 DEF Walking, Alive, Answering, Running
    <2>4. Walks(a)
        BY <1>2, <1>4, <1>6, <2>1, <2>2, <2>3 DEF Walks
    <2> QED
        BY <1>2, <2>4, OutOfPlace DEF Steps, Changes
<1> QED
    BY <1>3, <1>5, <1>6 DEF Arrives

\* The channel is opened, or closed.
LEMMA OpenCloseSteps ==
    ASSUME FlowInvariant, SessionOfPairs, NEW a \in Actors, PlaceAt(a),
           ExecOpen(a) \/ ExecClose(a)
    PROVE  Steps(a)
<1>1. pc[a] = "exec" /\ cur[a].kind # "Transition" /\ UNCHANGED <<inbox, net>>
    BY DEF ExecOpen, ExecClose
<1>2. Complete(a) \/ (Raise(a, via[a] = "initiator") /\ path' = path)
    BY DEF ExecOpen, ExecClose
<1>3. CASE Raise(a, via[a] = "initiator") /\ path' = path
    <2>1. a \in PureInitiators => via[a] = "initiator"
        BY <1>1, PureInitiator DEF Executing
    <2>2. Leaves(a)
        BY <1>1, <1>3, <2>1, RaiseLeaves DEF Running
    <2> QED
        BY <1>1, <1>3, <2>2, RaiseEnds, StillWay, StillApart, OverSteps
<1> QED
    BY <1>1, <1>2, <1>3, OperationSteps

\* A write that fails ends the actor, or never returns.
LEMMA WriteFailsEnds ==
    ASSUME FlowInvariant, NEW a \in Actors, pc[a] = "exec", WriteFails(a)
    PROVE  \/ Leaves(a) /\ pc'[a] \in Gone
           \/ pc' = [pc EXCEPT ![a] = "joining"] /\ UNCHANGED <<state, cur, via>>
<1>1. Executing(a) /\ pc[a] \in Running
    BY DEF Executing, Running
<1>2. CASE Conclude(a, NoState)
    BY <1>1, <1>2, ConcludeLeaves, ConcludeArrives
<1>3. CASE Raise(a, via[a] = "initiator")
    BY <1>1, <1>3, PureInitiator, RaiseLeaves, RaiseEnds
<1> QED
    BY <1>2, <1>3 DEF WriteFails

\* Only an actor that does not begin every exchange waits for a question.
LEMMA AwaitNotPure ==
    ASSUME FlowInvariant, NEW a \in Actors, pc[a] = "await"
    PROVE  a \notin PureInitiators
BY DEF FlowInvariant, PureAt

\* A write fails.
LEMMA WriteFailsSteps ==
    ASSUME FlowInvariant, NEW a \in Actors, pc[a] = "exec", WriteFails(a)
    PROVE  Steps(a)
<1>1. UNCHANGED <<inbox, net>> /\ path' = path
    BY DEF WriteFails, chanVars, histVars
<1>2. Apart(a)
    BY <1>1, StillWay, StillApart
<1>3. CASE Leaves(a) /\ pc'[a] \in Gone
    BY <1>1, <1>2, <1>3, OverSteps
<1>4. CASE pc' = [pc EXCEPT ![a] = "joining"] /\ UNCHANGED <<state, cur, via>>
    <2>1. pc'[a] = "joining" /\ \A b \in Actors \ {a} : pc'[b] = pc[b]
        BY <1>4 DEF FlowInvariant, FlowTypes
    <2>2. Elsewhere(a)
        BY <1>1, <1>4, <2>1 DEF Elsewhere
    <2>3. PlaceAt(a)'
        BY <2>1 DEF PlaceAt, Inside
    <2>4. Dies(a)
        BY <1>1, <1>2, <2>1 DEF Dies, Gone
    <2> QED
        BY <2>2, <2>3, <2>4 DEF Steps, Changes
<1> QED
    BY <1>3, <1>4, WriteFailsEnds

\* What is sent is a message.
LEMMA MessageTyped ==
    ASSUME NEW s \in Symbols \cup {Empty}, NEW f \in BOOLEAN, NEW n \in Nat
    PROVE  /\ Message(s, f, n) \in Numbered
           /\ Message(s, f, n).sym = s /\ Message(s, f, n).fits = f /\ Message(s, f, n).of = n
BY DEF Message, Numbered

\* A question is sent.
LEMMA SendSteps ==
    ASSUME FlowInvariant, MessageTypes, EventTypes, SessionOfPairs, NEW a \in Actors, PlaceAt(a),
           ExecSend(a)
    PROVE  Steps(a)
<1>1. /\ pc[a] = "exec" /\ cur[a].kind = "Transition" /\ via[a] = "initiator"
      /\ state[a] \in States /\ cur[a] \in TransitionType /\ cur[a] \in ToSet(Transitions(a))
    BY DEF ExecSend, FlowInvariant, FlowAt, PlaceAt, Running, Acting, Inside
<1>2. Initiates(a, cur[a])
    BY <1>1 DEF PlaceAt, Inside
<1>3. cur[a].input # Empty /\ ~(cur[a].outputs \subseteq {Empty}) /\ cur[a].input \in Symbols \cup {Empty}
    <2>1. cur[a].input # Empty /\ cur[a].outputs # {} /\ Empty \notin cur[a].outputs
        BY <1>1, OfState
    <2> QED
        BY <1>1, <2>1 DEF TransitionType
<1>4. CASE WriteFails(a)
    BY <1>1, <1>4, WriteFailsSteps
<1>5. CASE /\ requests' = [requests EXCEPT ![a] = @ + 1]
           /\ Transmit(a, Message(cur[a].input, TRUE, requests'[a]))
           /\ pc' = [pc EXCEPT ![a] = "recv"]
           /\ UNCHANGED <<state, cur, via, stopEvent, count, active, path>>
           /\ UNCHANGED <<connected, inbox, injected, rx, timeouts, stopRequested, disturbed>>
    <2>1. requests'[a] \in Nat
        BY <1>5 DEF EventTypes
    <2>2. PICK m \in Numbered : m = Message(cur[a].input, TRUE, requests'[a]) /\ Asks(m, cur[a])
        BY <1>3, <2>1, MessageTyped DEF Asks
    <2>3. Sent(a, m)
        BY <1>5, <2>2, TransmitSent
    <2>4. pc'[a] = "recv" /\ \A b \in Actors \ {a} : pc'[b] = pc[b]
        BY <1>5 DEF FlowInvariant, FlowTypes
    <2>5. Elsewhere(a)
        BY <1>5, <2>4 DEF Elsewhere
    <2>6. Transitions(a)' = Transitions(a) /\ (Initiates(a, cur[a]))' = Initiates(a, cur[a])
        BY <1>5 DEF Transitions, Initiates
    <2>7. PlaceAt(a)'
        BY <1>1, <1>2, <1>5, <2>4, <2>6 DEF PlaceAt, Inside
    <2>8. Walking(a)
        BY <1>1 DEF Walking, Alive, Answering, Running
    <2>9. Sends(a)
        BY <1>1, <1>2, <1>5, <2>2, <2>3, <2>4, <2>8 DEF Sends
    <2> QED
        BY <2>5, <2>7, <2>9 DEF Steps, Changes
<1> QED
    BY <1>3, <1>4, <1>5 DEF ExecSend

\* A question is answered.
LEMMA AnswerSteps ==
    ASSUME FlowInvariant, MessageTypes, SessionOfPairs, NEW a \in Actors, PlaceAt(a),
           ExecAnswer(a)
    PROVE  Steps(a)
<1>1. /\ pc[a] = "exec" /\ cur[a].kind = "Transition" /\ via[a] # "initiator"
      /\ state[a] \in States /\ cur[a] \in TransitionType /\ cur[a] \in ToSet(Transitions(a))
    BY DEF ExecAnswer, FlowInvariant, FlowAt, PlaceAt, Running, Acting, Inside
<1>2. Answering(a)
    BY <1>1 DEF PlaceAt, Inside, Answering
<1>3. /\ Empty \notin cur[a].drawn /\ cur[a].drawn \subseteq cur[a].outputs
      /\ cur[a].outputs \subseteq Symbols \cup {Empty}
    <2>1. Empty \notin cur[a].drawn /\ cur[a].drawn \subseteq cur[a].outputs
        BY <1>1, OfState
    <2> QED
        BY <1>1, <2>1 DEF TransitionType
<1>4. CASE WriteFails(a)
    BY <1>1, <1>4, WriteFailsSteps
<1>5. ASSUME NEW s \in cur[a].drawn, Transmit(a, Message(s, TRUE, rx[a].of)), Complete(a),
             UNCHANGED <<connected, inbox, injected, rx, requests, timeouts, stopRequested,
                         disturbed>>
      PROVE  Steps(a)
    <2>1. rx[a].of \in Nat /\ s \in Symbols \cup {Empty}
        BY <1>3, <1>5 DEF MessageTypes, Numbered
    <2>2. PICK m \in Numbered : m = Message(s, TRUE, rx[a].of) /\ Fits(m, cur[a])
        <3>1. s \in cur[a].outputs
            BY <1>3, <1>5
        <3> QED
            BY <2>1, <3>1, MessageTyped DEF Fits
    <2>3. Sent(a, m)
        BY <1>5, <2>2, TransmitSent
    <2>4. path' = [path EXCEPT ![a] = Append(@, cur[a].name)] /\ Conclude(a, cur[a].to)
        BY <1>1, <1>5 DEF Complete
    <2>5. path'[a] = Append(path[a], cur[a].name) /\ \A b \in Actors \ {a} : path'[b] = path[b]
        BY <2>4 DEF MessageTypes
    <2>6. Leaves(a)
        BY <1>1, <1>5, CompleteLeaves DEF Acting
    <2>7. cur[a].to \in States
        BY <1>1 DEF TransitionType
    <2>8. Arrives(a, cur[a].to)
        BY <2>4, <2>7, ConcludeArrives
    <2>9. Answers(a)
        BY <1>2, <2>2, <2>3, <2>5, <2>8 DEF Answers
    <2> QED
        BY <2>5, <2>6, <2>9, OutOfPlace DEF Steps, Changes
<1>6. CASE cur[a].drawn = {} /\ Raise(a, FALSE) /\ UNCHANGED <<chanVars, histVars>>
    <2>1. a \notin PureInitiators
        BY <1>1, PureInitiator DEF Executing
    <2>2. Leaves(a) /\ pc'[a] \in Gone
        BY <1>1, <1>6, <2>1, RaiseLeaves, RaiseEnds DEF Running
    <2>3. UNCHANGED <<inbox, net>> /\ path' = path
        BY <1>6 DEF chanVars, histVars
    <2> QED
        BY <2>2, <2>3, StillWay, StillApart, OverSteps
<1> QED
    BY <1>3, <1>4, <1>5, <1>6 DEF ExecAnswer

\* StopsReading and a channel that is closed end the actor.
LEMMA StopsOver ==
    ASSUME FlowInvariant, NEW a \in Actors, pc[a] \in {"recv", "await"}, StopsReading(a)
    PROVE  Leaves(a) /\ pc'[a] \in Gone
<1>1. pc'[a] = "ended"
    BY DEF StopsReading, FlowInvariant, FlowTypes
<1> QED
    BY <1>1, StopsReadingLeaves DEF Gone, Over

\* A timeout is counted.
LEMMA TimesOutCounts ==
    ASSUME EventTypes, NEW a \in Actors, TimesOut(a)
    PROVE  timeouts' # timeouts
BY DEF EventTypes, TimesOut

\* Reading the answer.
LEMMA ReceiveAnswerSteps ==
    ASSUME FlowInvariant, MessageTypes, EventTypes, SessionOfPairs, NEW a \in Actors, PlaceAt(a),
           ReceiveAnswer(a)
    PROVE  Steps(a)
<1>1. /\ pc[a] = "recv" /\ cur[a].kind = "Transition"
      /\ state[a] \in States /\ cur[a] \in TransitionType /\ cur[a].to \in States
    BY DEF ReceiveAnswer, FlowInvariant, FlowAt, PlaceAt, Running, Acting, Inside, TransitionType
<1>2. net' = net
    BY DEF ReceiveAnswer
<1>3. CASE StopsReading(a) /\ UNCHANGED <<inbox, rx, timeouts, path>>
    BY <1>1, <1>2, <1>3, StopsOver, StillWay, StillApart, OverSteps
<1>4. CASE ReadFails(a) /\ Conclude(a, NoState) /\ UNCHANGED <<inbox, rx, timeouts, path>>
    <2>1. Leaves(a) /\ pc'[a] \in Gone
        BY <1>1, <1>4, ConcludeLeaves, ConcludeArrives DEF Executing
    <2> QED
        BY <1>2, <1>4, <2>1, StillWay, StillApart, OverSteps
<1>5. CASE TimesOut(a) /\ Conclude(a, state[a]) /\ UNCHANGED <<inbox, rx, path>>
    BY <1>1, <1>5, ConcludeLeaves, OutOfPlace, TimesOutCounts DEF Steps, Executing
<1>6. CASE /\ Reads(a)
           /\ LET m == Head(inbox[a]) IN
              IF m.sym \in cur[a].outputs
              THEN IF cur[a].preset => m.fits
                   THEN Complete(a)
                   ELSE Conclude(a, NoState) /\ UNCHANGED path
              ELSE /\ IF a \notin Staying THEN Conclude(a, NoState)
                      ELSE IF m.sym = Unknown THEN Conclude(a, state[a])
                      ELSE Raise(a, TRUE)
                   /\ UNCHANGED path
    <2>1. Gets(a) /\ Head(inbox[a]) = Head(Way(a))
        BY <1>2, <1>6, ReadsGets
    <2>2. PICK m : m = Head(inbox[a])
        OBVIOUS
    <2>3. CASE m.sym \in cur[a].outputs /\ Complete(a)
        <3>1. path' = [path EXCEPT ![a] = Append(@, cur[a].name)] /\ Conclude(a, cur[a].to)
            BY <1>1, <2>3 DEF Complete
        <3>2. path'[a] = Append(path[a], cur[a].name) /\ \A b \in Actors \ {a} : path'[b] = path[b]
            BY <3>1 DEF MessageTypes
        <3>3. Leaves(a)
            BY <1>1, <2>3, CompleteLeaves DEF Acting
        <3>4. Arrives(a, cur[a].to)
            BY <1>1, <3>1, ConcludeArrives
        <3>5. m.fits => Completes(a)
            BY <1>1, <2>1, <2>2, <2>3, <3>2, <3>4 DEF Completes, Fits
        <3>6. ~m.fits => Misreads(a)
            BY <1>1, <2>1, <2>2, <3>2 DEF Misreads, Fits
        <3> QED
            BY <3>2, <3>3, <3>5, <3>6, OutOfPlace DEF Steps, Changes
    <2>4. CASE m.sym \in cur[a].outputs /\ ~(cur[a].preset => m.fits) /\ Conclude(a, NoState)
               /\ path' = path
        <3>1. Leaves(a) /\ pc'[a] \in Gone
            BY <1>1, <2>4, ConcludeLeaves, ConcludeArrives DEF Executing
        <3> QED
            BY <2>1, <2>4, <3>1, OverSteps DEF Gets
    <2>5. CASE /\ m.sym \notin cur[a].outputs /\ path' = path
               /\ Conclude(a, NoState) \/ Conclude(a, state[a]) \/ Raise(a, TRUE)
        <3>1. Leaves(a)
            BY <1>1, <2>5, ConcludeLeaves, RaiseLeaves DEF Executing, Running
        <3>2. Misreads(a)
            BY <1>1, <2>1, <2>2, <2>5 DEF Misreads, Fits
        <3> QED
            BY <2>5, <3>1, <3>2, OutOfPlace DEF Steps, Changes
    <2> QED
        BY <1>6, <2>2, <2>3, <2>4, <2>5
<1>8. CASE ReadRaises(a) /\ UNCHANGED <<inbox, rx, timeouts, path>>
    <2>1. Leaves(a) /\ pc'[a] \in Gone
        BY <1>1, <1>8, RaiseLeaves, RaiseEnds DEF ReadRaises, Running
    <2> QED
        BY <1>2, <1>8, <2>1, StillWay, StillApart, OverSteps
<1> QED
    BY <1>3, <1>4, <1>5, <1>6, <1>8 DEF ReceiveAnswer

\* The first of the transitions that expect a message is one of them.
LEMMA FirstExpecting ==
    ASSUME NEW a \in Actors, state[a] \in States, NEW ts, FirstOf(a, ts) # NoTransition
    PROVE  FirstOf(a, ts) \in ts /\ FirstOf(a, ts) \in ToSet(Transitions(a))
<1> DEFINE T == Transitions(a)
           places == {i \in 1..Len(T) : T[i] \in ts}
           first == CHOOSE i \in places : \A j \in places : i <= j
<1>1. T \in Seq(TransitionType) /\ Len(T) \in Nat
    BY TransitionsTyped
<1>2. places # {} /\ FirstOf(a, ts) = T[first]
    BY DEF FirstOf
<1>a. places \in SUBSET Nat
    BY <1>1
<1>3. PICK i \in places : \A j \in places : i <= j
    BY <1>2, <1>a, FirstPosition
<1>4. first \in places
    BY <1>3
<1>b. T[first] \in ts /\ first \in 1..Len(T)
    BY <1>4
<1>5. ToSet(T) = {T[k] : k \in 1..Len(T)}
    BY <1>1 DEF ToSet
<1>6. T[first] \in ToSet(T)
    BY <1>b, <1>5
<1> QED
    BY <1>2, <1>b, <1>6

\* If one of ts is there, there is a first one.
LEMMA FirstExists ==
    ASSUME NEW a \in Actors, state[a] \in States, NEW ts, NEW t \in ts, t \in ToSet(Transitions(a))
    PROVE  FirstOf(a, ts) # NoTransition
<1> DEFINE T == Transitions(a)
           places == {i \in 1..Len(T) : T[i] \in ts}
           first == CHOOSE i \in places : \A j \in places : i <= j
<1>1. T \in Seq(TransitionType) /\ Len(T) \in Nat
    BY TransitionsTyped
<1>2. places # {}
    BY <1>1 DEF ToSet
<1>3. FirstOf(a, ts) = T[first]
    BY <1>2 DEF FirstOf
<1>a. places \in SUBSET Nat
    BY <1>1
<1>4. PICK i \in places : \A j \in places : i <= j
    BY <1>2, <1>a, FirstPosition
<1>5. first \in places
    BY <1>4
<1>6. T[first] \in TransitionType
    BY <1>1, <1>5
<1> QED
    BY <1>3, <1>6, VisitAssumption

\* Reading a question.
LEMMA ReceiveInputSteps ==
    ASSUME FlowInvariant, MessageTypes, EventTypes, SessionOfPairs, NEW a \in Actors, PlaceAt(a),
           ReceiveInput(a)
    PROVE  Steps(a)
<1>1. /\ pc[a] = "await" /\ state[a] \in States /\ via[a] = "read" /\ a \notin Modifying
    BY DEF ReceiveInput, FlowInvariant, FlowAt, PlaceAt, Running
<1>2. net' = net /\ path' = path
    BY DEF ReceiveInput
<1>3. CASE StopsReading(a) /\ UNCHANGED <<inbox, rx, timeouts>>
    BY <1>1, <1>2, <1>3, StopsOver, StillWay, StillApart, OverSteps
<1>4. CASE ReadFails(a) /\ Finish(a, NoState) /\ UNCHANGED <<active, inbox, rx, timeouts>>
    <2>1. Leaves(a) /\ pc'[a] \in Gone
        BY <1>1, <1>4, AwaitNotPure, FinishLeaves, FinishArrives DEF Running
    <2> QED
        BY <1>2, <1>4, <2>1, StillWay, StillApart, OverSteps
<1>5. CASE /\ TimesOut(a)
           /\ IF Unprompted(a) # {}
              THEN React(a, FirstOf(a, Unprompted(a)))
              ELSE Conclude(a, NoState)
    <2>1. Unprompted(a) = {}
        <3> SUFFICES ASSUME NEW t \in Unprompted(a) PROVE FALSE
            OBVIOUS
        <3>1. t \in ToSet(Transitions(a)) /\ t.kind = "Transition" /\ t.input = Empty
            BY DEF Unprompted
        <3> QED
            BY <1>1, <3>1, OfState
    <2>2. Leaves(a)
        BY <1>1, <1>5, <2>1, ConcludeLeaves DEF Executing
    <2> QED
        BY <1>2, <1>5, <2>2, OutOfPlace, TimesOutCounts DEF Steps
<1>6. CASE Reads(a) /\ React(a, FirstOf(a, Expecting(a, Head(inbox[a])))) /\ UNCHANGED timeouts
    <2>1. Gets(a) /\ Head(inbox[a]) = Head(Way(a))
        BY <1>2, <1>6, ReadsGets
    <2>2. PICK t : t = FirstOf(a, Expecting(a, Head(Way(a))))
        OBVIOUS
    <2>3. IF t # NoTransition
          THEN /\ cur' = [cur EXCEPT ![a] = t]
               /\ pc' = [pc EXCEPT ![a] = "exec"]
               /\ UNCHANGED <<state, via, stopEvent, count, active>>
          ELSE Conclude(a, NoState) \/ Raise(a, FALSE)
        BY <1>1, <1>6, <2>1, <2>2 DEF React, Modified
    <2>4. CASE t = NoTransition
        <3>1. Leaves(a) /\ pc'[a] \in Gone
            BY <1>1, <2>3, <2>4, AwaitNotPure, ConcludeLeaves, ConcludeArrives, RaiseLeaves,
               RaiseEnds DEF Executing, Running
        <3> QED
            BY <1>2, <2>1, <3>1, OverSteps DEF Gets
    <2>5. CASE t # NoTransition
        <3>1. t \in Expecting(a, Head(Way(a))) /\ t \in ToSet(Transitions(a))
            BY <1>1, <2>2, <2>5, FirstExpecting
        <3>2. t.kind = "Transition" /\ ~Initiates(a, t)
            BY <3>1 DEF Expecting
        <3>3. /\ cur'[a] = t /\ pc'[a] = "exec" /\ via' = via /\ state' = state
              /\ \A b \in Actors \ {a} : pc'[b] = pc[b] /\ cur'[b] = cur[b]
            BY <2>3, <2>5 DEF FlowInvariant, FlowTypes
        <3>4. Elsewhere(a)
            BY <1>2, <3>3 DEF Elsewhere
        <3>5. Transitions(a)' = Transitions(a) /\ (Initiates(a, cur[a]))' = Initiates(a, t)
            BY <3>3 DEF Transitions, Initiates
        <3>6. PlaceAt(a)'
            BY <1>1, <3>1, <3>2, <3>3, <3>5 DEF PlaceAt, Inside
        <3>7. Walking(a)
            BY <1>1 DEF Walking, Alive, Answering, Running
        <3>8. Answering(a)'
            BY <1>1, <3>3 DEF Answering
        <3>9. Takes(a)
            BY <1>2, <2>1, <2>2, <2>5, <3>3, <3>7, <3>8 DEF Takes
        <3> QED
            BY <3>4, <3>6, <3>9 DEF Steps, Changes
    <2> QED
        BY <2>4, <2>5
<1>8. CASE ReadRaises(a) /\ UNCHANGED <<inbox, rx, timeouts>>
    <2>1. Leaves(a) /\ pc'[a] \in Gone
        BY <1>1, <1>8, RaiseLeaves, RaiseEnds DEF ReadRaises, Running
    <2> QED
        BY <1>2, <1>8, <2>1, StillWay, StillApart, OverSteps
<1> QED
    BY <1>3, <1>4, <1>5, <1>6, <1>8 DEF ReceiveInput

\* Every step of an actor is one of these.
LEMMA EveryStep ==
    ASSUME TypeInvariant, SessionOfPairs, NEW a \in Actors, PlaceAt(a), ActorStep(a)
    PROVE  Steps(a)
BY LoopSteps, PickSteps, OpenCloseSteps, SendSteps, AnswerSteps, ReceiveAnswerSteps,
   ReceiveInputSteps DEF ActorStep, TypeInvariant

-----------------------------------------------------------------------------
(* The pairs, step by step. *)

\* A path is the beginning of itself and of what follows it.
LEMMA PrefixFacts ==
    ASSUME NEW s \in Seq(STRING), NEW n \in STRING
    PROVE  IsPrefix(s, s) /\ IsPrefix(s, Append(s, n))
BY DEF IsPrefix

\* What a path begins with, it begins with when it is longer.
LEMMA PrefixGrows ==
    ASSUME NEW s \in Seq(STRING), NEW t \in Seq(STRING), IsPrefix(s, t), NEW n \in STRING
    PROVE  IsPrefix(s, Append(t, n))
<1>1. PICK j \in Nat, k \in Nat : j = Len(s) /\ k = Len(t)
    BY LenProperties
<1>2. j <= k /\ SubSeq(s, 1, j) = SubSeq(t, 1, j)
    BY <1>1 DEF IsPrefix
<1>3. PICK u : u = Append(t, n)
    OBVIOUS
<1>4. /\ u \in Seq(STRING) /\ Len(u) = k + 1
      /\ \A i \in 1..k : u[i] = t[i]
    <2>1. Append(t, n) \in Seq(STRING) /\ Len(Append(t, n)) = Len(t) + 1
        BY AppendProperties
    <2>2. \A i \in 1..Len(t) : Append(t, n)[i] = t[i]
        BY AppendProperties
    <2> QED
        BY <1>1, <1>3, <2>1, <2>2
<1>5. \A i \in 1..j : t[i] \in STRING /\ u[i] \in STRING /\ u[i] = t[i]
    BY <1>1, <1>2, <1>4
<1>6. /\ SubSeq(t, 1, j) \in Seq(STRING) /\ Len(SubSeq(t, 1, j)) = j
      /\ \A i \in 1..j : SubSeq(t, 1, j)[i] = t[i]
    BY <1>1, <1>2, <1>5, SubSeqProperties
<1>7. /\ SubSeq(u, 1, j) \in Seq(STRING) /\ Len(SubSeq(u, 1, j)) = j
      /\ \A i \in 1..j : SubSeq(u, 1, j)[i] = u[i]
    BY <1>1, <1>2, <1>5, SubSeqProperties
<1>8. SubSeq(t, 1, j) = SubSeq(u, 1, j)
    <2>1. PICK v \in Seq(STRING), w \in Seq(STRING) :
              v = SubSeq(t, 1, j) /\ w = SubSeq(u, 1, j)
        BY <1>6, <1>7
    <2>2. Len(v) = Len(w) /\ \A i \in 1..Len(v) : v[i] = w[i]
        BY <1>5, <1>6, <1>7, <2>1
    <2> QED
        BY <2>1, <2>2, SeqEqual
<1>9. j <= k + 1
    BY <1>1, <1>2
<1> QED
    BY <1>1, <1>2, <1>3, <1>4, <1>8, <1>9 DEF IsPrefix

\* What is over is not alive.
LEMMA OverIsDead ==
    ASSUME NEW a
    PROVE  /\ pc[a] \in Gone => ~Alive(a)
           /\ pc'[a] \in Gone => ~Alive(a)'
           /\ pc[a] \in {"recv", "exec", "await"} => Alive(a)
           /\ Walking(a) => Alive(a) /\ pc[a] # "recv" /\ ~Answering(a)
           /\ Answering(a) => Alive(a) /\ pc[a] # "recv" /\ ~Walking(a)
           /\ pc[a] = "recv" => ~Walking(a) /\ ~Answering(a)
BY DEF Gone, Over, Alive, Walking, Answering, Running

\* An actor that arrives at the head of its loop walks.
LEMMA ArrivesWalks ==
    ASSUME NEW a, NEW s, Arrives(a, s)
    PROVE  ~Alive(a)' \/ (Walking(a)' /\ state'[a] = s)
BY DEF Arrives, Gone, Over, Alive, Walking, Answering, Running

\* A path only grows, and the one of an actor that is over stays.
LEMMA PathGrows ==
    ASSUME NEW a \in Actors, Changes(a)
    PROVE  /\ path'[a] = path[a] \/ (path'[a] = Append(path[a], cur[a].name) /\ pc[a] \in Inside)
           /\ ~Alive(a) => path'[a] = path[a] /\ ~Alive(a)'
BY OverIsDead DEF Changes, Dies, Walks, Sends, Takes, Answers, Completes, Misreads,
   Inside, Answering, Alive, Running

\* What other actors do changes nothing in a pair.
LEMMA PairUntouched ==
    ASSUME NEW x, NEW y,
           \A b \in {x, y} :
              /\ pc'[b] = pc[b] /\ state'[b] = state[b] /\ cur'[b] = cur[b] /\ via'[b] = via[b]
              /\ path'[b] = path[b] /\ Way(b)' = Way(b),
           InOrder(x, y)
    PROVE  InOrder(x, y)'
<1>1. /\ pc'[x] = pc[x] /\ state'[x] = state[x] /\ cur'[x] = cur[x] /\ via'[x] = via[x]
      /\ path'[x] = path[x] /\ Way(x)' = Way(x)
      /\ pc'[y] = pc[y] /\ state'[y] = state[y] /\ cur'[y] = cur[y] /\ via'[y] = via[y]
      /\ path'[y] = path[y] /\ Way(y)' = Way(y)
    OBVIOUS
<1>2. /\ Alive(x)' = Alive(x) /\ Alive(y)' = Alive(y) /\ Walking(x)' = Walking(x)
      /\ Walking(y)' = Walking(y) /\ Answering(y)' = Answering(y)
    BY <1>1 DEF Alive, Walking, Answering
<1> USE <1>1, <1>2
<1>3. Level(x, y) => Level(x, y)'
    BY DEF Level, Same, Closed, Operates
<1>4. Asked(x, y) => Asked(x, y)'
    BY DEF Asked, Same, Closed, Operates, Asks
<1>5. Understood(x, y) => Understood(x, y)'
    BY DEF Understood
<1>6. Answered(x, y) => Answered(x, y)'
    BY DEF Answered, Ahead, Same, Closed, Operates, Asks, Fits
<1> QED
    BY <1>3, <1>4, <1>5, <1>6 DEF InOrder

\* What a pair is: two different actors, each the other's peer.
IsPair(x, y) == x \in Actors /\ y \in Actors /\ x # y /\ Peer[x] = y /\ Peer[y] = x

\* The paths are sequences of names.
LEMMA PathTyped ==
    ASSUME TypeInvariant, NEW a \in Actors
    PROVE  /\ path[a] \in Seq(STRING) /\ Way(a) \in Seq(Numbered)
           /\ pc[a] \in Inside => cur[a].name \in STRING /\ cur[a].to \in States
BY WayTyped DEF TypeInvariant, MessageTypes, FlowInvariant, FlowAt, TransitionType, Acting, Inside

\* An actor that is over with a beginning of the other's path stays so.
LEMMA OverPair ==
    ASSUME TypeInvariant, NEW x, NEW y, IsPair(x, y), ~Alive(x), IsPrefix(path[x], path[y]),
           NEW a \in {x, y}, Changes(a), Elsewhere(a)
    PROVE  InOrder(x, y)'
<1>1. path[x] \in Seq(STRING) /\ path[y] \in Seq(STRING)
    BY PathTyped DEF IsPair
<1>2. CASE a = x
    <2>1. path'[x] = path[x] /\ ~Alive(x)' /\ path'[y] = path[y]
        BY <1>2, PathGrows DEF Elsewhere, IsPair
    <2> QED
        BY <2>1 DEF InOrder
<1>3. CASE a = y
    <2>1. path'[x] = path[x] /\ pc'[x] = pc[x]
        BY <1>3 DEF Elsewhere, IsPair
    <2>2. ~Alive(x)'
        BY <2>1 DEF Alive
    <2>3. path'[y] = path[y] \/ (path'[y] = Append(path[y], cur[y].name) /\ cur[y].name \in STRING)
        BY <1>3, PathGrows, PathTyped DEF IsPair
    <2>4. IsPrefix(path[x], path'[y])
        BY <1>1, <2>3, PrefixGrows
    <2> QED
        BY <2>1, <2>2, <2>4 DEF InOrder
<1> QED
    BY <1>2, <1>3

\* What was sent is the only message under way, if there was none.
LEMMA SentFirst ==
    ASSUME NEW w \in Seq(Numbered), NEW m \in Numbered
    PROVE  /\ w = <<>> => Len(Append(w, m)) = 1 /\ Head(Append(w, m)) = m
                          /\ Tail(Append(w, m)) = <<>> /\ Append(w, m) # <<>>
           /\ w # <<>> => /\ Append(w, m) # <<>> /\ Head(Append(w, m)) = Head(w)
                          /\ (Tail(w) = <<>> => Tail(Append(w, m)) = <<m>>)
           /\ Len(<<m>>) = 1 /\ Head(<<m>>) = m
           /\ Len(w) = 1 => w # <<>> /\ Tail(w) = <<>>
<1>1. w = <<>> => Append(w, m) = <<m>>
    OBVIOUS
<1>2. Len(<<m>>) = 1 /\ Head(<<m>>) = m /\ Tail(<<m>>) = <<>> /\ <<m>> # <<>>
    OBVIOUS
<1>3. /\ Append(w, m) # <<>>
      /\ w # <<>> => Head(Append(w, m)) = Head(w) /\ Tail(Append(w, m)) = Append(Tail(w), m)
    BY HeadTailAppend, AppendProperties
<1>4. Tail(w) = <<>> => Append(Tail(w), m) = <<m>>
    <2>1. \A z : z = <<>> => Append(z, m) = <<m>>
        OBVIOUS
    <2> QED
        BY <2>1
<1>5. Len(w) = 1 => w # <<>> /\ Tail(w) = <<>>
    <2> SUFFICES ASSUME Len(w) = 1 PROVE w # <<>> /\ Tail(w) = <<>>
        OBVIOUS
    <2>1. w # <<>>
        <3>1. Len(<<>>) = 0
            BY EmptySeq
        <3>2. w = <<>> => Len(w) = Len(<<>>)
            OBVIOUS
        <3> QED
            BY <3>1, <3>2
    <2>2. PICK z \in Seq(Numbered) : z = Tail(w) /\ Len(z) = 1 - 1
        BY <2>1, HeadTailProperties
    <2>3. z = <<>>
        BY <2>2
    <2> QED
        BY <2>1, <2>2, <2>3
<1> QED
    BY <1>1, <1>2, <1>3, <1>4, <1>5

\* Neither had begun an exchange: the order of the two does not matter.
LEMMA LevelStep ==
    ASSUME TypeInvariant, SessionOfPairs, NEW x, NEW y, IsPair(x, y), Level(x, y),
           Changes(x), Elsewhere(x)
    PROVE  InOrder(x, y)'
<1>1. /\ path[x] = path[y] /\ Walking(x) /\ Walking(y) /\ Way(x) = <<>> /\ Way(y) = <<>>
      /\ Same(x, state[x], state[y])
    BY DEF Level
<1>2. path[x] \in Seq(STRING) /\ Way(y) \in Seq(Numbered) /\ x # y /\ Peer[x] = y /\ x \in Actors /\ y \in Actors
    BY PathTyped DEF IsPair
<1>3. /\ pc'[y] = pc[y] /\ state'[y] = state[y] /\ cur'[y] = cur[y] /\ via'[y] = via[y]
      /\ path'[y] = path[y]
    BY <1>2 DEF Elsewhere
<1>4. Walking(y)'
    BY <1>1, <1>3 DEF Walking, Alive, Answering
<1>5. CASE Dies(x)
    <2>1. ~Alive(x)' /\ path'[x] = path[x]
        BY <1>5, OverIsDead DEF Dies
    <2>2. IsPrefix(path'[x], path'[y])
        BY <1>1, <1>2, <1>3, <2>1 DEF IsPrefix
    <2> QED
        BY <2>1, <2>2 DEF InOrder
<1>6. CASE Walks(x)
    <2>1. Walking(x)' /\ path'[x] = path[x] /\ Way(x)' = Way(x) /\ Way(y)' = Way(y)
        BY <1>2, <1>6 DEF Walks, Still
    <2>2. Same(x, state'[x], state'[y])
        BY <1>1, <1>3, <1>6, SameIsEquivalence DEF Walks
    <2>3. Level(x, y)'
        BY <1>1, <1>3, <1>4, <2>1, <2>2 DEF Level, Same, Closed, Operates
    <2> QED
        BY <2>3 DEF InOrder
<1>7. CASE Sends(x)
    <2>1. PICK m \in Numbered : Asks(m, cur[x]) /\ Sent(x, m)
        BY <1>7 DEF Sends
    <2>2. Way(y)' = Append(Way(y), m) /\ Way(x)' = Way(x)
        BY <1>2, <2>1 DEF Sent, Apart
    <2>3. Len(Way(y)') = 1 /\ Head(Way(y)') = m
        BY <1>1, <1>2, <2>2, SentFirst
    <2>4. pc'[x] = "recv" /\ cur'[x] = cur[x] /\ state'[x] = state[x] /\ path'[x] = path[x]
        BY <1>7 DEF Sends
    <2>5. Asked(x, y)'
        BY <1>1, <1>3, <1>4, <2>1, <2>2, <2>3, <2>4 DEF Asked, Same, Closed, Operates, Asks
    <2> QED
        BY <2>5 DEF InOrder
<1>8. ~Takes(x) /\ ~Answers(x) /\ ~Completes(x) /\ ~Misreads(x)
    BY <1>1, OverIsDead DEF Takes, Answers, Completes, Misreads, Gets
<1> QED
    BY <1>5, <1>6, <1>7, <1>8 DEF Changes

\* Level is the same for both.
LEMMA LevelBoth ==
    ASSUME SessionOfPairs, NEW x, NEW y, IsPair(x, y), Level(x, y)
    PROVE  Level(y, x)
BY SamePeer, SameIsEquivalence DEF Level, IsPair

\* One has asked, and steps: it can only end.
LEMMA WaitingSteps ==
    ASSUME NEW x, pc[x] = "recv", Way(x) = <<>>, Changes(x)
    PROVE  Dies(x)
BY OverIsDead DEF Changes, Walks, Sends, Takes, Answers, Completes, Misreads, Gets

\* The question that was sent is the one that is understood.
LEMMA QuestionUnderstood ==
    ASSUME TypeInvariant, SessionOfPairs, NEW x, NEW y, IsPair(x, y), PlaceAt(x), Asked(x, y),
           Takes(y)
    PROVE  cur'[y] = cur[x]
<1> DEFINE m == Head(Way(y))
           t == FirstOf(y, Expecting(y, m))
<1>1. t # NoTransition /\ cur'[y] = t /\ Walking(y)
    BY DEF Takes
<1>2. state[x] \in States /\ state[y] \in States /\ x \in Actors /\ y \in Actors
    BY <1>1 DEF TypeInvariant, FlowInvariant, FlowAt, IsPair, Asked, Walking, Alive, Running
<1>3. t \in Expecting(y, m) /\ t \in ToSet(Transitions(y))
    BY <1>1, <1>2, FirstExpecting
<1>4. t.kind = "Transition" /\ t.input = m.sym
    BY <1>3 DEF Expecting
<1>5. cur[x] \in ToSet(Transitions(x)) /\ cur[x].kind = "Transition" /\ m.sym = cur[x].input
    BY DEF PlaceAt, Asked, Asks, Inside
<1>6. ~Operates(x, state[x]) /\ ~Operates(y, state[y])
    BY <1>2, <1>3, <1>4, <1>5, OfState
<1>7. state[x] = state[y]
    <2>1. ~Operates(x, state[y]) /\ Same(x, state[x], state[y])
        BY <1>6, SamePeer DEF IsPair, Asked
    <2> QED
        BY <1>2, <1>6, <2>1, SameState
<1>8. Transitions(x) = Transitions(y)
    BY <1>2, <1>7 DEF Transitions, SessionOfPairs, IsPair
<1>9. t = cur[x]
    BY <1>2, <1>3, <1>4, <1>5, <1>8, OfState
<1> QED
    BY <1>1, <1>9

\* Of three truth values, two are the same.
LEMMA Different ==
    ASSUME NEW S, NEW x, NEW y, NEW i \in BOOLEAN, (x \in S) # i, (y \in S) # i
    PROVE  ~((x \in S) # (y \in S))
<1>1. CASE i = TRUE
    <2>1. x \notin S
        BY <1>1
    <2>2. y \notin S
        BY <1>1
    <2> QED
        BY <2>1, <2>2
<1>2. CASE i = FALSE
    <2>1. x \in S
        BY <1>2
    <2>2. y \in S
        BY <1>2
    <2> QED
        BY <2>1, <2>2
<1> QED
    BY <1>1, <1>2

\* The other side of an exchange does not begin one of its own.
LEMMA OneAsks ==
    ASSUME TypeInvariant, SessionOfPairs, NEW x, NEW y, IsPair(x, y), PlaceAt(x), Asked(x, y),
           Sends(y)
    PROVE  FALSE
<1>1. state[x] \in States /\ state[y] \in States /\ x \in Actors /\ y \in Actors
    BY DEF TypeInvariant, FlowInvariant, FlowAt, IsPair, Asked, Sends, Walking, Alive, Running
<1>2. cur[x] \in ToSet(Transitions(x)) /\ cur[x].kind = "Transition" /\ pc[x] = "recv"
    BY DEF PlaceAt, Asked, Inside
<1>3. cur[y] \in ToSet(Transitions(y)) /\ cur[y].kind = "Transition" /\ Initiates(y, cur[y])
    BY DEF Sends
<1>4. ~Operates(x, state[x]) /\ ~Operates(y, state[y])
    BY <1>1, <1>2, <1>3, OfState
<1>5. state[x] = state[y]
    <2>1. ~Operates(x, state[y]) /\ Same(x, state[x], state[y])
        BY <1>4, SamePeer DEF IsPair, Asked
    <2> QED
        BY <1>1, <1>4, <2>1, SameState
<1>6. Transitions(x) = Transitions(y)
    BY <1>1, <1>5 DEF Transitions, SessionOfPairs, IsPair
<1>7. cur[x].inverse = cur[y].inverse
    BY <1>1, <1>2, <1>3, <1>6, OfState
<1>8. Initiates(x, cur[x])
    <2>1. via[x] = "initiator"
        BY <1>1, <1>2 DEF TypeInvariant, FlowInvariant, FlowAt
    <2> QED
        BY <1>2, <2>1 DEF PlaceAt, Inside
<1>9. (x \in Initiator) # (y \in Initiator)
    BY DEF SessionOfPairs, IsPair
<1>10. (x \in Initiator) # cur[x].inverse /\ (y \in Initiator) # cur[x].inverse
    BY <1>3, <1>7, <1>8 DEF Initiates
<1>11. cur[x].inverse \in BOOLEAN
    BY <1>1, <1>2, OfState DEF TransitionType
<1>12. PICK i \in BOOLEAN : (x \in Initiator) # i /\ (y \in Initiator) # i
    BY <1>10, <1>11
<1> QED
    BY <1>9, <1>12, Different

\* A question is under way.
LEMMA AskedStep ==
    ASSUME TypeInvariant, SessionOfPairs, NEW x, NEW y, IsPair(x, y), PlaceAt(x), Asked(x, y),
           NEW a \in {x, y}, Changes(a), Elsewhere(a)
    PROVE  InOrder(x, y)' \/ InOrder(y, x)'
<1>1. /\ pc[x] = "recv" /\ path[x] = path[y] /\ Walking(y) /\ Same(x, state[x], state[y])
      /\ Way(x) = <<>> /\ Len(Way(y)) = 1 /\ Asks(Head(Way(y)), cur[x])
    BY DEF Asked
<1>2. path[x] \in Seq(STRING) /\ Way(y) \in Seq(Numbered) /\ x # y /\ Peer[x] = y /\ x \in Actors /\ y \in Actors
    BY PathTyped DEF IsPair
<1>3. CASE a = x
    <2>1. Dies(x)
        BY <1>1, <1>3, WaitingSteps
    <2>2. ~Alive(x)' /\ path'[x] = path[x] /\ path'[y] = path[y]
        BY <1>2, <1>3, <2>1, OverIsDead DEF Dies, Elsewhere
    <2>3. IsPrefix(path'[x], path'[y])
        BY <1>1, <1>2, <2>2 DEF IsPrefix
    <2> QED
        BY <2>2, <2>3 DEF InOrder
<1>4. CASE a = y
    <2>1. /\ pc'[x] = pc[x] /\ state'[x] = state[x] /\ cur'[x] = cur[x] /\ via'[x] = via[x]
          /\ path'[x] = path[x]
        BY <1>2, <1>4 DEF Elsewhere
    <2>2. CASE Dies(y)
        <3>1. ~Alive(y)' /\ path'[y] = path[y]
            BY <2>2, OverIsDead DEF Dies
        <3>2. IsPrefix(path'[y], path'[x])
            BY <1>1, <1>2, <2>1, <3>1 DEF IsPrefix
        <3> QED
            BY <3>1, <3>2 DEF InOrder
    <2>3. CASE Walks(y)
        <3>1. Walking(y)' /\ path'[y] = path[y] /\ Way(x)' = Way(x) /\ Way(y)' = Way(y)
            BY <1>2, <2>3 DEF Walks, Still
        <3>2. Same(x, state[y], state'[y])
            BY <1>2, <2>3, SamePeer DEF Walks
        <3>3. Same(x, state'[x], state'[y])
            BY <1>1, <2>1, <3>2, SameIsEquivalence
        <3>4. Asked(x, y)'
            BY <1>1, <2>1, <3>1, <3>3 DEF Asked, Same, Closed, Operates, Asks
        <3> QED
            BY <3>4 DEF InOrder
    <2>4. CASE Takes(y)
        <3>1. cur'[y] = cur[x]
            BY <2>4, QuestionUnderstood
        <3>2. Answering(y)' /\ path'[y] = path[y] /\ Way(y)' = Tail(Way(y)) /\ Way(x)' = Way(x)
            BY <1>2, <2>4 DEF Takes, Gets, Apart
        <3>3. Way(y)' = <<>>
            BY <1>1, <1>2, <3>2, SentFirst
        <3>4. Understood(x, y)'
            BY <1>1, <2>1, <3>1, <3>2, <3>3 DEF Understood
        <3> QED
            BY <3>4 DEF InOrder
    <2>5. ~Sends(y)
        BY OneAsks
    <2>6. ~Answers(y) /\ ~Completes(y) /\ ~Misreads(y)
        BY <1>1, OverIsDead DEF Answers, Completes, Misreads
    <2> QED
        BY <1>4, <2>2, <2>3, <2>4, <2>5, <2>6 DEF Changes
<1> QED
    BY <1>3, <1>4

\* A question is understood.
LEMMA UnderstoodStep ==
    ASSUME TypeInvariant, SessionOfPairs, NEW x, NEW y, IsPair(x, y), Understood(x, y),
           NEW a \in {x, y}, Changes(a), Elsewhere(a)
    PROVE  InOrder(x, y)' \/ InOrder(y, x)'
<1>1. /\ pc[x] = "recv" /\ path[x] = path[y] /\ Answering(y) /\ cur[y] = cur[x]
      /\ Way(x) = <<>> /\ Way(y) = <<>>
    BY DEF Understood
<1>2. /\ path[x] \in Seq(STRING) /\ Way(x) \in Seq(Numbered)
      /\ x # y /\ Peer[y] = x /\ x \in Actors /\ y \in Actors
    BY PathTyped DEF IsPair
<1>3. CASE a = x
    <2>1. Dies(x)
        BY <1>1, <1>3, WaitingSteps
    <2>2. ~Alive(x)' /\ path'[x] = path[x] /\ path'[y] = path[y]
        BY <1>2, <1>3, <2>1, OverIsDead DEF Dies, Elsewhere
    <2>3. IsPrefix(path'[x], path'[y])
        BY <1>1, <1>2, <2>2 DEF IsPrefix
    <2> QED
        BY <2>2, <2>3 DEF InOrder
<1>4. CASE a = y
    <2>1. pc'[x] = pc[x] /\ cur'[x] = cur[x] /\ path'[x] = path[x]
        BY <1>2, <1>4 DEF Elsewhere
    <2>2. CASE Dies(y)
        <3>1. ~Alive(y)' /\ path'[y] = path[y]
            BY <2>2, OverIsDead DEF Dies
        <3>2. IsPrefix(path'[y], path'[x])
            BY <1>1, <1>2, <2>1, <3>1 DEF IsPrefix
        <3> QED
            BY <3>1, <3>2 DEF InOrder
    <2>3. CASE Answers(y)
        <3>1. PICK m \in Numbered : Fits(m, cur[y]) /\ Sent(y, m)
            BY <2>3 DEF Answers
        <3>2. Way(x)' = Append(Way(x), m) /\ Way(y)' = Way(y)
            BY <1>2, <3>1 DEF Sent, Apart
        <3>3. Way(x)' # <<>> /\ Head(Way(x)') = m /\ Tail(Way(x)') = <<>>
            BY <1>1, <1>2, <3>2, SentFirst
        <3>4. path'[y] = Append(path'[x], cur'[x].name)
            BY <1>1, <2>1, <2>3 DEF Answers
        <3>5. ~Alive(y)' \/ (Walking(y)' /\ state'[y] = cur'[x].to)
            BY <1>1, <2>1, <2>3, ArrivesWalks DEF Answers
        <3>6. Ahead(x, y, Tail(Way(x)))'
            BY <1>1, <3>2, <3>3, <3>5, SameIsEquivalence DEF Ahead, Same, Closed, Operates
        <3>7. Answered(x, y)'
            BY <1>1, <2>1, <3>1, <3>3, <3>4, <3>6 DEF Answered, Fits
        <3> QED
            BY <3>7 DEF InOrder
    <2>4. ~Walks(y) /\ ~Sends(y) /\ ~Takes(y) /\ ~Completes(y) /\ ~Misreads(y)
        BY <1>1, OverIsDead DEF Walks, Sends, Takes, Completes, Misreads
    <2> QED
        BY <1>4, <2>2, <2>3, <2>4 DEF Changes
<1> QED
    BY <1>3, <1>4

\* An answer is under way, maybe followed by a question of the other side.
LEMMA AnsweredStep ==
    ASSUME TypeInvariant, SessionOfPairs, NEW x, NEW y, IsPair(x, y), Answered(x, y),
           NEW a \in {x, y}, Changes(a), Elsewhere(a)
    PROVE  InOrder(x, y)' \/ InOrder(y, x)'
<1>1. /\ pc[x] = "recv" /\ path[y] = Append(path[x], cur[x].name)
      /\ Way(x) # <<>> /\ Fits(Head(Way(x)), cur[x]) /\ Ahead(x, y, Tail(Way(x)))
    BY DEF Answered
<1>2. /\ path[x] \in Seq(STRING) /\ path[y] \in Seq(STRING) /\ Way(x) \in Seq(Numbered)
      /\ x # y /\ Peer[y] = x /\ Peer[x] = y /\ x \in Actors /\ y \in Actors
      /\ cur[x].name \in STRING
    BY <1>1, PathTyped DEF IsPair, Inside
<1>3. CASE a = x
    <2>1. /\ pc'[y] = pc[y] /\ state'[y] = state[y] /\ cur'[y] = cur[y] /\ via'[y] = via[y]
          /\ path'[y] = path[y]
        BY <1>2, <1>3 DEF Elsewhere
    <2>2. Alive(y)' = Alive(y) /\ Walking(y)' = Walking(y)
        BY <2>1 DEF Alive, Walking, Answering
    <2>3. CASE Dies(x)
        <3>1. ~Alive(x)' /\ path'[x] = path[x]
            BY <2>3, OverIsDead DEF Dies
        <3>2. IsPrefix(path'[x], path'[y])
            BY <1>1, <1>2, <2>1, <3>1, PrefixFacts
        <3> QED
            BY <3>1, <3>2 DEF InOrder
    <2>4. CASE Completes(x)
        <3>1. path'[x] = path'[y] /\ Way(x)' = Tail(Way(x)) /\ Way(y)' = Way(y)
            BY <1>1, <1>2, <2>1, <2>4 DEF Completes, Gets, Apart
        <3>2. IsPrefix(path'[x], path'[y]) /\ IsPrefix(path'[y], path'[x])
            BY <1>2, <2>1, <3>1, PrefixFacts
        <3>3. CASE ~Alive(x)' \/ ~Alive(y)
            BY <2>2, <3>2, <3>3 DEF InOrder
        <3>4. CASE Alive(x)' /\ Alive(y)
            <4>1. Walking(x)' /\ state'[x] = cur[x].to
                BY <2>4, <3>4, ArrivesWalks DEF Completes
            <4>2. Same(x, state'[x], state'[y]) /\ Way(y)' = <<>>
                BY <1>1, <2>1, <3>1, <3>4, <4>1 DEF Ahead
            <4>3. CASE Tail(Way(x)) = <<>> /\ Walking(y)
                <5>1. Level(x, y)'
                    BY <2>2, <3>1, <4>1, <4>2, <4>3 DEF Level, Same, Closed, Operates
                <5> QED
                    BY <5>1 DEF InOrder
            <4>4. CASE /\ pc[y] = "recv" /\ Len(Tail(Way(x))) = 1
                       /\ Asks(Head(Tail(Way(x))), cur[y])
                <5>1. Same(y, state'[y], state'[x])
                    BY <1>2, <4>2, SamePeer, SameIsEquivalence
                <5>2. Asked(y, x)'
                    BY <2>1, <3>1, <4>1, <4>2, <4>4, <5>1 DEF Asked, Same, Closed, Operates, Asks
                <5> QED
                    BY <5>2 DEF InOrder
            <4> QED
                BY <1>1, <3>4, <4>3, <4>4 DEF Ahead
        <3> QED
            BY <3>3, <3>4
    <2>5. ~Walks(x) /\ ~Sends(x) /\ ~Takes(x) /\ ~Answers(x) /\ ~Misreads(x)
        BY <1>1, OverIsDead DEF Walks, Sends, Takes, Answers, Misreads
    <2> QED
        BY <1>3, <2>3, <2>4, <2>5 DEF Changes
<1>4. CASE a = y
    <2>1. /\ pc'[x] = pc[x] /\ cur'[x] = cur[x] /\ path'[x] = path[x]
        BY <1>2, <1>4 DEF Elsewhere
    <2>2. CASE ~Alive(y) \/ Dies(y)
        <3>1. ~Alive(y)' /\ path'[y] = path[y] /\ Way(x)' = Way(x)
            <4>1. CASE Dies(y)
                BY <1>2, <4>1, OverIsDead DEF Dies, Apart
            <4>2. ~Alive(y) => Dies(y)
                BY <1>4, OverIsDead DEF Changes, Walks, Sends, Takes, Answers, Completes, Misreads
            <4> QED
                BY <2>2, <4>1, <4>2
        <3>2. Answered(x, y)'
            BY <1>1, <2>1, <3>1 DEF Answered, Ahead, Fits
        <3> QED
            BY <3>2 DEF InOrder
    <2>3. CASE Alive(y) /\ ~Dies(y)
        <3>1. Way(y) = <<>> /\ Same(x, cur[x].to, state[y])
            BY <1>1, <2>3 DEF Ahead
        <3>2. Walking(y) /\ Tail(Way(x)) = <<>>
            <4>1. pc[y] = "recv" => Dies(y)
                BY <1>4, <3>1, WaitingSteps
            <4> QED
                BY <1>1, <2>3, <4>1 DEF Ahead
        <3>3. CASE Walks(y)
            <4>1. Walking(y)' /\ path'[y] = path[y] /\ Way(x)' = Way(x) /\ Way(y)' = Way(y)
                BY <1>2, <3>3 DEF Walks, Still
            <4>2. Same(x, state[y], state'[y])
                BY <1>2, <3>3, SamePeer DEF Walks
            <4>3. Same(x, cur'[x].to, state'[y])
                BY <2>1, <3>1, <4>2, SameIsEquivalence
            <4>4. Ahead(x, y, Tail(Way(x)))'
                BY <3>1, <3>2, <4>1, <4>3 DEF Ahead, Same, Closed, Operates
            <4>5. Answered(x, y)'
                BY <1>1, <2>1, <4>1, <4>4 DEF Answered, Fits
            <4> QED
                BY <4>5 DEF InOrder
        <3>4. CASE Sends(y)
            <4>1. PICK m \in Numbered : Asks(m, cur[y]) /\ Sent(y, m)
                BY <3>4 DEF Sends
            <4>2. Way(x)' = Append(Way(x), m) /\ Way(y)' = Way(y)
                BY <1>2, <4>1 DEF Sent, Apart
            <4>3. /\ Way(x)' # <<>> /\ Head(Way(x)') = Head(Way(x))
                  /\ Tail(Way(x)') = <<m>> /\ Len(<<m>>) = 1 /\ Head(<<m>>) = m
                BY <1>1, <1>2, <3>2, <4>2, SentFirst
            <4>4. pc'[y] = "recv" /\ cur'[y] = cur[y] /\ state'[y] = state[y] /\ path'[y] = path[y]
                BY <3>4 DEF Sends
            <4>5. Len(Tail(Way(x)')) = 1 /\ Asks(Head(Tail(Way(x)')), cur'[y])
                BY <4>1, <4>3, <4>4
            <4>6. Ahead(x, y, Tail(Way(x)))'
                BY <2>1, <3>1, <4>2, <4>4, <4>5 DEF Ahead, Same, Closed, Operates, Asks
            <4>7. Answered(x, y)'
                BY <1>1, <2>1, <4>3, <4>4, <4>6 DEF Answered, Fits
            <4> QED
                BY <4>7 DEF InOrder
        <3>5. ~Takes(y) /\ ~Answers(y) /\ ~Completes(y) /\ ~Misreads(y)
            BY <3>1, <3>2, OverIsDead DEF Takes, Answers, Completes, Misreads, Gets
        <3> QED
            BY <1>4, <2>3, <3>3, <3>4, <3>5 DEF Changes
    <2> QED
        BY <2>2, <2>3
<1> QED
    BY <1>3, <1>4

\* A pair after a step of one of its actors.
LEMMA PairStep ==
    ASSUME TypeInvariant, SessionOfPairs, NEW x, NEW y, IsPair(x, y), PlaceAt(x), InOrder(x, y),
           NEW a \in {x, y}, Changes(a), Elsewhere(a)
    PROVE  InOrder(x, y)' \/ InOrder(y, x)'
<1>1. CASE ~Alive(x) /\ IsPrefix(path[x], path[y])
    BY <1>1, OverPair
<1>2. CASE Level(x, y)
    <2>1. IsPair(y, x) /\ Level(y, x)
        BY <1>2, LevelBoth DEF IsPair
    <2>2. a = x => InOrder(x, y)'
        BY <1>2, LevelStep
    <2>3. a = y => InOrder(y, x)'
        BY <2>1, LevelStep
    <2> QED
        BY <2>2, <2>3
<1>3. CASE Asked(x, y)
    BY <1>3, AskedStep
<1>4. CASE Understood(x, y)
    BY <1>4, UnderstoodStep
<1>5. CASE Answered(x, y)
    BY <1>5, AnsweredStep
<1> QED
    BY <1>1, <1>2, <1>3, <1>4, <1>5 DEF InOrder

\* A step of an actor moves messages of its pair only.
LEMMA OtherWays ==
    ASSUME TypeInvariant, SessionOfPairs, NEW a \in Actors, Changes(a),
           NEW b \in Actors, b # a, b # Peer[a]
    PROVE  Way(b)' = Way(b)
BY DEF Changes, Dies, Walks, Sends, Takes, Answers, Completes, Misreads, Gets, Sent, Apart, Still

\* Where an actor stands only depends on its thread.
LEMMA PlaceUntouched ==
    ASSUME NEW b, pc'[b] = pc[b], state'[b] = state[b], cur'[b] = cur[b], via'[b] = via[b],
           PlaceAt(b)
    PROVE  PlaceAt(b)'
<1>1. Transitions(b)' = Transitions(b) /\ Initiates(b, cur[b])' = Initiates(b, cur[b])
    BY DEF Transitions, Initiates
<1> QED
    BY <1>1 DEF PlaceAt

\* An actor counts its timeouts, and loses no message.
LEMMA StepTimeouts ==
    ASSUME NEW a \in Actors, ActorStep(a)
    PROVE  disturbed' = disturbed /\ (timeouts' = timeouts \/ TimesOut(a))
<1>1. CASE TestStopEvent(a) \/ Pick(a) \/ ExitLoop(a)
    BY <1>1 DEF TestStopEvent, Pick, ExitLoop, histVars
<1>2. CASE ExecOpen(a) \/ ExecClose(a)
    BY <1>2 DEF ExecOpen, ExecClose
<1>3. CASE ExecSend(a) \/ ExecAnswer(a)
    <2>1. WriteFails(a) => disturbed' = disturbed /\ timeouts' = timeouts
        BY DEF WriteFails, histVars
    <2> QED
        BY <1>3, <2>1 DEF ExecSend, ExecAnswer, histVars
<1>4. CASE ReceiveAnswer(a) \/ ReceiveInput(a)
    BY <1>4 DEF ReceiveAnswer, ReceiveInput
<1> QED
    BY <1>1, <1>2, <1>3, <1>4 DEF ActorStep

\* What the application and the network do.
LEMMA OutsideSteps ==
    ASSUME TypeInvariant, NEW a \in Actors, Stop(a) \/ Arrive(a) \/ Lose(a) \/ Inject(a)
    PROVE  /\ UNCHANGED <<pc, state, cur, via, path, timeouts>>
           /\ (disturbed' = disturbed /\ Still) \/ disturbed' = TRUE
<1>1. UNCHANGED <<pc, state, cur, via, path, timeouts>>
    BY DEF Stop, Arrive, Lose, Inject, flowVars
<1>2. CASE Stop(a)
    BY <1>1, <1>2, StillWay DEF Stop
<1>3. CASE Arrive(a) /\ connected[a]
    BY <1>1, <1>3, ArriveStill DEF Arrive, TypeInvariant
<1>4. CASE (Arrive(a) /\ ~connected[a]) \/ Lose(a) \/ Inject(a)
    BY <1>1, <1>4 DEF Arrive, Lose, Inject
<1> QED
    BY <1>1, <1>2, <1>3, <1>4

\* What is calm was calm, and no read timed out meanwhile.
LEMMA CalmBefore ==
    ASSUME TypeInvariant, [Next]_vars, Calm'
    PROVE  /\ Calm
           /\ \A a \in Actors : ActorStep(a) => timeouts' = timeouts
<1>1. ASSUME NEW a \in Actors, ActorStep(a) PROVE timeouts' = timeouts /\ disturbed' = disturbed
    <2>1. ~TimesOut(a)
        <3> SUFFICES ASSUME TimesOut(a) PROVE FALSE
            OBVIOUS
        <3>1. timeouts'[a] = timeouts[a] + 1 /\ timeouts[a] \in Nat
            BY DEF TimesOut, TypeInvariant, EventTypes
        <3>2. timeouts'[a] = 0
            BY DEF Calm
        <3> QED
            BY <3>1, <3>2
    <2> QED
        BY <1>1, <2>1, StepTimeouts
<1>2. ASSUME NEW a \in Actors, Stop(a) \/ Arrive(a) \/ Lose(a) \/ Inject(a)
      PROVE  timeouts' = timeouts /\ disturbed' = disturbed
    BY <1>2, OutsideSteps DEF Calm
<1>3. timeouts' = timeouts /\ disturbed' = disturbed
    <2>1. CASE UNCHANGED vars
        BY <2>1 DEF vars, histVars
    <2>2. CASE Next
        BY <1>1, <1>2, <2>2 DEF Next
    <2> QED
        BY <2>1, <2>2
<1> QED
    BY <1>1, <1>3 DEF Calm

\* A step that changes no thread, path or message of a pair.
LEMMA OrderUntouched ==
    ASSUME SessionOfPairs, NEW b \in Actors,
           \A c \in {b, Peer[b]} :
              /\ pc'[c] = pc[c] /\ state'[c] = state[c] /\ cur'[c] = cur[c] /\ via'[c] = via[c]
              /\ path'[c] = path[c] /\ Way(c)' = Way(c),
           InOrder(b, Peer[b]) \/ InOrder(Peer[b], b)
    PROVE  InOrder(b, Peer[b])' \/ InOrder(Peer[b], b)'
<1>1. PICK c : c = Peer[b]
    OBVIOUS
<1>2. /\ InOrder(b, c) => InOrder(b, c)'
      /\ InOrder(c, b) => InOrder(c, b)'
    BY <1>1, PairUntouched
<1>3. InOrder(b, Peer[b])' = InOrder(b, c)' /\ InOrder(Peer[b], b)' = InOrder(c, b)'
    BY <1>1
<1> QED
    BY <1>1, <1>2, <1>3

\* The pairs stay in order when an actor steps.
LEMMA ActorKeepsPairs ==
    ASSUME TypeInvariant, SessionOfPairs, PairInvariant, NEW a \in Actors, ActorStep(a),
           Calm' => Calm /\ timeouts' = timeouts
    PROVE  PairInvariant'
<1>1. Elsewhere(a) /\ PlaceAt(a)' /\ (timeouts' = timeouts => Changes(a))
    BY EveryStep DEF PairInvariant, Steps
<1>2. ASSUME NEW b \in Actors PROVE PlaceAt(b)'
    <2>1. CASE b = a
        BY <1>1, <2>1
    <2>2. CASE b # a
        BY <1>1, <2>2, PlaceUntouched DEF Elsewhere, PairInvariant
    <2> QED
        BY <2>1, <2>2
<1>3. ASSUME Calm', NEW b \in Actors
      PROVE  InOrder(b, Peer[b])' \/ InOrder(Peer[b], b)'
    <2>1. Changes(a) /\ (InOrder(b, Peer[b]) \/ InOrder(Peer[b], b))
        BY <1>1, <1>3 DEF PairInvariant
    <2>2. PICK c : c = Peer[b]
        OBVIOUS
    <2>3. IsPair(b, c) /\ IsPair(c, b)
        BY <2>2, SamePeer DEF IsPair
    <2>4. InOrder(b, c)' = InOrder(b, Peer[b])' /\ InOrder(c, b)' = InOrder(Peer[b], b)'
        BY <2>2
    <2>5. PlaceAt(b) /\ PlaceAt(c)
        BY <2>3 DEF PairInvariant, IsPair
    <2>6. CASE a \in {b, c}
        <3>1. InOrder(b, c) => InOrder(b, c)' \/ InOrder(c, b)'
            BY <1>1, <2>1, <2>3, <2>5, <2>6, PairStep
        <3>2. InOrder(c, b) => InOrder(b, c)' \/ InOrder(c, b)'
            BY <1>1, <2>1, <2>3, <2>5, <2>6, PairStep
        <3> QED
            BY <2>1, <2>2, <2>4, <3>1, <3>2
    <2>7. CASE a \notin {b, c}
        <3>1. b # Peer[a] /\ c # Peer[a]
            BY <2>3, <2>7, SamePeer DEF IsPair
        <3>2. Way(b)' = Way(b) /\ Way(c)' = Way(c)
            BY <2>1, <2>3, <2>7, <3>1, OtherWays DEF IsPair
        <3>3. \A d \in {b, c} :
                 /\ pc'[d] = pc[d] /\ state'[d] = state[d] /\ cur'[d] = cur[d] /\ via'[d] = via[d]
                 /\ path'[d] = path[d] /\ Way(d)' = Way(d)
            BY <1>1, <2>3, <2>7, <3>2 DEF Elsewhere, IsPair
        <3> QED
            BY <2>1, <2>2, <3>3, OrderUntouched
    <2> QED
        BY <2>6, <2>7
<1> QED
    BY <1>2, <1>3 DEF PairInvariant

\* The pairs stay in order whatever the application and the network do.
LEMMA OutsideKeepsPairs ==
    ASSUME SessionOfPairs, PairInvariant, UNCHANGED <<pc, state, cur, via, path>>,
           Calm' => Calm /\ Still
    PROVE  PairInvariant'
<1>1. ASSUME NEW b \in Actors PROVE PlaceAt(b)'
    BY PlaceUntouched DEF PairInvariant
<1>2. ASSUME Calm', NEW b \in Actors
      PROVE  InOrder(b, Peer[b])' \/ InOrder(Peer[b], b)'
    <2>1. \A c \in {b, Peer[b]} : Way(c)' = Way(c)
        BY <1>2, SamePeer DEF Still
    <2> QED
        BY <1>2, <2>1, OrderUntouched DEF PairInvariant
<1> QED
    BY <1>1, <1>2 DEF PairInvariant

\* Every step keeps the pairs in order.
LEMMA StepKeepsPairs ==
    ASSUME TypeInvariant, SessionOfPairs, PairInvariant, [Next]_vars
    PROVE  PairInvariant'
<1>1. CASE UNCHANGED vars
    <2>1. UNCHANGED <<pc, state, cur, via, path>> /\ UNCHANGED <<inbox, net>>
          /\ UNCHANGED <<disturbed, timeouts>>
        BY <1>1 DEF vars, flowVars, chanVars, histVars
    <2>2. Still /\ (Calm' => Calm)
        BY <2>1, StillWay DEF Calm
    <2> QED
        BY <2>1, <2>2, OutsideKeepsPairs
<1>2. ASSUME NEW a \in Actors, ActorStep(a) PROVE PairInvariant'
    BY <1>2, CalmBefore, ActorKeepsPairs
<1>3. ASSUME NEW a \in Actors, Stop(a) \/ Arrive(a) \/ Lose(a) \/ Inject(a)
      PROVE  PairInvariant'
    <2>1. Calm' => Calm /\ Still
        BY <1>3, CalmBefore, OutsideSteps DEF Calm
    <2> QED
        BY <1>3, <2>1, OutsideSteps, OutsideKeepsPairs
<1> QED
    BY <1>1, <1>2, <1>3 DEF Next

\* At the beginning neither of a pair has done anything.
LEMMA InitPairs ==
    ASSUME Init, SessionOfPairs
    PROVE  PairInvariant
<1>1. ASSUME NEW b \in Actors
      PROVE  /\ pc[b] = "loop" /\ via[b] = "none" /\ path[b] = <<>> /\ Way(b) = <<>>
             /\ state[b] = InitialState[b]
    BY DEF Init, Way
<1>2. ASSUME NEW b \in Actors PROVE PlaceAt(b)
    BY <1>1 DEF PlaceAt, Inside
<1>3. ASSUME NEW b \in Actors PROVE InOrder(b, Peer[b])
    <2>1. PICK c \in Actors : c = Peer[b]
        BY SamePeer
    <2>2. InitialState[c] = InitialState[b]
        BY <2>1 DEF SessionOfPairs
    <2>3. Walking(b) /\ Walking(c)
        BY <1>1 DEF Walking, Alive, Answering, Running
    <2>4. Same(b, state[b], state[c])
        BY <1>1, <2>2, SameIsEquivalence
    <2>5. Level(b, c)
        BY <1>1, <2>3, <2>4 DEF Level
    <2> QED
        BY <2>1, <2>5 DEF InOrder
<1> QED
    BY <1>2, <1>3 DEF PairInvariant

\* In whatever order a pair is, one path begins the other.
LEMMA OrderAgrees ==
    ASSUME TypeInvariant, NEW x, NEW y, IsPair(x, y), InOrder(x, y)
    PROVE  IsPrefix(path[x], path[y])
<1>1. path[x] \in Seq(STRING) /\ path[y] \in Seq(STRING)
    BY PathTyped DEF IsPair
<1>2. path[x] = path[y] => IsPrefix(path[x], path[y])
    BY <1>1 DEF IsPrefix
<1>3. Answered(x, y) => IsPrefix(path[x], path[y])
    <2> SUFFICES ASSUME Answered(x, y) PROVE IsPrefix(path[x], path[y])
        OBVIOUS
    <2>1. path[y] = Append(path[x], cur[x].name) /\ cur[x].name \in STRING
        BY PathTyped DEF Answered, IsPair, Inside
    <2> QED
        BY <1>1, <2>1, PrefixFacts
<1> QED
    BY <1>2, <1>3 DEF InOrder, Level, Asked, Understood

\* While the network is calm and nothing times out, two peers are always at one
\* of the five stages of an exchange (State.execute on both sides).
THEOREM PairsStayInOrder == SessionOfPairs /\ Spec => []PairInvariant
<1> SUFFICES ASSUME SessionOfPairs PROVE Spec => []PairInvariant
    OBVIOUS
<1>1. Init => TypeInvariant /\ PairInvariant
    BY InitTypes, InitPairs
<1>2. TypeInvariant /\ PairInvariant /\ [Next]_vars => TypeInvariant' /\ PairInvariant'
    BY StepKeepsTypes, StepKeepsPairs
<1> QED
    BY <1>1, <1>2, PTL DEF Spec

\* In such a session the variables keep their types, and as long as no message
\* was lost and no read timed out, the path of one of two peers begins the
\* path of the other, wherever the two are and whoever is stopped.
THEOREM PeersStayInStep == SessionOfPairs /\ Spec => []PeersInStep
<1> SUFFICES ASSUME SessionOfPairs PROVE Spec => []PeersInStep
    OBVIOUS
<1>1. TypeInvariant /\ PairInvariant => AgreeOnPath
    <2> SUFFICES ASSUME TypeInvariant, PairInvariant, Calm, NEW a \in Actors
                 PROVE  IsPrefix(path[a], path[Peer[a]]) \/ IsPrefix(path[Peer[a]], path[a])
        BY DEF AgreeOnPath, Calm
    <2>1. PICK b : b = Peer[a]
        OBVIOUS
    <2>2. IsPair(a, b) /\ IsPair(b, a)
        BY <2>1, SamePeer DEF IsPair
    <2>3. InOrder(a, b) \/ InOrder(b, a)
        BY <2>1 DEF PairInvariant
    <2> QED
        BY <2>1, <2>2, <2>3, OrderAgrees
<1>2. Spec => []TypeInvariant
    BY InitTypes, StepKeepsTypes, PTL DEF Spec
<1>3. TypeOK /\ AgreeOnPath => PeersInStep
    BY DEF PeersInStep
<1>4. Spec => []PairInvariant
    BY PairsStayInOrder
<1> QED
    BY <1>1, <1>2, <1>3, <1>4, VisitTypeCorrect, PTL

-----------------------------------------------------------------------------
(* How old an answer can be. *)

\* The messages of w are numbered one after the other, from n + 1.
InRow(w, n) == \A i \in 1..Len(w) : w[i].of = n + i

\* The answers that x has read, and the questions that y is about to answer.
Heard(x)   == requests[x] - timeouts[x] - (IF pc[x] = "recv" THEN 1 ELSE 0)
Pending(y) == IF Answering(y) THEN 1 ELSE 0

\* The answers on their way to x, the one that y prepares and the questions on
\* their way to y follow what x has read, up to the last request.
Tally(x, y) ==
    Alive(x) =>
        /\ InRow(Way(x), Heard(x))
        /\ Alive(y) =>
              /\ Answering(y) => rx[y].of = Heard(x) + Len(Way(x)) + 1
              /\ InRow(Way(y), Heard(x) + Len(Way(x)) + Pending(y))
              /\ requests[x] = Heard(x) + Len(Way(x)) + Pending(y) + Len(Way(y))

TallyInvariant == ~disturbed => \A x \in Initiator : Tally(x, Peer[x])

\* What a step of a does to the numbers: it ends, does nothing, asks, reads a
\* question, answers, reads an answer, or gives up waiting.
SameCounts(a) == requests'[a] = requests[a] /\ timeouts'[a] = timeouts[a]
Settled(a)    == pc'[a] # "recv" /\ ~Answering(a)'

Quits(a) == ~Alive(a)' /\ Apart(a)
Idles(a) ==
    /\ Alive(a) /\ pc[a] # "recv" /\ ~Answering(a) /\ Settled(a) /\ Still /\ SameCounts(a)
Puts(a) ==
    /\ Initiates(a, cur[a]) /\ cur[a] \in ToSet(Transitions(a))
    /\ pc[a] = "exec" /\ pc'[a] = "recv"
    /\ requests'[a] = requests[a] + 1 /\ timeouts'[a] = timeouts[a]
    /\ \E m \in Numbered : m.of = requests'[a] /\ Sent(a, m)
Hears(a) ==
    /\ pc[a] = "await" /\ Answering(a)' /\ Gets(a) /\ SameCounts(a)
    /\ rx'[a] = Head(Way(a))
    /\ \E t \in ToSet(Transitions(a)) : ~Initiates(a, t)
Tells(a) ==
    /\ Answering(a) /\ Settled(a) /\ SameCounts(a)
    /\ \E m \in Numbered : m.of = rx[a].of /\ Sent(a, m)
Gains(a) == pc[a] = "recv" /\ Settled(a) /\ Gets(a) /\ SameCounts(a)
Skips(a) ==
    /\ pc[a] = "recv" /\ Settled(a) /\ Still
    /\ requests'[a] = requests[a] /\ timeouts'[a] = timeouts[a] + 1

Counts(a) ==
    /\ \A b \in Actors \ {a} : SameCounts(b) /\ rx'[b] = rx[b]
    /\ Quits(a) \/ Idles(a) \/ Puts(a) \/ Hears(a) \/ Tells(a) \/ Gains(a) \/ Skips(a)

\* What leaves its transition neither waits for an answer nor prepares one.
LEMMA LeavesSettles ==
    ASSUME FlowInvariant, NEW a \in Actors, Leaves(a)
    PROVE  Settled(a) /\ (pc'[a] \in Gone => ~Alive(a)')
<1>1. PICK p \in {"loop"} \cup Over : pc' = [pc EXCEPT ![a] = p]
    BY DEF Leaves
<1>2. pc'[a] = p
    BY <1>1 DEF FlowInvariant, FlowTypes
<1> QED
    BY <1>2 DEF Settled, Answering, Gone, Over, Alive, Running

\* What writes nothing, reads nothing and ends.
LEMMA OverCounts ==
    ASSUME NEW a \in Actors, ~Alive(a)', Apart(a), UNCHANGED <<requests, timeouts, rx>>
    PROVE  Counts(a)
BY DEF Counts, Quits, SameCounts

\* The test of the stop event, the choice and the end.
LEMMA WalkCounts ==
    ASSUME FlowInvariant, NEW a \in Actors, TestStopEvent(a) \/ Pick(a) \/ ExitLoop(a)
    PROVE  Counts(a)
<1>1. UNCHANGED <<inbox, net, requests, timeouts, rx>>
    BY DEF TestStopEvent, Pick, ExitLoop, chanVars, histVars
<1>2. Still /\ Apart(a)
    BY <1>1, StillWay, StillApart
<1>3. CASE TestStopEvent(a) \/ ExitLoop(a)
    <2>1. PICK p \in {"pick", "ended"} :
              /\ pc' = [pc EXCEPT ![a] = p] /\ pc[a] \in {"loop", "exiting"}
              /\ p = "pick" => pc[a] = "loop"
        BY <1>3 DEF TestStopEvent, ExitLoop
    <2>2. pc'[a] = p
        BY <2>1 DEF FlowInvariant, FlowTypes
    <2>3. p = "ended" => Counts(a)
        BY <1>1, <1>2, <2>2, OverCounts DEF Alive, Running
    <2>4. p = "pick" => Idles(a)
        BY <1>1, <1>2, <2>1, <2>2 DEF Idles, Settled, SameCounts, Answering, Alive, Running
    <2> QED
        BY <1>1, <2>3, <2>4 DEF Counts, SameCounts
<1>4. CASE Pick(a)
    <2>1. pc[a] = "pick"
        BY <1>4 DEF Pick
    <2>2. \/ \E t \in Available(a) : \E u \in Modified(a, t) : Execute(a, u, "initiator")
          \/ Execute(a, Special(a), IF Special(a) = NoTransition THEN "read" ELSE "special")
          \/ Finish(a, NoState) /\ UNCHANGED active
        BY <1>4, Zenon DEF Pick, Candidates
    <2>3. CASE Finish(a, NoState) /\ UNCHANGED active
        <3>1. Leaves(a) /\ pc'[a] \in Gone
            BY <2>1, <2>3, FinishLeaves, FinishArrives DEF Executing, Running
        <3> QED
            BY <1>1, <1>2, <3>1, LeavesSettles, OverCounts
    <2>4. ASSUME NEW t, NEW v \in {"initiator", "special"} , Execute(a, t, v), t # NoTransition
          PROVE  Counts(a)
        <3>1. pc'[a] = "exec" /\ via'[a] = v
            BY <2>4 DEF Execute, FlowInvariant, FlowTypes
        <3>2. Idles(a)
            BY <1>1, <1>2, <2>1, <2>4, <3>1 DEF Idles, Settled, SameCounts, Answering, Alive, Running
        <3> QED
            BY <1>1, <3>2 DEF Counts, SameCounts
    <2>5. ASSUME Execute(a, NoTransition, "read") PROVE Counts(a)
        <3>1. pc'[a] = "await"
            BY <2>5 DEF Execute, FlowInvariant, FlowTypes
        <3>2. Idles(a)
            BY <1>1, <1>2, <2>1, <3>1 DEF Idles, Settled, SameCounts, Answering, Alive, Running
        <3> QED
            BY <1>1, <3>2 DEF Counts, SameCounts
    <2>6. ASSUME NEW t \in Available(a), NEW u \in Modified(a, t) PROVE u # NoTransition
        <3>1. state[a] \in States
            BY <2>1 DEF FlowInvariant, FlowAt, Running
        <3>2. u \in TransitionType
            BY <2>6, <3>1, ModifiedTyped, AvailableTyped
        <3> QED
            BY <3>2, VisitAssumption
    <2> QED
        BY <2>2, <2>3, <2>4, <2>5, <2>6
<1> QED
    BY <1>3, <1>4

\* The channel is opened, or closed.
LEMMA OperationCounts ==
    ASSUME FlowInvariant, NEW a \in Actors, PlaceAt(a), ExecOpen(a) \/ ExecClose(a)
    PROVE  Counts(a)
<1>1. /\ pc[a] = "exec" /\ cur[a].kind # "Transition"
      /\ UNCHANGED <<inbox, net>> /\ UNCHANGED <<requests, timeouts, rx>>
    BY DEF ExecOpen, ExecClose
<1>2. Complete(a) \/ Raise(a, via[a] = "initiator")
    BY DEF ExecOpen, ExecClose
<1>3. Leaves(a)
    <2>1. a \in PureInitiators => via[a] = "initiator"
        BY <1>1, PureInitiator DEF Executing
    <2> QED
        BY <1>1, <1>2, <2>1, CompleteLeaves, RaiseLeaves DEF Acting, Running
<1>4. via[a] # "read"
    BY <1>1 DEF PlaceAt
<1>5. Idles(a)
    BY <1>1, <1>3, <1>4, StillWay, LeavesSettles DEF Idles, SameCounts, Answering, Alive, Running
<1> QED
    BY <1>1, <1>5 DEF Counts, SameCounts

\* A write fails.
LEMMA WriteFailsCounts ==
    ASSUME FlowInvariant, NEW a \in Actors, pc[a] = "exec", WriteFails(a)
    PROVE  Counts(a)
<1>1. pc'[a] \in Gone
    BY WriteFailsEnds DEF Gone, FlowInvariant, FlowTypes
<1>2. UNCHANGED <<inbox, net>> /\ UNCHANGED <<requests, timeouts, rx>>
    BY DEF WriteFails, chanVars, histVars
<1> QED
    BY <1>1, <1>2, OverIsDead, StillWay, StillApart, OverCounts

\* A request is written and counted.
LEMMA SendCounts ==
    ASSUME FlowInvariant, MessageTypes, EventTypes, SessionOfPairs, NEW a \in Actors, PlaceAt(a),
           ExecSend(a)
    PROVE  Counts(a)
<1>1. /\ pc[a] = "exec" /\ cur[a].kind = "Transition" /\ via[a] = "initiator"
      /\ state[a] \in States /\ cur[a] \in TransitionType /\ cur[a] \in ToSet(Transitions(a))
    BY DEF ExecSend, FlowInvariant, FlowAt, PlaceAt, Running, Acting, Inside
<1>2. Initiates(a, cur[a])
    BY <1>1 DEF PlaceAt, Inside
<1>3. cur[a].input # Empty /\ ~(cur[a].outputs \subseteq {Empty}) /\ cur[a].input \in Symbols \cup {Empty}
    <2>1. cur[a].input # Empty /\ cur[a].outputs # {} /\ Empty \notin cur[a].outputs
        BY <1>1, OfState
    <2> QED
        BY <1>1, <2>1 DEF TransitionType
<1>4. CASE WriteFails(a)
    BY <1>1, <1>4, WriteFailsCounts
<1>5. CASE /\ requests' = [requests EXCEPT ![a] = @ + 1]
           /\ Transmit(a, Message(cur[a].input, TRUE, requests'[a]))
           /\ pc' = [pc EXCEPT ![a] = "recv"]
           /\ UNCHANGED <<inbox, rx, timeouts>>
    <2>1. /\ requests'[a] = requests[a] + 1 /\ requests'[a] \in Nat
          /\ \A b \in Actors \ {a} : requests'[b] = requests[b]
        BY <1>5 DEF EventTypes
    <2>2. PICK m \in Numbered : m = Message(cur[a].input, TRUE, requests'[a])
                                /\ m.of = requests'[a]
        <3>1. PICK n \in Nat : n = requests'[a]
            BY <2>1
        <3>2. /\ Message(cur[a].input, TRUE, n) \in Numbered
              /\ Message(cur[a].input, TRUE, n).of = n
            BY <1>3, MessageTyped
        <3> QED
            BY <3>1, <3>2
    <2>3. Sent(a, m)
        BY <1>5, <2>2, TransmitSent
    <2>4. pc'[a] = "recv"
        BY <1>5 DEF FlowInvariant, FlowTypes
    <2>5. Puts(a)
        BY <1>1, <1>2, <1>5, <2>1, <2>2, <2>3, <2>4 DEF Puts
    <2> QED
        BY <1>5, <2>1, <2>5 DEF Counts, SameCounts
<1> QED
    BY <1>3, <1>4, <1>5 DEF ExecSend

\* An answer is written with the number of the question.
LEMMA AnswerCounts ==
    ASSUME FlowInvariant, MessageTypes, SessionOfPairs, NEW a \in Actors, PlaceAt(a),
           ExecAnswer(a)
    PROVE  Counts(a)
<1>1. /\ pc[a] = "exec" /\ cur[a].kind = "Transition" /\ via[a] # "initiator"
      /\ state[a] \in States /\ cur[a] \in TransitionType /\ cur[a] \in ToSet(Transitions(a))
    BY DEF ExecAnswer, FlowInvariant, FlowAt, PlaceAt, Running, Acting, Inside
<1>2. Answering(a)
    BY <1>1 DEF PlaceAt, Inside, Answering
<1>3. /\ Empty \notin cur[a].drawn /\ cur[a].drawn \subseteq cur[a].outputs
      /\ cur[a].outputs \subseteq Symbols \cup {Empty}
    <2>1. Empty \notin cur[a].drawn /\ cur[a].drawn \subseteq cur[a].outputs
        BY <1>1, OfState
    <2> QED
        BY <1>1, <2>1 DEF TransitionType
<1>4. CASE WriteFails(a)
    BY <1>1, <1>4, WriteFailsCounts
<1>5. ASSUME NEW s \in cur[a].drawn, Transmit(a, Message(s, TRUE, rx[a].of)), Complete(a),
             UNCHANGED <<connected, inbox, injected, rx, requests, timeouts, stopRequested,
                         disturbed>>
      PROVE  Counts(a)
    <2>1. rx[a].of \in Nat /\ s \in Symbols \cup {Empty}
        BY <1>3, <1>5 DEF MessageTypes, Numbered
    <2>2. PICK m \in Numbered : m = Message(s, TRUE, rx[a].of) /\ m.of = rx[a].of
        <3>1. PICK n \in Nat : n = rx[a].of
            BY <2>1
        <3>2. Message(s, TRUE, n) \in Numbered /\ Message(s, TRUE, n).of = n
            BY <2>1, MessageTyped
        <3> QED
            BY <3>1, <3>2
    <2>3. Sent(a, m)
        BY <1>5, <2>2, TransmitSent
    <2>4. Settled(a)
        BY <1>1, <1>5, CompleteLeaves, LeavesSettles DEF Acting
    <2>5. Tells(a)
        BY <1>2, <1>5, <2>2, <2>3, <2>4 DEF Tells, SameCounts
    <2> QED
        BY <1>5, <2>5 DEF Counts, SameCounts
<1>6. CASE cur[a].drawn = {} /\ Raise(a, FALSE) /\ UNCHANGED <<chanVars, histVars>>
    <2>1. pc'[a] \in Gone
        BY <1>6, RaiseEnds
    <2>2. UNCHANGED <<inbox, net>> /\ UNCHANGED <<requests, timeouts, rx>>
        BY <1>6 DEF chanVars, histVars
    <2> QED
        BY <2>1, <2>2, OverIsDead, StillWay, StillApart, OverCounts
<1> QED
    BY <1>3, <1>4, <1>5, <1>6 DEF ExecAnswer

\* Reading changes what is read only.
LEMMA ReadsRx ==
    ASSUME MessageTypes, NEW a \in Actors, Reads(a), UNCHANGED net
    PROVE  /\ Gets(a) /\ rx'[a] = Head(Way(a))
           /\ \A b \in Actors \ {a} : rx'[b] = rx[b]
<1>1. rx' = [rx EXCEPT ![a] = Head(inbox[a])]
    BY DEF Reads
<1>2. rx'[a] = Head(inbox[a]) /\ \A b \in Actors \ {a} : rx'[b] = rx[b]
    BY <1>1 DEF MessageTypes
<1> QED
    BY <1>2, ReadsGets

\* An answer is read, or a wait for it is given up.
LEMMA ReceiveAnswerCounts ==
    ASSUME FlowInvariant, MessageTypes, EventTypes, NEW a \in Actors, ReceiveAnswer(a)
    PROVE  Counts(a)
<1>1. pc[a] = "recv" /\ state[a] \in States
    BY DEF ReceiveAnswer, FlowInvariant, FlowAt, Running
<1>2. UNCHANGED <<net, requests>>
    BY DEF ReceiveAnswer
<1>3. CASE StopsReading(a) /\ UNCHANGED <<inbox, rx, timeouts>>
    BY <1>1, <1>2, <1>3, StopsOver, LeavesSettles, StillWay, StillApart, OverCounts
<1>4. CASE ReadFails(a) /\ Conclude(a, NoState) /\ UNCHANGED <<inbox, rx, timeouts>>
    <2>1. Leaves(a) /\ pc'[a] \in Gone
        BY <1>1, <1>4, ConcludeLeaves, ConcludeArrives DEF Executing
    <2> QED
        BY <1>2, <1>4, <2>1, LeavesSettles, StillWay, StillApart, OverCounts
<1>5. CASE TimesOut(a) /\ Conclude(a, state[a]) /\ UNCHANGED <<inbox, rx>>
    <2>1. Settled(a)
        BY <1>1, <1>5, ConcludeLeaves, LeavesSettles DEF Executing
    <2>2. timeouts'[a] = timeouts[a] + 1 /\ \A b \in Actors \ {a} : timeouts'[b] = timeouts[b]
        BY <1>5 DEF TimesOut, EventTypes
    <2>3. Skips(a)
        BY <1>1, <1>2, <1>5, <2>1, <2>2, StillWay DEF Skips
    <2> QED
        BY <1>2, <1>5, <2>2, <2>3 DEF Counts, SameCounts
<1>6. CASE /\ Reads(a) /\ UNCHANGED timeouts
           /\ Complete(a) \/ Conclude(a, NoState) \/ Conclude(a, state[a]) \/ Raise(a, TRUE)
    <2>1. Leaves(a)
        BY <1>1, <1>6, CompleteLeaves, ConcludeLeaves, RaiseLeaves DEF Acting, Executing, Running
    <2>2. Gets(a) /\ \A b \in Actors \ {a} : rx'[b] = rx[b]
        BY <1>2, <1>6, ReadsRx
    <2>3. Gains(a)
        BY <1>1, <1>2, <1>6, <2>1, <2>2, LeavesSettles DEF Gains, SameCounts
    <2> QED
        BY <1>2, <1>6, <2>2, <2>3 DEF Counts, SameCounts
<1>7. \/ /\ Reads(a) /\ UNCHANGED timeouts
         /\ Complete(a) \/ Conclude(a, NoState) \/ Conclude(a, state[a]) \/ Raise(a, TRUE)
      \/ TimesOut(a) /\ Conclude(a, state[a]) /\ UNCHANGED <<inbox, rx>>
      \/ StopsReading(a) /\ UNCHANGED <<inbox, rx, timeouts>>
      \/ ReadFails(a) /\ Conclude(a, NoState) /\ UNCHANGED <<inbox, rx, timeouts>>
      \/ ReadRaises(a) /\ UNCHANGED <<inbox, rx, timeouts>>
    BY DEF ReceiveAnswer
<1>8. CASE ReadRaises(a) /\ UNCHANGED <<inbox, rx, timeouts>>
    <2>1. Leaves(a) /\ pc'[a] \in Gone
        BY <1>1, <1>8, RaiseLeaves, RaiseEnds DEF ReadRaises, Running
    <2> QED
        BY <1>2, <1>8, <2>1, LeavesSettles, StillWay, StillApart, OverCounts
<1> QED
    BY <1>3, <1>4, <1>5, <1>6, <1>7, <1>8

\* A question is read.
LEMMA ReceiveInputCounts ==
    ASSUME FlowInvariant, MessageTypes, EventTypes, SessionOfPairs, NEW a \in Actors, PlaceAt(a),
           ReceiveInput(a)
    PROVE  Counts(a)
<1>1. /\ pc[a] = "await" /\ state[a] \in States /\ via[a] = "read" /\ a \notin Modifying
    BY DEF ReceiveInput, FlowInvariant, FlowAt, PlaceAt, Running
<1>2. UNCHANGED <<net, requests>>
    BY DEF ReceiveInput
<1>3. CASE StopsReading(a) /\ UNCHANGED <<inbox, rx, timeouts>>
    BY <1>1, <1>2, <1>3, StopsOver, LeavesSettles, StillWay, StillApart, OverCounts
<1>4. CASE ReadFails(a) /\ Finish(a, NoState) /\ UNCHANGED <<active, inbox, rx, timeouts>>
    <2>1. Leaves(a) /\ pc'[a] \in Gone
        BY <1>1, <1>4, AwaitNotPure, FinishLeaves, FinishArrives DEF Running
    <2> QED
        BY <1>2, <1>4, <2>1, LeavesSettles, StillWay, StillApart, OverCounts
<1>5. CASE /\ TimesOut(a) /\ UNCHANGED <<inbox, rx>>
           /\ IF Unprompted(a) # {}
              THEN React(a, FirstOf(a, Unprompted(a)))
              ELSE Conclude(a, NoState)
    <2>1. Unprompted(a) = {}
        <3> SUFFICES ASSUME NEW t \in Unprompted(a) PROVE FALSE
            OBVIOUS
        <3>1. t \in ToSet(Transitions(a)) /\ t.kind = "Transition" /\ t.input = Empty
            BY DEF Unprompted
        <3> QED
            BY <1>1, <3>1, OfState
    <2>2. Leaves(a) /\ pc'[a] \in Gone
        BY <1>1, <1>5, <2>1, ConcludeLeaves, ConcludeArrives DEF Executing
    <2>3. \A b \in Actors \ {a} : timeouts'[b] = timeouts[b]
        BY <1>5 DEF TimesOut, EventTypes
    <2>4. Quits(a)
        BY <1>2, <1>5, <2>2, LeavesSettles, StillWay, StillApart DEF Quits
    <2> QED
        BY <1>2, <1>5, <2>3, <2>4 DEF Counts, SameCounts
<1>6. CASE Reads(a) /\ React(a, FirstOf(a, Expecting(a, Head(inbox[a])))) /\ UNCHANGED timeouts
    <2>1. Gets(a) /\ rx'[a] = Head(Way(a)) /\ \A b \in Actors \ {a} : rx'[b] = rx[b]
        BY <1>2, <1>6, ReadsRx
    <2>2. PICK ts, t : t = FirstOf(a, ts) /\ ts = Expecting(a, Head(inbox[a]))
        OBVIOUS
    <2>3. IF t # NoTransition
          THEN pc' = [pc EXCEPT ![a] = "exec"] /\ via' = via
          ELSE Conclude(a, NoState) \/ Raise(a, FALSE)
        BY <1>1, <1>6, <2>2 DEF React, Modified
    <2>4. CASE t = NoTransition
        <3>1. Leaves(a) /\ pc'[a] \in Gone
            BY <1>1, <2>3, <2>4, AwaitNotPure, ConcludeLeaves, ConcludeArrives, RaiseLeaves,
               RaiseEnds DEF Executing, Running
        <3>2. Quits(a)
            BY <2>1, <3>1, LeavesSettles DEF Quits, Gets
        <3> QED
            BY <1>2, <1>6, <2>1, <3>2 DEF Counts, SameCounts
    <2>5. CASE t # NoTransition
        <3>1. t \in ts /\ t \in ToSet(Transitions(a))
            BY <1>1, <2>2, <2>5, FirstExpecting
        <3>2. ~Initiates(a, t)
            BY <2>2, <3>1 DEF Expecting
        <3>3. Answering(a)'
            BY <1>1, <2>3, <2>5 DEF Answering, FlowInvariant, FlowTypes
        <3>4. Hears(a)
            BY <1>1, <1>2, <1>6, <2>1, <3>1, <3>2, <3>3 DEF Hears, SameCounts
        <3> QED
            BY <1>2, <1>6, <2>1, <3>4 DEF Counts, SameCounts
    <2> QED
        BY <2>4, <2>5
<1>8. CASE ReadRaises(a) /\ UNCHANGED <<inbox, rx, timeouts>>
    <2>1. Leaves(a) /\ pc'[a] \in Gone
        BY <1>1, <1>8, RaiseLeaves, RaiseEnds DEF ReadRaises, Running
    <2> QED
        BY <1>2, <1>8, <2>1, LeavesSettles, StillWay, StillApart, OverCounts
<1> QED
    BY <1>3, <1>4, <1>5, <1>6, <1>8 DEF ReceiveInput

\* Every step of an actor counts like that.
LEMMA EveryCount ==
    ASSUME TypeInvariant, SessionOfPairs, NEW a \in Actors, PlaceAt(a), ActorStep(a)
    PROVE  Counts(a)
BY WalkCounts, OperationCounts, SendCounts, AnswerCounts, ReceiveAnswerCounts,
   ReceiveInputCounts DEF ActorStep, TypeInvariant

\* Who begins every exchange waits for answers, the other one answers.
LEMMA Sides ==
    ASSUME TypeInvariant, ClientsAsk, NEW a \in Actors
    PROVE  /\ PlaceAt(a) /\ Answering(a) => a \notin Initiator
           /\ PlaceAt(a) /\ pc[a] = "recv" => a \in Initiator
           /\ state[a] \in States =>
                 \A t \in ToSet(Transitions(a)) : Initiates(a, t) <=> a \in Initiator
<1>1. ASSUME state[a] \in States, NEW t \in ToSet(Transitions(a))
      PROVE  Initiates(a, t) <=> a \in Initiator
    <2>1. \E i \in DOMAIN Automaton[a][state[a]] : t = Automaton[a][state[a]][i]
        BY <1>1 DEF Transitions, ToSet
    <2>2. ~t.inverse
        BY <1>1, <2>1 DEF ClientsAsk
    <2>3. t.inverse \in BOOLEAN
        BY <1>1, TransitionsTyped DEF TransitionType
    <2>4. Initiates(a, t) <=> ((a \in Initiator) # t.inverse)
        BY DEF Initiates
    <2>5. \A i \in BOOLEAN : ~i => (((a \in Initiator) # i) <=> a \in Initiator)
        OBVIOUS
    <2> QED
        BY <2>2, <2>3, <2>4, <2>5
<1>2. ASSUME PlaceAt(a), pc[a] \in Inside
      PROVE  state[a] \in States /\ cur[a] \in ToSet(Transitions(a))
    BY <1>2 DEF TypeInvariant, FlowInvariant, FlowAt, PlaceAt, Acting, Inside, Running
<1>3. ASSUME PlaceAt(a), Answering(a) PROVE a \notin Initiator
    <2>1. pc[a] = "exec" /\ via[a] = "read" /\ pc[a] \in Inside
        BY <1>3 DEF Answering, Inside
    <2>2. ~Initiates(a, cur[a])
        BY <1>3, <2>1 DEF PlaceAt
    <2> QED
        BY <1>1, <1>2, <1>3, <2>1, <2>2
<1>4. ASSUME PlaceAt(a), pc[a] = "recv" PROVE a \in Initiator
    <2>1. pc[a] \in Inside /\ cur[a].kind = "Transition" /\ via[a] = "initiator"
        BY <1>4 DEF Inside, PlaceAt, TypeInvariant, FlowInvariant, FlowAt
    <2>2. Initiates(a, cur[a])
        BY <1>4, <2>1 DEF PlaceAt
    <2> QED
        BY <1>1, <1>2, <1>4, <2>1, <2>2
<1> QED
    BY <1>1, <1>3, <1>4

\* What is taken from a row, or added to it.
LEMMA RowSteps ==
    ASSUME NEW w \in Seq(Numbered), NEW n \in Int, InRow(w, n)
    PROVE  /\ Len(w) \in Nat
           /\ w # <<>> => /\ Head(w).of = n + 1 /\ InRow(Tail(w), n + 1)
                          /\ Len(Tail(w)) = Len(w) - 1
           /\ \A m \in Numbered :
                 /\ Len(Append(w, m)) = Len(w) + 1
                 /\ m.of = n + Len(w) + 1 => InRow(Append(w, m), n)
<1>1. PICK k \in Nat : k = Len(w)
    BY LenProperties
<1>2. ASSUME w # <<>>
      PROVE  Head(w).of = n + 1 /\ InRow(Tail(w), n + 1) /\ Len(Tail(w)) = Len(w) - 1
    <2>1. k >= 1 /\ Head(w) = w[1]
        BY <1>1, <1>2
    <2>2. PICK z \in Seq(Numbered) : /\ z = Tail(w) /\ Len(z) = k - 1
                                     /\ \A i \in 1..k - 1 : z[i] = w[i + 1]
        <3>1. /\ Tail(w) \in Seq(Numbered) /\ Len(Tail(w)) = Len(w) - 1
              /\ \A i \in 1..Len(Tail(w)) : Tail(w)[i] = w[i + 1]
            BY <1>2, HeadTailProperties
        <3> QED
            BY <1>1, <3>1
    <2>3. \A i \in 1..k : w[i].of = n + i
        BY <1>1 DEF InRow
    <2>4. Head(w).of = n + 1
        BY <2>1, <2>3
    <2>5. ASSUME NEW i \in 1..k - 1 PROVE z[i].of = (n + 1) + i
        <3>1. i + 1 \in 1..k
            BY <2>5
        <3>2. w[i + 1].of = n + (i + 1)
            BY <2>3, <3>1
        <3> QED
            BY <2>2, <3>2
    <2>6. InRow(z, n + 1)
        BY <2>2, <2>5 DEF InRow
    <2> QED
        BY <1>1, <2>2, <2>4, <2>6
<1>3. ASSUME NEW m \in Numbered
      PROVE  /\ Len(Append(w, m)) = Len(w) + 1
             /\ m.of = n + Len(w) + 1 => InRow(Append(w, m), n)
    <2>1. PICK z : z = Append(w, m)
        OBVIOUS
    <2>2. Len(z) = k + 1 /\ z[k + 1] = m
        BY <1>1, <2>1, AppendProperties
    <2>3. \A i \in 1..k : z[i] = w[i]
        BY <1>1, <2>1, AppendProperties
    <2>4. \A i \in 1..k : w[i].of = n + i
        BY <1>1 DEF InRow
    <2>5. ASSUME m.of = n + k + 1, NEW i \in 1..k + 1 PROVE z[i].of = n + i
        <3>1. CASE i = k + 1
            BY <2>2, <2>5, <3>1
        <3>2. CASE i \in 1..k
            BY <2>3, <2>4, <3>2
        <3> QED
            BY <3>1, <3>2
    <2>6. m.of = n + k + 1 => InRow(z, n)
        BY <2>2, <2>5 DEF InRow
    <2> QED
        BY <1>1, <2>1, <2>2, <2>6
<1> QED
    BY <1>1, <1>2, <1>3

\* The step of x, which begins the exchanges.
LEMMA ClientTally ==
    ASSUME TypeInvariant, ClientsAsk, NEW x \in Initiator, NEW y, IsPair(x, y), PlaceAt(x),
           Tally(x, y), Counts(x), Elsewhere(x)
    PROVE  Tally(x, y)'
<1>1. /\ x \in Actors /\ y \in Actors /\ x # y /\ Peer[x] = y
      /\ Way(x) \in Seq(Numbered) /\ Way(y) \in Seq(Numbered)
      /\ requests[x] \in Nat /\ timeouts[x] \in Nat
    BY PathTyped DEF IsPair, TypeInvariant, EventTypes
<1>2. /\ pc'[y] = pc[y] /\ via'[y] = via[y] /\ rx'[y] = rx[y]
    BY <1>1 DEF Elsewhere, Counts
<1>3. Alive(y)' = Alive(y) /\ Answering(y)' = Answering(y) /\ Pending(y)' = Pending(y)
    BY <1>2 DEF Alive, Answering, Pending
<1>4. PICK k \in Nat, q \in Nat, h \in Int, p \in {0, 1} :
          k = Len(Way(x)) /\ q = Len(Way(y)) /\ h = Heard(x) /\ p = Pending(y)
    <2>1. Len(Way(x)) \in Nat /\ Len(Way(y)) \in Nat
        BY <1>1, LenProperties
    <2>2. Heard(x) \in Int /\ Pending(y) \in {0, 1}
        BY <1>1 DEF Heard, Pending
    <2> QED
        BY <2>1, <2>2
<1>5. CASE Quits(x)
    BY <1>5 DEF Quits, Tally
<1>6. SUFFICES ASSUME Alive(x)', Alive(x)
               PROVE  /\ InRow(Way(x)', Heard(x)')
                      /\ Alive(y) =>
                            /\ Answering(y) => rx[y].of = Heard(x)' + Len(Way(x)') + 1
                            /\ InRow(Way(y)', Heard(x)' + Len(Way(x)') + p)
                            /\ requests'[x] = Heard(x)' + Len(Way(x)') + p + Len(Way(y)')
    <2>1. Alive(x)' => Alive(x)
        BY <1>5 DEF Counts, Quits, Idles, Puts, Hears, Tells, Gains, Skips, Alive, Answering, Running
    <2>2. InRow(Way(x), Heard(x))' = InRow(Way(x)', Heard(x)')
        BY DEF InRow
    <2>3. InRow(Way(y), Heard(x) + Len(Way(x)) + Pending(y))'
            = InRow(Way(y)', Heard(x)' + Len(Way(x)') + Pending(y)')
        BY DEF InRow
    <2> QED
        BY <1>2, <1>3, <1>4, <2>1, <2>2, <2>3 DEF Tally
<1>7. /\ InRow(Way(x), h)
      /\ Alive(y) =>
            /\ Answering(y) => rx[y].of = h + k + 1
            /\ InRow(Way(y), h + k + p)
            /\ requests[x] = h + k + p + q
    BY <1>4, <1>6 DEF Tally
<1>8. h = requests[x] - timeouts[x] - (IF pc[x] = "recv" THEN 1 ELSE 0)
    BY <1>4 DEF Heard
<1>9. Heard(x)' = requests'[x] - timeouts'[x] - (IF pc'[x] = "recv" THEN 1 ELSE 0)
    BY DEF Heard
<1>10. CASE Idles(x)
    <2>1. Way(x)' = Way(x) /\ Way(y)' = Way(y) /\ Heard(x)' = h /\ requests'[x] = requests[x]
        BY <1>1, <1>8, <1>9, <1>10 DEF Idles, Still, Settled, SameCounts
    <2> QED
        BY <1>4, <1>7, <2>1
<1>11. CASE Skips(x)
    <2>1. Way(x)' = Way(x) /\ Way(y)' = Way(y) /\ Heard(x)' = h /\ requests'[x] = requests[x]
        <3>1. /\ pc[x] = "recv" /\ pc'[x] # "recv"
              /\ requests'[x] = requests[x] /\ timeouts'[x] = timeouts[x] + 1
            BY <1>11 DEF Skips, Settled
        <3> QED
            BY <1>1, <1>8, <1>9, <1>11, <3>1 DEF Skips, Still
    <2> QED
        BY <1>4, <1>7, <2>1
<1>12. CASE Puts(x)
    <2>1. /\ pc[x] # "recv" /\ pc'[x] = "recv"
          /\ requests'[x] = requests[x] + 1 /\ timeouts'[x] = timeouts[x]
        BY <1>12 DEF Puts
    <2>2. Heard(x)' = h
        BY <1>1, <1>8, <1>9, <2>1
    <2>3. PICK m \in Numbered : m.of = requests[x] + 1 /\ Sent(x, m)
        BY <1>12 DEF Puts
    <2>4. Way(y)' = Append(Way(y), m) /\ Way(x)' = Way(x)
        BY <1>1, <2>3 DEF Sent, Apart
    <2>5. ASSUME Alive(y)
          PROVE  Len(Way(y)') = q + 1 /\ InRow(Way(y)', h + k + p)
        <3>1. PICK w \in Seq(Numbered), n \in Int : w = Way(y) /\ n = h + k + p /\ InRow(w, n)
            BY <1>1, <1>4, <1>7, <2>5
        <3>2. Len(Append(w, m)) = Len(w) + 1 /\ (m.of = n + Len(w) + 1 => InRow(Append(w, m), n))
            BY <3>1, RowSteps
        <3>3. m.of = n + Len(w) + 1
            BY <1>4, <1>7, <2>3, <2>5, <3>1
        <3> QED
            BY <1>4, <2>4, <3>1, <3>2, <3>3
    <2> QED
        BY <1>4, <1>7, <2>1, <2>2, <2>4, <2>5
<1>13. CASE Gains(x)
    <2>1. /\ pc[x] = "recv" /\ pc'[x] # "recv"
          /\ requests'[x] = requests[x] /\ timeouts'[x] = timeouts[x]
        BY <1>13 DEF Gains, Settled, SameCounts
    <2>2. Heard(x)' = h + 1
        BY <1>1, <1>8, <1>9, <2>1
    <2>3. Way(x) # <<>> /\ Way(x)' = Tail(Way(x)) /\ Way(y)' = Way(y)
        BY <1>1, <1>13 DEF Gains, Gets, Apart
    <2>4. InRow(Tail(Way(x)), h + 1) /\ Len(Tail(Way(x))) = k - 1
        <3>1. PICK w \in Seq(Numbered) : w = Way(x) /\ InRow(w, h) /\ w # <<>>
            BY <1>1, <1>7, <2>3
        <3>2. w # <<>> => InRow(Tail(w), h + 1) /\ Len(Tail(w)) = Len(w) - 1
            BY <3>1, RowSteps
        <3> QED
            BY <1>4, <3>1, <3>2
    <2>5. (h + 1) + (k - 1) = h + k
        OBVIOUS
    <2> QED
        BY <1>4, <1>7, <2>1, <2>2, <2>3, <2>4, <2>5
<1>14. ~Hears(x) /\ ~Tells(x)
    <2>1. pc[x] = "await" => state[x] \in States
        BY <1>1 DEF TypeInvariant, FlowInvariant, FlowAt, Running
    <2> QED
        BY <1>1, <2>1, Sides DEF Hears, Tells
<1> QED
    BY <1>5, <1>6, <1>10, <1>11, <1>12, <1>13, <1>14 DEF Counts, Quits

\* The step of y, which answers.
LEMMA ServerTally ==
    ASSUME TypeInvariant, ClientsAsk, NEW x \in Initiator, NEW y, IsPair(x, y), PlaceAt(y),
           Tally(x, y), Counts(y), Elsewhere(y)
    PROVE  Tally(x, y)'
<1>1. /\ x \in Actors /\ y \in Actors /\ x # y /\ Peer[y] = x /\ y \notin Initiator
      /\ Way(x) \in Seq(Numbered) /\ Way(y) \in Seq(Numbered)
      /\ requests[x] \in Nat /\ timeouts[x] \in Nat
    <2>1. y \notin Initiator
        BY DEF ClientsAsk, SessionOfPairs, IsPair
    <2> QED
        BY <2>1, PathTyped DEF IsPair, TypeInvariant, EventTypes
<1>2. pc'[x] = pc[x] /\ requests'[x] = requests[x] /\ timeouts'[x] = timeouts[x]
    BY <1>1 DEF Elsewhere, Counts, SameCounts
<1>3. Alive(x)' = Alive(x) /\ Heard(x)' = Heard(x)
    BY <1>2 DEF Alive, Heard
<1>4. PICK k \in Nat, q \in Nat, h \in Int, p \in {0, 1} :
          k = Len(Way(x)) /\ q = Len(Way(y)) /\ h = Heard(x) /\ p = Pending(y)
    <2>1. Len(Way(x)) \in Nat /\ Len(Way(y)) \in Nat
        BY <1>1, LenProperties
    <2>2. Heard(x) \in Int /\ Pending(y) \in {0, 1}
        BY <1>1 DEF Heard, Pending
    <2> QED
        BY <2>1, <2>2
<1>5. SUFFICES ASSUME Alive(x)
               PROVE  /\ InRow(Way(x)', h)
                      /\ Alive(y)' =>
                            /\ Answering(y)' => rx'[y].of = h + Len(Way(x)') + 1
                            /\ InRow(Way(y)', h + Len(Way(x)') + Pending(y)')
                            /\ requests[x] = h + Len(Way(x)') + Pending(y)' + Len(Way(y)')
    <2>1. InRow(Way(x), Heard(x))' = InRow(Way(x)', Heard(x)')
        BY DEF InRow
    <2>2. InRow(Way(y), Heard(x) + Len(Way(x)) + Pending(y))'
            = InRow(Way(y)', Heard(x)' + Len(Way(x)') + Pending(y)')
        BY DEF InRow
    <2> QED
        BY <1>2, <1>3, <1>4, <2>1, <2>2 DEF Tally
<1>6. /\ InRow(Way(x), h)
      /\ Alive(y) =>
            /\ Answering(y) => rx[y].of = h + k + 1
            /\ InRow(Way(y), h + k + p)
            /\ requests[x] = h + k + p + q
    BY <1>4, <1>5 DEF Tally
<1>7. CASE Quits(y)
    <2>1. Way(x)' = Way(x)
        BY <1>1, <1>7 DEF Quits, Apart
    <2> QED
        BY <1>6, <1>7, <2>1 DEF Quits
<1>8. CASE Idles(y)
    <2>1. Way(x)' = Way(x) /\ Way(y)' = Way(y) /\ Pending(y)' = 0 /\ p = 0 /\ Alive(y)
          /\ ~Answering(y)'
        BY <1>1, <1>4, <1>8 DEF Idles, Still, Pending, Settled
    <2> QED
        BY <1>4, <1>6, <2>1
<1>9. CASE Hears(y)
    <2>1. /\ Way(y) # <<>> /\ Way(y)' = Tail(Way(y)) /\ Way(x)' = Way(x)
          /\ rx'[y] = Head(Way(y)) /\ pc[y] = "await" /\ Answering(y)'
        BY <1>1, <1>9 DEF Hears, Gets, Apart
    <2>2. p = 0 /\ Pending(y)' = 1 /\ Alive(y)
        BY <1>4, <2>1 DEF Pending, Answering, Alive, Running
    <2>3. /\ Head(Way(y)).of = h + k + 1 /\ InRow(Tail(Way(y)), h + k + 1)
          /\ Len(Tail(Way(y))) = q - 1
        <3>1. PICK w \in Seq(Numbered), n \in Int : w = Way(y) /\ n = h + k /\ InRow(w, n) /\ w # <<>>
            BY <1>1, <1>4, <1>6, <2>1, <2>2
        <3>2. w # <<>> => /\ Head(w).of = n + 1 /\ InRow(Tail(w), n + 1)
                          /\ Len(Tail(w)) = Len(w) - 1
            BY <3>1, RowSteps
        <3> QED
            BY <1>4, <3>1, <3>2
    <2> QED
        BY <1>4, <1>6, <2>1, <2>2, <2>3
<1>10. CASE Tells(y)
    <2>1. p = 1 /\ Pending(y)' = 0 /\ Alive(y) /\ Answering(y) /\ ~Answering(y)'
        BY <1>4, <1>10 DEF Tells, Settled, Pending, Answering, Alive, Running
    <2>2. PICK m \in Numbered : m.of = rx[y].of /\ Sent(y, m)
        BY <1>10 DEF Tells
    <2>3. Way(x)' = Append(Way(x), m) /\ Way(y)' = Way(y)
        BY <1>1, <2>2 DEF Sent, Apart
    <2>4. Len(Way(x)') = k + 1 /\ InRow(Way(x)', h)
        <3>1. PICK w \in Seq(Numbered) : w = Way(x) /\ InRow(w, h)
            BY <1>1, <1>6
        <3>2. Len(Append(w, m)) = Len(w) + 1 /\ (m.of = h + Len(w) + 1 => InRow(Append(w, m), h))
            BY <3>1, RowSteps
        <3>3. m.of = h + Len(w) + 1
            BY <1>4, <1>6, <2>1, <2>2, <3>1
        <3> QED
            BY <1>4, <2>3, <3>1, <3>2, <3>3
    <2>5. h + (k + 1) + 0 = h + k + 1
        OBVIOUS
    <2> QED
        BY <1>4, <1>6, <2>1, <2>3, <2>4, <2>5
<1>11. ~Puts(y) /\ ~Gains(y) /\ ~Skips(y)
    <2>1. pc[y] = "exec" => state[y] \in States
        BY <1>1 DEF TypeInvariant, FlowInvariant, FlowAt, Running
    <2> QED
        BY <1>1, <2>1, Sides DEF Puts, Gains, Skips
<1> QED
    BY <1>7, <1>8, <1>9, <1>10, <1>11 DEF Counts

\* The step of an actor of another pair.
LEMMA OthersTally ==
    ASSUME NEW x, NEW y,
           \A b \in {x, y} :
              /\ pc'[b] = pc[b] /\ via'[b] = via[b] /\ Way(b)' = Way(b)
              /\ requests'[b] = requests[b] /\ timeouts'[b] = timeouts[b] /\ rx'[b] = rx[b],
           Tally(x, y)
    PROVE  Tally(x, y)'
<1>1. /\ Alive(x)' = Alive(x) /\ Alive(y)' = Alive(y) /\ Answering(y)' = Answering(y)
      /\ Heard(x)' = Heard(x) /\ Pending(y)' = Pending(y)
      /\ Way(x)' = Way(x) /\ Way(y)' = Way(y)
    BY DEF Alive, Answering, Heard, Pending
<1>2. requests'[x] = requests[x] /\ rx'[y] = rx[y]
    OBVIOUS
<1> QED
    BY <1>1, <1>2 DEF Tally, InRow

\* A step moves messages of its pair only.
LEMMA OtherCounts ==
    ASSUME NEW a \in Actors, Counts(a), NEW b \in Actors, b # a, b # Peer[a]
    PROVE  /\ Way(b)' = Way(b)
           /\ requests'[b] = requests[b] /\ timeouts'[b] = timeouts[b] /\ rx'[b] = rx[b]
<1>1. Way(b)' = Way(b)
    BY DEF Counts, Quits, Idles, Puts, Hears, Tells, Gains, Skips, Gets, Sent, Apart, Still
<1> QED
    BY <1>1 DEF Counts, SameCounts

\* An actor keeps the numbers in a row.
LEMMA ActorKeepsTally ==
    ASSUME TypeInvariant, ClientsAsk, PairInvariant, NEW a \in Actors, ActorStep(a),
           NEW x \in Initiator, Tally(x, Peer[x])
    PROVE  Tally(x, Peer[x])'
<1>1. Elsewhere(a) /\ Counts(a)
    BY EveryStep, EveryCount DEF PairInvariant, Steps, ClientsAsk
<1>2. PICK y : y = Peer[x]
    OBVIOUS
<1>3. IsPair(x, y)
    BY <1>2, SamePeer, VisitAssumption DEF IsPair, ClientsAsk
<1>4. PlaceAt(x) /\ PlaceAt(y) /\ x \in Actors /\ y \in Actors
    BY <1>3 DEF PairInvariant, IsPair
<1>5. Tally(x, Peer[x])' = Tally(x, y)'
    BY <1>2
<1>6. CASE a = x
    BY <1>1, <1>2, <1>3, <1>4, <1>5, <1>6, ClientTally
<1>7. CASE a = y
    BY <1>1, <1>2, <1>3, <1>4, <1>5, <1>7, ServerTally
<1>8. CASE a \notin {x, y}
    <2>1. x # Peer[a] /\ y # Peer[a]
        BY <1>3, <1>8, SamePeer DEF IsPair, ClientsAsk
    <2>2. \A b \in {x, y} :
             /\ Way(b)' = Way(b)
             /\ requests'[b] = requests[b] /\ timeouts'[b] = timeouts[b] /\ rx'[b] = rx[b]
        BY <1>1, <1>4, <1>8, <2>1, OtherCounts
    <2>3. \A b \in {x, y} : pc'[b] = pc[b] /\ via'[b] = via[b]
        BY <1>1, <1>4, <1>8 DEF Elsewhere
    <2> QED
        BY <1>2, <1>5, <2>2, <2>3, OthersTally
<1> QED
    BY <1>6, <1>7, <1>8

\* So does every step.
LEMMA StepKeepsTally ==
    ASSUME TypeInvariant, ClientsAsk, PairInvariant, TallyInvariant, [Next]_vars
    PROVE  TallyInvariant'
<1> SUFFICES ASSUME ~disturbed', NEW x \in Initiator PROVE Tally(x, Peer[x])'
    BY DEF TallyInvariant
<1>1. disturbed => disturbed'
    <2>1. CASE UNCHANGED vars
        BY <2>1 DEF vars, histVars
    <2>2. CASE Next
        BY <2>2, StepTimeouts, OutsideSteps DEF Next
    <2> QED
        BY <2>1, <2>2
<1>2. Tally(x, Peer[x]) /\ x \in Actors /\ Peer[x] \in Actors
    BY <1>1, VisitAssumption DEF TallyInvariant
<1>3. ASSUME Still, UNCHANGED <<pc, via, requests, timeouts, rx>>
      PROVE  Tally(x, Peer[x])'
    <2>1. PICK y \in Actors : y = Peer[x]
        BY <1>2
    <2>2. Tally(x, y)'
        BY <1>2, <1>3, <2>1, OthersTally DEF Still
    <2> QED
        BY <2>1, <2>2
<1>4. CASE UNCHANGED vars
    <2>1. UNCHANGED <<inbox, net>> /\ UNCHANGED <<pc, via, requests, timeouts, rx>>
        BY <1>4 DEF vars, flowVars, chanVars, histVars
    <2> QED
        BY <1>3, <2>1, StillWay
<1>5. ASSUME NEW a \in Actors, ActorStep(a) PROVE Tally(x, Peer[x])'
    BY <1>2, <1>5, ActorKeepsTally
<1>6. ASSUME NEW a \in Actors, Stop(a) \/ Arrive(a) \/ Lose(a) \/ Inject(a)
      PROVE  Tally(x, Peer[x])'
    <2>1. Still /\ UNCHANGED <<pc, via, timeouts>>
        BY <1>6, OutsideSteps
    <2>2. UNCHANGED <<requests, rx>>
        BY <1>6 DEF Stop, Arrive, Lose, Inject
    <2> QED
        BY <1>3, <2>1, <2>2
<1> QED
    BY <1>4, <1>5, <1>6 DEF Next

\* Nothing was sent at the beginning.
LEMMA InitTally ==
    ASSUME Init, ClientsAsk
    PROVE  TallyInvariant
<1> SUFFICES ASSUME NEW x \in Initiator PROVE Tally(x, Peer[x])
    BY DEF TallyInvariant
<1>1. x \in Actors /\ Peer[x] \in Actors
    BY VisitAssumption
<1>2. ASSUME NEW b \in Actors
      PROVE  /\ Way(b) = <<>> /\ Len(Way(b)) = 0 /\ Heard(b) = 0 /\ Pending(b) = 0
             /\ ~Answering(b) /\ requests[b] = 0
    BY DEF Init, Way, Heard, Pending, Answering
<1>3. \A n : InRow(<<>>, n)
    BY DEF InRow
<1> QED
    BY <1>1, <1>2, <1>3 DEF Tally

\* Only reading takes messages out of an inbox.
LEMMA OnlyReadsShrink ==
    ASSUME MessageTypes, NEW a \in Actors, Next, Len(inbox'[a]) < Len(inbox[a]), pc[a] = "recv"
    PROVE  Reads(a) /\ UNCHANGED net
<1>1. Len(inbox[a]) \in Nat /\ inbox \in [Actors -> Seq(Numbered)]
    BY LenProperties DEF MessageTypes
<1>2. inbox' # inbox
    BY <1>1
<1>3. ASSUME NEW b \in Actors, ActorStep(b)
      PROVE  Reads(a) /\ UNCHANGED net
    <2>1. Reads(b) /\ UNCHANGED net /\ (ReceiveAnswer(b) \/ ReceiveInput(b))
        <3>1. ~TestStopEvent(b) /\ ~Pick(b) /\ ~ExitLoop(b)
            BY <1>2 DEF TestStopEvent, Pick, ExitLoop, chanVars
        <3>2. ~ExecOpen(b) /\ ~ExecClose(b)
            BY <1>2 DEF ExecOpen, ExecClose
        <3>3. ~WriteFails(b)
            BY <1>2 DEF WriteFails, chanVars
        <3>4. ~ExecSend(b) /\ ~ExecAnswer(b)
            BY <1>2, <3>3 DEF ExecSend, ExecAnswer, chanVars
        <3>5. ReceiveAnswer(b) \/ ReceiveInput(b)
            BY <1>3, <3>1, <3>2, <3>4 DEF ActorStep
        <3> QED
            BY <1>2, <3>5 DEF ReceiveAnswer, ReceiveInput
    <2>2. inbox' = [inbox EXCEPT ![b] = Tail(inbox[b])]
        BY <2>1 DEF Reads
    <2>3. b = a
        BY <1>1, <2>2
    <2> QED
        BY <2>1, <2>3
<1>4. ASSUME NEW b \in Actors, Stop(b) \/ Arrive(b) \/ Lose(b) \/ Inject(b)
      PROVE  FALSE
    <2>1. Arrive(b) /\ connected[b]
        BY <1>2, <1>4 DEF Stop, Arrive, Lose, Inject
    <2>2. inbox' = [inbox EXCEPT ![b] = Append(inbox[b], Head(net[b]))]
        BY <2>1 DEF Arrive
    <2>3. b = a
        BY <1>1, <2>2
    <2>4. net[a] \in Seq(Numbered) /\ net[a] # <<>> /\ inbox[a] \in Seq(Numbered)
        BY <2>1, <2>3 DEF MessageTypes, Arrive
    <2>5. Head(net[a]) \in Numbered
        BY <2>4, HeadTailProperties
    <2>6. Len(inbox'[a]) = Len(inbox[a]) + 1
        BY <1>1, <2>2, <2>3, <2>4, <2>5, AppendProperties
    <2> QED
        BY <1>1, <2>6
<1> QED
    BY <1>3, <1>4 DEF Next

\* The numbers of what is under way stay in a row while nothing is lost.
THEOREM MessagesStayInRow == ClientsAsk /\ Spec => []TallyInvariant
<1> SUFFICES ASSUME ClientsAsk PROVE Spec => []TallyInvariant
    OBVIOUS
<1>1. Init => TypeInvariant /\ PairInvariant /\ TallyInvariant
    BY InitTypes, InitPairs, InitTally DEF ClientsAsk
<1>2. TypeInvariant /\ PairInvariant /\ TallyInvariant /\ [Next]_vars
          => TypeInvariant' /\ PairInvariant' /\ TallyInvariant'
    BY StepKeepsTypes, StepKeepsPairs, StepKeepsTally DEF ClientsAsk
<1> QED
    BY <1>1, <1>2, PTL DEF Spec

\* While nothing is lost, the answer that is read is exactly as many requests old
\* as reads timed out before it.
THEOREM AnswersAreAsStaleAsTimeouts == ClientsAsk /\ Spec => StaleByTimeoutsOnly
<1> SUFFICES ASSUME ClientsAsk PROVE Spec => StaleByTimeoutsOnly
    OBVIOUS
<1> DEFINE Old == \A a \in Actors :
              ~disturbed /\ pc[a] = "recv" /\ Len(inbox'[a]) < Len(inbox[a])
                => requests[a] - rx'[a].of = timeouts[a]
<1>1. TypeInvariant /\ PairInvariant /\ TallyInvariant /\ [Next]_vars => [Old]_vars
    <2> SUFFICES ASSUME TypeInvariant, PairInvariant, TallyInvariant, Next, NEW a \in Actors,
                        ~disturbed, pc[a] = "recv", Len(inbox'[a]) < Len(inbox[a])
                 PROVE  requests[a] - rx'[a].of = timeouts[a]
        OBVIOUS
    <2>1. Reads(a) /\ UNCHANGED net
        BY OnlyReadsShrink DEF TypeInvariant
    <2>2. rx'[a] = Head(Way(a)) /\ Way(a) # <<>>
        BY <2>1, ReadsRx DEF TypeInvariant, Gets
    <2>3. a \in Initiator
        BY Sides DEF PairInvariant
    <2>4. InRow(Way(a), Heard(a))
        BY <2>3 DEF TallyInvariant, Tally, Alive, Running
    <2>5. /\ requests[a] \in Nat /\ timeouts[a] \in Nat
          /\ Heard(a) = requests[a] - timeouts[a] - 1
        BY DEF TypeInvariant, EventTypes, Heard
    <2>6. Head(Way(a)).of = Heard(a) + 1
        <3>1. PICK w \in Seq(Numbered), n \in Int : w = Way(a) /\ n = Heard(a) /\ InRow(w, n)
            BY <2>4, <2>5, PathTyped
        <3>2. w # <<>> => Head(w).of = n + 1
            BY <3>1, RowSteps
        <3> QED
            BY <2>2, <3>1, <3>2
    <2> QED
        BY <2>2, <2>5, <2>6
<1>2. Spec => [](TypeInvariant /\ PairInvariant)
    <2>1. Init => TypeInvariant /\ PairInvariant
        BY InitTypes, InitPairs DEF ClientsAsk
    <2>2. TypeInvariant /\ PairInvariant /\ [Next]_vars => TypeInvariant' /\ PairInvariant'
        BY StepKeepsTypes, StepKeepsPairs DEF ClientsAsk
    <2> QED
        BY <2>1, <2>2, PTL DEF Spec
<1>3. Spec => []TallyInvariant
    BY MessagesStayInRow
<1>4. Spec => [][Old]_vars
    BY <1>1, <1>2, <1>3, PTL DEF Spec
<1> QED
    BY <1>4 DEF StaleByTimeoutsOnly
=============================================================================
