---------------------------- MODULE AutomataGraph ----------------------------
(***************************************************************************)
(* Automata as graphs of State and Transition objects: built by hand, from *)
(* captured sessions (Session.abstract and the three factories of          *)
(* Inference/Grammar/AutomataFactories), copied, mutated for fuzzing and   *)
(* edited (Model/Grammar/Automata.py, Model/Grammar/States and Transitions,*)
(* Fuzzing/Mutators/AutomataMutator.py).  What a visit of an automaton     *)
(* does is in ActorVisit.                                                  *)
(*                                                                         *)
(* Objects are places of a heap, so that sharing between an automaton and  *)
(* its copy shows.  A state has a name of its own.  A loop of the code is  *)
(* a recursive function, of which Until[i] is what it has made after i     *)
(* turns.                                                                  *)
(***************************************************************************)
EXTENDS Naturals, FiniteSets, SequencesExt

CONSTANTS
  Symbols,       \* the symbols, a sequence: Automata.symbols
  Unknown,       \* the data of a message that no symbol describes
  Captures,      \* the lists of sessions considered; a session is a sequence
                 \* of messages [time, src, dst, data] in their order of insertion
  MaxStates,     \* bound: the states of an automaton built by hand
  MaxTransitions,\* bound: its transitions
  MaxDraws,      \* bound: the states that a random mutation adds to
  MaxEdits       \* bound: the changes of a copied automaton

Kinds == {"open", "main", "close"}
NoSymbol == "no symbol"
NoState == 0

Words == Range(Symbols) \cup {Unknown}
Messages == [time : Nat, src : STRING, dst : STRING, data : Words]

ASSUME AutomataAssumption ==
  /\ Symbols \in Seq(Range(Symbols)) /\ Symbols # <<>> /\ Unknown \notin Range(Symbols)
  /\ Captures \subseteq Seq(Seq(Messages))

VARIABLES
  captures,      \* the sessions captured, of Captures
  heap,          \* the State objects (name, ts) and the Transition objects (tr)
  origin,        \* the initial state of an automaton, NoState if there is none
  factory,       \* what built it: "none", "user", "one", "chained", "pta"
  derived,       \* the initial state of its copy or mutation
  how,           \* what derived it: "none", "copy", "random", "full", "onestate",
                 \* or "targeted"; "raised" when the operation raised
  target,        \* the name given to a targeted mutation
  edits

vars == <<captures, heap, origin, factory, derived, how, target, edits>>

-----------------------------------------------------------------------------
Empty == [name |-> <<>>, ts |-> <<>>, tr |-> <<>>]

(* State(name): a state without a transition.                              *)
NewState(h, n) == [name |-> Append(h.name, n), ts |-> Append(h.ts, <<>>), tr |-> h.tr]

Last1(h) == Len(h.name)

(* The list of a state's transitions, and a transition, are replaced.      *)
SetTransitions(h, s, list) ==
  [name |-> h.name, ts |-> [h.ts EXCEPT ![s] = list], tr |-> h.tr]
SetTransition(h, t, u) ==
  [name |-> h.name, ts |-> h.ts, tr |-> [h.tr EXCEPT ![t] = u]]

(* The elements of s that are in the set kept, in their order.             *)
Kept(s, kept) ==
  LET Until[i \in 0..Len(s)] ==
        IF i = 0 THEN <<>>
        ELSE IF s[i] \in kept THEN Append(Until[i - 1], s[i]) ELSE Until[i - 1]
  IN  Until[Len(s)]

(* The constructors of the transitions, whose startState setter appends    *)
(* the transition to the transitions of that state.                        *)
NewTransition(h, kind, a, b, in, out) ==
  [name |-> h.name,
   ts |-> [h.ts EXCEPT ![a] = Append(@, Len(h.tr) + 1)],
   tr |-> Append(h.tr, [kind |-> kind, from |-> a, to |-> b, in |-> in, out |-> out])]

(* Mutant: the startState setter does not remove the transition from the   *)
(* state that it leaves.                                                   *)
MutantStaysListed(h, t, b) ==
  SetTransition(SetTransitions(h, b, Append(h.ts[b], t)), t, [h.tr[t] EXCEPT !.from = b])

(* startState = b: the transition leaves its state's list for another's.   *)
MoveStart(h, t, b) ==
  LET a == h.tr[t].from
      left == SetTransitions(h, a, Kept(h.ts[a], Range(h.ts[a]) \ {t}))
      there == SetTransitions(left, b, Append(left.ts[b], t))
  IN  SetTransition(there, t, [h.tr[t] EXCEPT !.from = b])

(***************************************************************************)
(* Automata.getStates: a visit that pops the last state to analyze.        *)
(***************************************************************************)

Pushed(h, todo, seen, t) ==
  IF h.tr[t].to \in Range(seen) \cup Range(todo) THEN todo ELSE Append(todo, h.tr[t].to)

PushedAll(h, todo, seen, ts) ==
  LET Until[i \in 0..Len(ts)] ==
        IF i = 0 THEN todo ELSE Pushed(h, Until[i - 1], seen, ts[i])
  IN  Until[Len(ts)]

(* A state is analyzed before it counts as seen: one with a transition to  *)
(* itself is pushed once more.                                             *)
Visit(h, x) ==
  IF x.todo = <<>> THEN x
  ELSE LET s == Last(x.todo)
           left == Front(x.todo)
       IN  IF s \in Range(x.seen) THEN [x EXCEPT !.todo = left]
           ELSE [todo |-> PushedAll(h, left, x.seen, h.ts[s]), seen |-> Append(x.seen, s)]

(* Nothing is left to analyze after two turns for each state.              *)
GetStates(h, s0) ==
  LET Until[i \in 0..2 * Len(h.name)] ==
        IF i = 0 THEN [todo |-> <<s0>>, seen |-> <<>>] ELSE Visit(h, Until[i - 1])
  IN  Until[2 * Len(h.name)].seen

(* What main_states takes away: the states with one transition, which      *)
(* opens, and the ends of the closing ones, each as often as it is met.    *)
ClosingEnds(h, s) ==
  LET ends == SelectSeq(h.ts[s], LAMBDA t : h.tr[t].kind = "close")
  IN  [i \in 1..Len(ends) |-> h.tr[ends[i]].to]

Dropped(h, states) ==
  FoldLeft(LAMBDA acc, s : acc \o (IF Len(h.ts[s]) = 1 /\ h.tr[h.ts[s][1]].kind = "open"
                                     THEN <<s>> ELSE ClosingEnds(h, s)),
           <<>>, states)

(* states.remove raises ValueError on a state that is taken away twice.    *)
MainRaises(h, s0) ==
  LET drop == Dropped(h, GetStates(h, s0)) IN Cardinality(Range(drop)) < Len(drop)

MainStates(h, s0) ==
  LET states == GetStates(h, s0)
  IN  Kept(states, Range(states) \ Range(Dropped(h, states)))

(***************************************************************************)
(* Automata.copy.  A copied transition takes its ends from the map of the  *)
(* states copied so far; a state copied for it has the original list until *)
(* its own turn comes.                                                     *)
(***************************************************************************)
CopyState(acc, s) ==
  IF acc.map[s] # NoState THEN acc
  ELSE [h |-> [name |-> Append(acc.h.name, acc.h.name[s]), ts |-> Append(acc.h.ts, acc.h.ts[s]),
               tr |-> acc.h.tr],
        map |-> [acc.map EXCEPT ![s] = Last1(acc.h) + 1],
        new |-> acc.new]

(* Mutant: the copy of an end state is not recorded in the map.            *)
MutantForgetsTheEnd(acc, t) ==
  LET u == acc.h.tr[t]
      one == CopyState(acc, u.from)
      ends == CopyState(one, u.to)
  IN  [ends EXCEPT !.map = one.map,
                   !.h.tr = Append(@, [u EXCEPT !.from = ends.map[u.from], !.to = ends.map[u.to]]),
                   !.new = Append(@, Len(acc.h.tr) + 1)]

(* Mutant: a copied transition leads to the state of the original.         *)
MutantKeepsTheEnd(acc, t) ==
  LET u == acc.h.tr[t]
      start == CopyState(acc, u.from)
  IN  [start EXCEPT !.h.tr = Append(@, [u EXCEPT !.from = start.map[u.from]]),
                    !.new = Append(@, Len(acc.h.tr) + 1)]

(* The copy lists the same output symbols; their probabilities are left    *)
(* out by the code, and the presets of outputSymbolsPreset stay shared:    *)
(* neither is modelled.                                                    *)
CopyTransition(acc, t) ==
  LET u == acc.h.tr[t]
      ends == CopyState(CopyState(acc, u.from), u.to)
      moved == [kind |-> u.kind, from |-> ends.map[u.from], to |-> ends.map[u.to],
                in |-> u.in, out |-> u.out]
  IN  [h |-> [name |-> ends.h.name, ts |-> ends.h.ts, tr |-> Append(ends.h.tr, moved)],
       map |-> ends.map,
       new |-> Append(ends.new, Len(ends.h.tr) + 1)]

CopyTransitions(acc, ts) ==
  LET Until[i \in 0..Len(ts)] ==
        IF i = 0 THEN [h |-> acc.h, map |-> acc.map, new |-> <<>>]
        ELSE CopyTransition(Until[i - 1], ts[i])
  IN  Until[Len(ts)]

CopyOne(acc, s) ==
  LET own == CopyState(CopyTransitions(acc, acc.h.ts[s]), s)
  IN  [h |-> SetTransitions(own.h, own.map[s], own.new), map |-> own.map, new |-> own.new]

CopyOf(h, s0) ==
  LET states == GetStates(h, s0)
      Until[i \in 0..Len(states)] ==
        IF i = 0 THEN [h |-> h, map |-> [s \in 1..Len(h.name) |-> NoState], new |-> <<>>]
        ELSE CopyOne(Until[i - 1], states[i])
  IN  Until[Len(states)]

-----------------------------------------------------------------------------
(***************************************************************************)
(* AutomataMutator.  It works on a copy, whose main states it relates.     *)
(* A mutation raises AttributeError when it reads the input symbol of an   *)
(* opening or closing transition: acc.ok.                                  *)
(***************************************************************************)
AllSymbols == Range(Symbols)

(* Mutant: a transition to the same state counts whatever its symbol.      *)
MutantForgetsTheSymbol(acc, a, b, sym) ==
  IF \E t \in Range(acc.h.ts[a]) : acc.h.tr[t].to = b THEN acc
  ELSE [acc EXCEPT !.h = NewTransition(@, "main", a, b, sym, AllSymbols)]

AddUnlessThere(acc, a, b, sym) ==
  LET met == SelectSeq(acc.h.ts[a], LAMBDA t : acc.h.tr[t].to = b
                                               /\ (acc.h.tr[t].kind # "main" \/ acc.h.tr[t].in = sym))
  IN  IF met = <<>> THEN [acc EXCEPT !.h = NewTransition(@, "main", a, b, sym, AllSymbols)]
      ELSE [acc EXCEPT !.ok = @ /\ acc.h.tr[met[1]].kind = "main"]

Relate(acc, a, b) ==
  LET Until[i \in 0..Len(Symbols)] ==
        IF i = 0 THEN acc ELSE AddUnlessThere(Until[i - 1], a, b, Symbols[i])
  IN  Until[Len(Symbols)]

Start(h) == [h |-> h, ok |-> TRUE]

\* _mutate_random: the states that draw get transitions to the end they chose
MutateRandom(h, main, choice) ==
  LET Until[i \in 0..Len(main)] ==
        IF i = 0 THEN Start(h)
        ELSE IF i \in DOMAIN choice THEN Relate(Until[i - 1], main[i], main[choice[i]])
        ELSE Until[i - 1]
  IN  Until[Len(main)]

Loosen(h, main) ==
  LET loose(t) == h.tr[t].kind = "main" /\ \E s \in Range(main) : t \in Range(h.ts[s])
  IN  [name |-> h.name, ts |-> h.ts,
       tr |-> [t \in 1..Len(h.tr) |->
                 IF loose(t) THEN [h.tr[t] EXCEPT !.out = AllSymbols] ELSE h.tr[t]]]

RelateToAll(acc, a, main) ==
  LET Until[i \in 0..Len(main)] ==
        IF i = 0 THEN acc ELSE Relate(Until[i - 1], a, main[i])
  IN  Until[Len(main)]

MutateFull(h, main) ==
  LET Until[i \in 0..Len(main)] ==
        IF i = 0 THEN Start(Loosen(h, main)) ELSE RelateToAll(Until[i - 1], main[i], main)
  IN  Until[Len(main)]

MutateOneState(h) ==
  LET s0 == Last1(h) + 1
      two == NewState(NewState(h, <<"Initial state", 0>>), <<"Main state", 0>>)
  IN  Relate(Start(NewTransition(two, "open", s0, s0 + 1, NoSymbol, {})), s0 + 1, s0 + 1)

(* _find_shortest_path, on the names: <<>> when there is no path.          *)
ShortestPath(h, s0, name) ==
  LET Best[s \in 1..Len(h.name), path \in Seq(Range(h.name))] ==
        LET here == Append(path, h.name[s])
            Try(t) == IF h.name[h.tr[t].to] \in Range(here) THEN <<>> ELSE Best[h.tr[t].to, here]
            Until[i \in 0..Len(h.ts[s])] ==
              IF i = 0 THEN <<>>
              ELSE LET best == Until[i - 1]
                       try == Try(h.ts[s][i])
                   IN  IF try # <<>> /\ (best = <<>> \/ Len(try) < Len(best)) THEN try ELSE best
        IN  IF h.name[s] = name THEN here ELSE Until[Len(h.ts[s])]
  IN  Best[s0, <<>>]

(* The target gets a loop per symbol and nothing else; the other states    *)
(* keep the transitions that go to another state, on the path.             *)
KeepsPath(h, s, path) ==
  Kept(h.ts[s], {t \in Range(h.ts[s]) : h.tr[t].to # s /\ h.name[h.tr[t].to] \in Range(path)})

RetargetOne(acc, s, name, path) ==
  IF acc.h.name[s] = name
    THEN Relate([acc EXCEPT !.h = SetTransitions(@, s, <<>>)], s, s)
    ELSE [h |-> SetTransitions(acc.h, s, KeepsPath(acc.h, s, path)),
          \* `for node in None'
          ok |-> acc.ok /\ (path # <<>> \/ \A t \in Range(acc.h.ts[s]) : acc.h.tr[t].to = s)]

MutateTargeted(h, main, name, path) ==
  LET Until[i \in 0..Len(main)] ==
        IF i = 0 THEN Start(h) ELSE RetargetOne(Until[i - 1], main[i], name, path)
  IN  Until[Len(main)]

-----------------------------------------------------------------------------
(***************************************************************************)
(* Session: its messages by time, those of a same time in their order of   *)
(* insertion; abstract gives nothing when they are not all between the     *)
(* same two ends, and leaves out the messages no symbol describes.         *)
(***************************************************************************)

(* Mutant: the messages stay in their order of insertion.                  *)
MutantUnsorted(msgs) == msgs

Extended(sorted, m) ==
  Kept(sorted, {x \in Range(sorted) : x.time <= m.time}) \o <<m>>
    \o Kept(sorted, {x \in Range(sorted) : x.time > m.time})

Sorted(msgs) ==
  LET Until[i \in 0..Len(msgs)] ==
        IF i = 0 THEN <<>> ELSE Extended(Until[i - 1], msgs[i])
  IN  Until[Len(msgs)]

Endpoints(msgs) == {{m.src, m.dst} : m \in Range(msgs)}

Abstract(msgs) ==
  IF Cardinality(Endpoints(msgs)) # 1 THEN <<>>
  ELSE Kept(Sorted(msgs), {m \in Range(msgs) : m.data # Unknown})

(* The loop of the factories: an input of the client, the first message's  *)
(* source, completed by the next message of the server.                    *)
Exchanging(client, acc, m) ==
  LET in == IF m.src = client THEN m.data ELSE acc.in
      out == IF m.src = client THEN NoSymbol ELSE m.data
  IN  IF in # NoSymbol /\ out # NoSymbol
        THEN [in |-> NoSymbol, out |-> NoSymbol, done |-> Append(acc.done, <<in, out>>)]
        ELSE [in |-> in, out |-> out, done |-> acc.done]

Exchanges(abstract) ==
  LET Until[i \in 0..Len(abstract)] ==
        IF i = 0 THEN [in |-> NoSymbol, out |-> NoSymbol, done |-> <<>>]
        ELSE Exchanging(abstract[1].src, Until[i - 1], abstract[i])
  IN  Until[Len(abstract)].done

(* OneStateAutomataFactory.generate                                        *)
OneState(abstract) ==
  LET three == NewState(NewState(NewState(Empty, <<"Start state", 0>>), <<"Main state", 0>>), <<"End state", 0>>)
      opened == NewTransition(three, "open", 1, 2, NoSymbol, {})
      said == Exchanges(abstract)
      Until[i \in 0..Len(said)] ==
        IF i = 0 THEN opened
        ELSE NewTransition(Until[i - 1], "main", 2, 2, said[i][1], {said[i][2]})
  IN  NewTransition(Until[Len(said)], "close", 2, 3, NoSymbol, {})

(* ChainedStatesAutomataFactory.generate: a state after each exchange.     *)
EndOfChain(h) == IF Last1(h) = 3 THEN 2 ELSE Last1(h)

Lengthen(h, x) ==
  LET more == NewState(h, <<"State", Last1(h) - 1>>)
  IN  NewTransition(more, "main", EndOfChain(h), Last1(h) + 1, x[1], {x[2]})

Chained(abstract) ==
  LET three == NewState(NewState(NewState(Empty, <<"Start state", 0>>), <<"State", 1>>), <<"End state", 0>>)
      opened == NewTransition(three, "open", 1, 2, NoSymbol, {})
      said == Exchanges(abstract)
      Until[i \in 0..Len(said)] == IF i = 0 THEN opened ELSE Lengthen(Until[i - 1], said[i])
      chain == Until[Len(said)]
  IN  NewTransition(chain, "close", EndOfChain(chain), 3, NoSymbol, {})

(***************************************************************************)
(* PTAAutomataFactory.generate walks each chain down the tree.  Only the   *)
(* first transition of a state is compared with the exchange.              *)
(***************************************************************************)
Follows(h, s, x) ==
  /\ h.ts[s] # <<>>
  /\ LET t == h.tr[h.ts[s][1]] IN t.kind = "main" /\ t.in = x[1] /\ t.out = {x[2]}

Walk(acc, x) ==
  IF Follows(acc.h, acc.s, x)
    THEN [acc EXCEPT !.s = acc.h.tr[acc.h.ts[acc.s][1]].to]
    ELSE LET more == NewState(acc.h, <<"State", Last1(acc.h) - 1>>)
         IN  [h |-> NewTransition(more, "main", acc.s, Last1(more), x[1], {x[2]}), s |-> Last1(more)]

CloseWalk(acc) ==
  IF acc.h.ts[acc.s] # <<>> /\ acc.h.tr[acc.h.ts[acc.s][1]].kind = "close" THEN acc.h
  ELSE LET more == NewState(acc.h, <<"End state", Last1(acc.h) - 1>>)
       IN  NewTransition(more, "close", acc.s, Last1(more), NoSymbol, {})

Merge(h, said) ==
  LET Until[i \in 0..Len(said)] ==
        IF i = 0 THEN [h |-> h, s |-> 2] ELSE Walk(Until[i - 1], said[i])
  IN  CloseWalk(Until[Len(said)])

PTA(sessions) ==
  LET two == NewState(NewState(Empty, <<"Start state", 0>>), <<"State", 0>>)
      opened == NewTransition(two, "open", 1, 2, NoSymbol, {})
      Until[i \in 0..Len(sessions)] ==
        IF i = 0 THEN opened ELSE Merge(Until[i - 1], Exchanges(sessions[i]))
  IN  Until[Len(sessions)]

-----------------------------------------------------------------------------
Init ==
  /\ captures \in Captures
  /\ heap = Empty
  /\ origin = NoState
  /\ factory = "none"
  /\ derived = NoState
  /\ how = "none"
  /\ target = <<>>
  /\ edits = 0

Sessions == [i \in 1..Len(captures) |-> Abstract(captures[i])]

Built(f, h) ==
  /\ factory' = f /\ heap' = h /\ origin' = 1
  /\ UNCHANGED <<captures, derived, how, target, edits>>

(* A factory gives no automaton for a session without an exchange to read. *)
GenerateOneState ==
  factory = "none" /\ captures # <<>> /\ Sessions[1] # <<>> /\ Built("one", OneState(Sessions[1]))

GenerateChained ==
  factory = "none" /\ captures # <<>> /\ Sessions[1] # <<>> /\ Built("chained", Chained(Sessions[1]))

\* a single session gives its chain
GeneratePTA ==
  /\ factory = "none" /\ Len(captures) > 1 /\ <<>> \notin Range(Sessions)
  /\ Built("pta", PTA(Sessions))

(* An automaton built by hand: its states, then its transitions.           *)
Build ==
  /\ factory = "none" /\ captures = <<>>
  /\ Built("user", NewState(Empty, <<"State", 0>>))

AddState ==
  /\ factory = "user" /\ how = "none" /\ Len(heap.name) < MaxStates /\ heap.tr = <<>>
  /\ heap' = NewState(heap, <<"State", Len(heap.name)>>)
  /\ UNCHANGED <<captures, origin, factory, derived, how, target, edits>>

AddTransition ==
  \E a, b \in 1..Len(heap.name), kind \in Kinds, in \in AllSymbols :
    /\ factory = "user" /\ how = "none" /\ Len(heap.tr) < MaxTransitions
    /\ kind # "main" => in = Symbols[1]
    /\ heap' = NewTransition(heap, kind, a, b, IF kind = "main" THEN in ELSE NoSymbol,
                             IF kind = "main" THEN {in} ELSE {})
    /\ UNCHANGED <<captures, origin, factory, derived, how, target, edits>>

Derived(s, h, ok, by) ==
  /\ origin # NoState /\ how = "none"
  /\ heap' = h
  /\ derived' = IF ok THEN s ELSE NoState
  /\ how' = IF ok THEN by ELSE "raised"
  /\ UNCHANGED <<captures, origin, factory, edits>>

Copied == CopyOf(heap, origin)
CopyInit == Copied.map[origin]

Copy == origin # NoState /\ Derived(CopyInit, Copied.h, TRUE, "copy") /\ UNCHANGED target

Mutation(res, by) == Derived(CopyInit, res.h, res.ok /\ ~MainRaises(Copied.h, CopyInit), by)

MutateAtRandom ==
  /\ origin # NoState
  /\ LET main == MainStates(Copied.h, CopyInit) IN
     \E drawn \in UNION {kSubset(k, 1..Len(main)) : k \in 0..MaxDraws} :
     \E choice \in [drawn -> 1..Len(main)] :
       /\ Mutation(MutateRandom(Copied.h, main, choice), "random")
       /\ UNCHANGED target

MutateFully ==
  /\ origin # NoState
  /\ Mutation(MutateFull(Copied.h, MainStates(Copied.h, CopyInit)), "full") /\ UNCHANGED target

MutateToOneState ==
  /\ origin # NoState
  /\ Derived(Last1(heap) + 1, MutateOneState(heap).h, TRUE, "onestate") /\ UNCHANGED target

MutateToTarget ==
  /\ origin # NoState
  /\ \E name \in Range(heap.name) :
       /\ target' = name
       /\ Mutation(MutateTargeted(Copied.h, MainStates(Copied.h, CopyInit), name,
                                  ShortestPath(heap, origin, name)), "targeted")

(* The application changes a copy; every mutation starts from such a copy. *)
Edit ==
  LET mine == Range(GetStates(heap, derived)) IN
  /\ how = "copy" /\ edits < MaxEdits
  /\ edits' = edits + 1
  /\ \E s \in mine : \E t \in Range(heap.ts[s]), b \in mine :
       \/ heap' = SetTransition(heap, t, [heap.tr[t] EXCEPT !.to = b])
       \/ heap' = MoveStart(heap, t, b)
       \/ heap' = SetTransition(heap, t, [heap.tr[t] EXCEPT !.out = AllSymbols])
  /\ UNCHANGED <<captures, origin, factory, derived, how, target>>

Next ==
  \/ GenerateOneState \/ GenerateChained \/ GeneratePTA
  \/ Build \/ AddState \/ AddTransition
  \/ Copy \/ MutateAtRandom \/ MutateFully \/ MutateToOneState \/ MutateToTarget
  \/ Edit

Spec == Init /\ [][Next]_vars

-----------------------------------------------------------------------------
Places(h) == 1..Len(h.name)

(* The objects point at objects of the heap.  A transition listed by a     *)
(* state starts there, and is listed once: its startState setter, the      *)
(* factories, Automata.copy and the mutators keep both sides together.     *)
TypeOK ==
  /\ Len(heap.name) = Len(heap.ts)
  /\ {origin, derived} \subseteq Places(heap) \cup {NoState}
  /\ \A t \in Range(heap.tr) : t.kind \in Kinds /\ {t.from, t.to} \subseteq Places(heap)
  /\ \A s \in Places(heap) :
       /\ IsInjective(heap.ts[s])
       /\ \A t \in Range(heap.ts[s]) : t \in DOMAIN heap.tr /\ heap.tr[t].from = s

Edge(h, t) ==
  LET u == h.tr[t]
  IN  [kind |-> u.kind, from |-> h.name[u.from], to |-> h.name[u.to], in |-> u.in, out |-> u.out]
EdgesOf(h, s) == {Edge(h, t) : t \in Range(h.ts[s])}

Closed(h, set) == \A s \in set : \A t \in Range(h.ts[s]) : h.tr[t].to \in set

(* getStates gives every state that can be reached, once: with a state     *)
(* those that its transitions lead to, and no fewer would do.              *)
StatesAreReachable ==
  \A s0 \in {origin, derived} \ {NoState} :
    LET states == GetStates(heap, s0)
        all == Range(states)
    IN  /\ IsInjective(states) /\ s0 \in all /\ Closed(heap, all)
        /\ \A set \in SUBSET all : s0 \in set /\ Closed(heap, set) => set = all

(* The lists of transitions and the lists of states say the same graph.    *)
GraphSound == TypeOK /\ StatesAreReachable

(* What was said in a session: the requests of the client that are         *)
(* directly followed by an answer, unknown messages left out.              *)
Said(msgs) ==
  LET known == {i \in DOMAIN msgs : msgs[i].data # Unknown}
      Before(i, j) == msgs[i].time < msgs[j].time \/ (msgs[i].time = msgs[j].time /\ i < j)
      client == msgs[CHOOSE i \in known : \A j \in known \ {i} : Before(i, j)].src
      pairs == {p \in known \X known :
                  /\ msgs[p[1]].src = client /\ msgs[p[2]].src # client /\ Before(p[1], p[2])
                  /\ ~\E k \in known : Before(p[1], k) /\ Before(k, p[2])}
      said == SetToSortSeq(pairs, LAMBDA p, q : Before(p[1], q[1]))
  IN  [n \in 1..Len(said) |-> <<msgs[said[n][1]].data, msgs[said[n][2]].data>>]

(* The exchanges along the runs of a tree, from s to a closing transition. *)
Runs(h, s0) ==
  LET From[s \in Places(h)] ==
        UNION {LET t == h.tr[i] IN
               CASE t.kind = "close" -> {<<>>}
                 [] t.kind = "open" -> From[t.to]
                 [] OTHER -> {<<<<t.in, out>>>> \o w : out \in t.out, w \in From[t.to]} :
               i \in Range(h.ts[s])}
  IN  From[s0]

(* The runs of a chained automaton and of a prefix tree, from opening to   *)
(* closing the channel, are what was said in the sessions, nothing more    *)
(* and nothing less; the loops of a one-state automaton are what was said, *)
(* in that order.                                                          *)
RunsAreTheSessions ==
  /\ factory = "chained" => Runs(heap, origin) = {Said(captures[1])}
  /\ factory = "pta" => Runs(heap, origin) = {Said(msgs) : msgs \in Range(captures)}
  /\ factory = "one" =>
       LET loops == SelectSeq(heap.ts[2], LAMBDA t : heap.tr[t].to = 2)
       IN  [i \in 1..Len(loops) |-> <<heap.tr[loops[i]].in, heap.tr[loops[i]].out>>]
             = [i \in 1..Len(Said(captures[1])) |->
                 <<Said(captures[1])[i][1], {Said(captures[1])[i][2]}>>]

(* An automaton as its user sees it: the named states that can be reached  *)
(* and their transitions, in the order in which a visit considers them.    *)
Reach(h, s0) == Range(GetStates(h, s0))
Outline(h, s0) ==
  {<<h.name[s], [i \in 1..Len(h.ts[s]) |-> Edge(h, h.ts[s][i])]>> : s \in Reach(h, s0)}

Objects(h, s0) == UNION {Range(h.ts[s]) : s \in Reach(h, s0)}

(* A copy has the states and the transitions of its original, and shares   *)
(* none of them with it.                                                   *)
CopiesAreFaithful ==
  how = "copy" /\ edits = 0 =>
    /\ heap.name[derived] = heap.name[origin]
    /\ Outline(heap, derived) = Outline(heap, origin)
    /\ Reach(heap, derived) \cap Reach(heap, origin) = {}
    /\ Objects(heap, derived) \cap Objects(heap, origin) = {}

(* Deriving an automaton, even when it raises, and changing what was       *)
(* derived leave the original as it was: mutating works on a copy.         *)
OriginalUntouched ==
  [][how' # "none" => Outline(heap', origin) = Outline(heap, origin)]_vars

Accepts(s, b, sym) ==
  \E t \in Range(heap.ts[s]) :
    heap.tr[t] = [kind |-> "main", from |-> s, to |-> b, in |-> sym, out |-> AllSymbols]

(* The number of transitions from the states to the one of that name.      *)
Distance(h, s0, name) ==
  LET Within[set \in SUBSET Places(h)] ==
        LET next == set \cup {h.tr[t].to : t \in UNION {Range(h.ts[s]) : s \in set}}
        IN  CASE \E s \in set : h.name[s] = name -> 0
              [] next = set -> Len(h.name)
              [] OTHER -> 1 + Within[next]
  IN  Within[{s0}]

AllEdges(h, s0) == UNION {EdgesOf(h, s) : s \in Reach(h, s0)}
NamesOf(states) == {heap.name[s] : s \in states}

(* What becomes of the strategies of AutomataMutatorStrategy.  RANDOM      *)
(* links states of the original by transitions that accept a symbol and    *)
(* answer any.  FULL lets every state be reached from every state with     *)
(* every symbol, answered by any.  ONESTATE has one main state, which      *)
(* accepts every symbol.  TARGETED has a target that accepts every symbol, *)
(* is not left, and is as near the start as in the original; no other      *)
(* state gets a transition.  A mutation never raises on an automaton       *)
(* inferred from sessions, each of whose states is opened or closed once.  *)
(*                                                                         *)
(* Three promises are not kept, and none of them is asked for here: RANDOM *)
(* is said to remove transitions too (Automata.py:746) and only inserts;   *)
(* TARGETED is said to keep only the transitions that lead to the target   *)
(* (AutomataMutator.py:224) and keeps all whose end is on the way to it; a *)
(* target that is the first state or an end of a closing transition is not *)
(* mutated at all (Automata.py:749), which the property states.            *)
MutationsKeepTheirPromise ==
  /\ factory \in {"one", "chained", "pta"} => how # "raised"
  /\ derived # NoState /\ edits = 0 =>
    LET main == Range(MainStates(heap, derived))
        new == AllEdges(heap, derived) \ AllEdges(heap, origin)
    IN
    /\ how = "random" =>
         /\ NamesOf(Reach(heap, derived)) \subseteq NamesOf(Reach(heap, origin))
         /\ \A e \in new : /\ e.kind = "main" /\ {e.from, e.to} \subseteq NamesOf(main)
                           /\ e.in \in AllSymbols /\ e.out = AllSymbols
    /\ how \in {"full", "onestate"} =>
         /\ main # {} \/ how = "full"
         /\ \A a, b \in main, sym \in AllSymbols : Accepts(a, b, sym)
         /\ \A a \in main : \A t \in Range(heap.ts[a]) :
              heap.tr[t].kind = "main" => heap.tr[t].out = AllSymbols
    /\ how = "targeted" =>
         /\ Distance(heap, derived, target) = Distance(heap, origin, target)
         /\ \A s \in main : heap.name[s] = target =>
              /\ Len(heap.ts[s]) = Cardinality(AllSymbols)
              /\ \A sym \in AllSymbols : Accepts(s, s, sym)
         /\ \A e \in new : e.from = target
         /\ target \notin NamesOf(main) => new = {}
=============================================================================
