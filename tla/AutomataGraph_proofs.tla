------------------------ MODULE AutomataGraph_proofs -------------------------
(***************************************************************************)
(* Theorems about automata as graphs of objects, for any symbols, any      *)
(* captured sessions and any number of states, transitions and edits: the  *)
(* graph is sound, a copy is faithful and shares nothing with its          *)
(* original, and the original stays as it was.                             *)
(*                                                                         *)
(* A loop of the code is a recursive function over its turns: LoopExists   *)
(* says that it is one, TurnByTurn that what each turn keeps holds at the  *)
(* end.  Sound says of a heap what every operation keeps; Grown(k, h) that *)
(* the objects of h are in k as they were.  Reach(h, s0), what getStates   *)
(* finds, is shown to be the least set of states that is closed under the  *)
(* transitions (IsReach), which is how the proofs use it.  An automaton is *)
(* the same in two heaps that agree on its states (SameAutomaton).         *)
(***************************************************************************)
EXTENDS AutomataGraph, SequenceTheorems, FiniteSetTheorems, WellFoundedInduction, TLAPS

\* A set of numbers that is not empty has a least element.
LEMMA LeastElement ==
    ASSUME NEW S \in SUBSET Nat, S # {}
    PROVE  \E i \in S : \A j \in S : i <= j
<1>1. PICK i \in S : \A j \in S : ~(<<j, i>> \in OpToRel(<, Nat))
    BY NatLessThanWellFounded, WFMin
<1>2. ASSUME NEW j \in S PROVE i <= j
    <2>1. ~(<<j, i>> \in OpToRel(<, Nat))
        BY <1>1
    <2>2. ~(j < i)
        BY <2>1 DEF OpToRel
    <2> QED
        BY <2>2
<1> QED
    BY <1>2

\* What holds before a loop, and after each turn if it held before that turn,
\* holds throughout: P[i] is the set of the values for which it holds at i.
LEMMA TurnByTurn ==
    ASSUME NEW n \in Nat, NEW u, NEW P, u[0] \in P[0],
           \A i \in 1..n : u[i - 1] \in P[i - 1] => u[i] \in P[i]
    PROVE  \A i \in 0..n : u[i] \in P[i]
<1> DEFINE R == {i \in 0..n : u[i] \notin P[i]}
<1>1. SUFFICES ASSUME R # {}
               PROVE  FALSE
    OBVIOUS
<1>2. PICK i \in R : \A j \in R : i <= j
    <2>1. R \in SUBSET Nat
        OBVIOUS
    <2> QED
        BY <1>1, <2>1, LeastElement
<1>3. i # 0 /\ i \in 1..n /\ i - 1 \in 0..n /\ ~(i <= i - 1)
    OBVIOUS
<1>4. u[i - 1] \in P[i - 1]
    BY <1>2, <1>3
<1> QED
    BY <1>3, <1>4

\* A loop of n turns g, each of which finds what the one before it left, has a
\* recursive function from a.
Turns(n, P, g) == \A i \in 1..n : \A x \in P[i - 1] : g[i][x] \in P[i]
IsLoop(u, n, a, P, g) ==
    /\ u = [i \in 0..n |-> IF i = 0 THEN a ELSE g[i][u[i - 1]]]
    /\ \A i \in 0..n : u[i] \in P[i]

LEMMA LoopExists ==
    ASSUME NEW n \in Nat, NEW a, NEW P, NEW g, a \in P[0], Turns(n, P, g)
    PROVE  \E u : IsLoop(u, n, a, P, g)
<1> USE DEF Turns, IsLoop
<1> DEFINE Runs1(m) == {u \in [0..m -> UNION {P[i] : i \in 0..n}] :
                         /\ \A i \in 0..m : u[i] = IF i = 0 THEN a ELSE g[i][u[i - 1]]
                         /\ \A i \in 0..m : u[i] \in P[i]}
           T == {m \in Nat : Runs1(m) # {}}
           id == [m \in 0..n |-> m]
           Q == [m \in 0..n |-> T]
<1>1. id[0] \in Q[0]
    <2>1. [i \in 0..0 |-> a] \in Runs1(0)
        OBVIOUS
    <2> QED
        BY <2>1
<1>2. ASSUME NEW m \in 1..n, id[m - 1] \in Q[m - 1]
      PROVE  id[m] \in Q[m]
    <2>0. m - 1 \in 0..n /\ m \in 0..n /\ m - 1 \in Nat /\ m \in Nat
        OBVIOUS
    <2>1. PICK u \in [0..(m - 1) -> UNION {P[i] : i \in 0..n}] :
              /\ \A i \in 0..(m - 1) : u[i] = IF i = 0 THEN a ELSE g[i][u[i - 1]]
              /\ \A i \in 0..(m - 1) : u[i] \in P[i]
        BY <1>2, <2>0
    <2> DEFINE v == [i \in 0..m |-> IF i = m THEN g[m][u[m - 1]] ELSE u[i]]
    <2>2. \A i \in 0..m : v[i] \in P[i]
        <3>1. m - 1 \in 0..(m - 1) /\ \A i \in 0..m : i # m => i \in 0..(m - 1)
            BY <2>0
        <3>2. g[m][u[m - 1]] \in P[m]
            BY <2>1, <3>1
        <3> QED
            BY <2>1, <3>1, <3>2
    <2>3. ASSUME NEW i \in 0..m
          PROVE  v[i] = IF i = 0 THEN a ELSE g[i][v[i - 1]]
        <3>1. CASE i = m
            <4>1. i # 0 /\ i - 1 = m - 1 /\ m - 1 \in 0..m /\ m - 1 # m
                BY <2>0, <3>1
            <4> QED
                BY <3>1, <4>1
        <3>2. CASE i # m
            <4>1. i \in 0..(m - 1) /\ (i # 0 => i - 1 \in 0..m /\ i - 1 # m)
                BY <2>0, <3>2
            <4>2. v[i] = u[i] /\ (i # 0 => v[i - 1] = u[i - 1])
                BY <3>2, <4>1
            <4> QED
                BY <2>1, <4>1, <4>2
        <3> QED
            BY <3>1, <3>2
    <2>4. v \in [0..m -> UNION {P[i] : i \in 0..n}]
        <3>1. \A i \in 0..m : i \in 0..n
            BY <2>0
        <3> HIDE DEF v
        <3>2. v = [i \in 0..m |-> v[i]]
            BY DEF v
        <3> QED
            BY <2>2, <3>1, <3>2
    <2>5. v \in Runs1(m)
        <3> HIDE DEF v
        <3> QED
            BY <2>2, <2>3, <2>4
    <2> HIDE DEF Runs1
    <2> QED
        BY <2>0, <2>5
<1> HIDE DEF T
<1>3. n \in T
    <2> HIDE DEF id, Q
    <2>1. \A i \in 0..n : id[i] \in Q[i]
        BY <1>1, <1>2, TurnByTurn
    <2> QED
        BY <2>1 DEF id, Q
<1>4. PICK u \in [0..n -> UNION {P[i] : i \in 0..n}] :
              /\ \A i \in 0..n : u[i] = IF i = 0 THEN a ELSE g[i][u[i - 1]]
              /\ \A i \in 0..n : u[i] \in P[i]
    BY <1>3 DEF T
<1>5. u = [i \in 0..n |-> u[i]]
    BY <1>4
<1>6. u = [i \in 0..n |-> IF i = 0 THEN a ELSE g[i][u[i - 1]]]
    BY <1>4, <1>5
<1> QED
    BY <1>4, <1>6

-----------------------------------------------------------------------------
(* Sequences. *)

\* The places of a sequence, and the elements that it holds.
LEMMA SequenceFacts ==
    ASSUME NEW S, NEW s \in Seq(S)
    PROVE  /\ Len(s) \in Nat /\ DOMAIN s = 1..Len(s)
           /\ \A i \in 1..Len(s) : s[i] \in S /\ s[i] \in Range(s)
           /\ \A x \in Range(s) : x \in S /\ \E i \in 1..Len(s) : x = s[i]
           /\ \A i \in 1..Len(s) : i \in 0..Len(s) /\ i - 1 \in 0..Len(s) /\ i \in Nat
           /\ 0 \in 0..Len(s) /\ Len(s) \in 0..Len(s)
BY DEF Range

\* Append adds one element to what is in a sequence.
LEMMA AppendFacts ==
    ASSUME NEW S, NEW s \in Seq(S), NEW e \in S
    PROVE  /\ Append(s, e) \in Seq(S) /\ Len(Append(s, e)) = Len(s) + 1
           /\ \A i \in 1..Len(s) : Append(s, e)[i] = s[i]
           /\ Append(s, e)[Len(s) + 1] = e
           /\ Range(Append(s, e)) = Range(s) \cup {e}
           /\ IsInjective(s) /\ e \notin Range(s) => IsInjective(Append(s, e))
<1>0. PICK t \in Seq(S) : t = Append(s, e)
    BY AppendProperties
<1>1. /\ Len(t) = Len(s) + 1 /\ DOMAIN t = 1..(Len(s) + 1)
      /\ \A i \in 1..Len(s) : t[i] = s[i]
      /\ t[Len(s) + 1] = e
    BY <1>0, AppendProperties
<1>2. DOMAIN s = 1..Len(s) /\ Len(s) \in Nat
    OBVIOUS
<1>3. /\ \A i \in 1..(Len(s) + 1) : i \in 1..Len(s) \/ i = Len(s) + 1
      /\ \A i \in 1..Len(s) : i \in 1..(Len(s) + 1)
      /\ Len(s) + 1 \in 1..(Len(s) + 1)
    BY <1>2
<1>4. Range(t) = Range(s) \cup {e}
    BY <1>1, <1>2, <1>3 DEF Range
<1>5. ASSUME IsInjective(s), e \notin Range(s) PROVE IsInjective(t)
    <2>1. \A i \in 1..Len(s) : s[i] # e
        BY <1>2, <1>5 DEF Range
    <2>2. \A i, j \in 1..Len(s) : s[i] = s[j] => i = j
        BY <1>2, <1>5 DEF IsInjective
    <2> QED
        BY <1>1, <1>3, <2>1, <2>2 DEF IsInjective
<1> QED
    BY <1>0, <1>1, <1>4, <1>5

\* One element takes the place of another.
LEMMA ExceptFacts ==
    ASSUME NEW S, NEW s \in Seq(S), NEW i \in 1..Len(s), NEW e \in S
    PROVE  /\ [s EXCEPT ![i] = e] \in Seq(S) /\ Len([s EXCEPT ![i] = e]) = Len(s)
           /\ [s EXCEPT ![i] = e][i] = e
           /\ \A j \in 1..Len(s) : j # i => [s EXCEPT ![i] = e][j] = s[j]
<1>1. PICK n \in Nat : n = Len(s) /\ DOMAIN s = 1..n
    OBVIOUS
<1>2. PICK f : f = [s EXCEPT ![i] = e]
    OBVIOUS
<1>3. DOMAIN f = 1..n /\ f[i] = e /\ \A j \in 1..n : j # i => f[j] = s[j]
    BY <1>1, <1>2
<1>4. f = [j \in 1..n |-> f[j]] /\ \A j \in 1..n : f[j] \in S
    <2>1. f = [j \in 1..n |-> f[j]]
        BY <1>1, <1>2
    <2>2. \A j \in 1..n : s[j] \in S
        BY <1>1
    <2> QED
        BY <1>3, <2>1, <2>2
<1>5. f \in Seq(S) /\ Len(f) = n
    BY <1>4
<1> QED
    BY <1>1, <1>2, <1>3, <1>5

\* The last element and the others, of a sequence without repetition.
LEMMA LastAndFront ==
    ASSUME NEW S, NEW s \in Seq(S), s # <<>>, IsInjective(s)
    PROVE  /\ Last(s) \in S /\ Last(s) \in Range(s)
           /\ Front(s) \in Seq(S) /\ IsInjective(Front(s))
           /\ Range(Front(s)) = Range(s) \ {Last(s)}
<1>1. PICK n \in Nat : n = Len(s) /\ n # 0 /\ DOMAIN s = 1..n
    OBVIOUS
<1>a. \A i \in 1..n : s[i] \in S
    BY <1>1
<1>2. PICK f : f = Front(s) /\ f = [i \in 1..(n - 1) |-> s[i]]
    <2>1. SubSeq(s, 1, n - 1) = [i \in 1..(n - 1) |-> s[i]]
        BY <1>1
    <2> QED
        BY <1>1, <2>1 DEF Front
<1>3. DOMAIN f = 1..(n - 1) /\ \A i \in 1..(n - 1) : f[i] = s[i]
    BY <1>2
<1>4. \A i, j \in 1..n : s[i] = s[j] => i = j
    BY <1>1 DEF IsInjective
<1>5. /\ \A i \in 1..(n - 1) : i \in 1..n /\ i # n
      /\ \A i \in 1..n : i # n => i \in 1..(n - 1)
      /\ n \in 1..n /\ n - 1 \in Nat
    BY <1>1
<1>b. f \in Seq(S)
    BY <1>a, <1>2, <1>5
<1>6. IsInjective(f)
    BY <1>3, <1>4, <1>5 DEF IsInjective
<1>7. Range(f) = Range(s) \ {s[n]}
    BY <1>1, <1>3, <1>4, <1>5, SMTT(30) DEF Range
<1>8. Last(s) = s[n] /\ s[n] \in S /\ s[n] \in Range(s)
    BY <1>a, <1>1, <1>5 DEF Last, Range
<1> QED
    BY <1>b, <1>2, <1>6, <1>7, <1>8

\* What is kept are the elements of the set, and no two of them come from one.
LEMMA KeptFacts ==
    ASSUME NEW S, NEW s \in Seq(S), NEW kept
    PROVE  /\ Kept(s, kept) \in Seq(S)
           /\ Range(Kept(s, kept)) = Range(s) \cap kept
           /\ IsInjective(s) => IsInjective(Kept(s, kept))
<1> DEFINE n == Len(s)
           Step(x, i) == IF s[i] \in kept THEN Append(x, s[i]) ELSE x
           First(i) == {s[j] : j \in 1..i}
           P == [i \in 0..n |-> {x \in Seq(S) :
                    /\ Range(x) = First(i) \cap kept
                    /\ IsInjective(s) => IsInjective(x)}]
           g == [i \in 1..n |-> [x \in P[i - 1] |-> Step(x, i)]]
           Right(u) == u = [i \in 0..n |-> IF i = 0 THEN <<>>
                              ELSE IF s[i] \in kept THEN Append(u[i - 1], s[i]) ELSE u[i - 1]]
           Until == CHOOSE u : Right(u)
<1>0. n \in Nat /\ \A i \in 1..n : i \in 0..n /\ i - 1 \in 0..n /\ i # 0 /\ s[i] \in S
    OBVIOUS
<1>1. <<>> \in P[0]
    BY DEF Range, IsInjective
<1>2. ASSUME NEW i \in 1..n, NEW x \in P[i - 1]
      PROVE  Step(x, i) \in P[i]
    <2>1. x \in Seq(S) /\ Range(x) = First(i - 1) \cap kept /\ (IsInjective(s) => IsInjective(x))
        BY <1>0
    <2>2. First(i) = First(i - 1) \cup {s[i]}
        <3>1. \A j \in 1..i : j = i \/ j \in 1..(i - 1)
            BY <1>0
        <3>2. \A j \in 1..(i - 1) : j \in 1..i
            BY <1>0
        <3>3. i \in 1..i
            BY <1>0
        <3> QED
            BY <3>1, <3>2, <3>3
    <2>3. CASE s[i] \in kept
        <3>1. ASSUME IsInjective(s) PROVE s[i] \notin First(i - 1)
            <4>1. \A j \in 1..(i - 1) : j \in 1..n /\ j # i
                BY <1>0
            <4> QED
                BY <1>0, <3>1, <4>1 DEF IsInjective
        <3>2. PICK y : y = Append(x, s[i]) /\ y \in Seq(S) /\ Range(y) = Range(x) \cup {s[i]}
                       /\ (IsInjective(x) /\ s[i] \notin Range(x) => IsInjective(y))
            BY <1>0, <2>1, AppendFacts
        <3>3. IsInjective(s) => IsInjective(y)
            BY <2>1, <3>1, <3>2
        <3> QED
            BY <1>0, <2>1, <2>2, <2>3, <3>2, <3>3, ZenonT(30)
    <2>4. CASE s[i] \notin kept
        BY <1>0, <2>1, <2>2, <2>4
    <2> QED
        BY <2>3, <2>4
<1>3. \A i \in 1..n : \A x \in P[i - 1] : g[i][x] = Step(x, i)
    OBVIOUS
<1>a. Turns(n, P, g)
    <2> HIDE DEF P, g, Step
    <2> QED
        BY <1>2, <1>3 DEF Turns
<1> HIDE DEF P, g
<1>4. PICK u : IsLoop(u, n, <<>>, P, g)
    BY <1>0, <1>1, <1>a, LoopExists
<1>5. Right(u)
    BY <1>0, <1>3, <1>4, SMTT(30) DEF IsLoop
<1>6. Right(Until) /\ Kept(s, kept) = Until[n]
    <2>1. Right(Until)
        BY <1>5, Zenon
    <2> QED
        BY <2>1, ZenonT(30) DEF Kept
<1> HIDE DEF Until
<1>7. \A i \in 0..n : Until[i] \in P[i]
    <2>1. \A i \in 0..n : Until[i] = IF i = 0 THEN <<>>
                              ELSE IF s[i] \in kept THEN Append(Until[i - 1], s[i]) ELSE Until[i - 1]
        BY <1>6
    <2>2. Until[0] = <<>> /\ \A i \in 1..n : Until[i] = Step(Until[i - 1], i)
        BY <1>0, <2>1
    <2>3. \A i \in 1..n : Until[i - 1] \in P[i - 1] => Until[i] \in P[i]
        <3> HIDE DEF Step
        <3> QED
            BY <1>2, <2>2
    <2> QED
        BY <1>0, <1>1, <2>2, <2>3, TurnByTurn
<1>8. First(n) = Range(s)
    BY <1>0 DEF Range
<1>9. Until[n] \in P[n] /\ n \in 0..n
    BY <1>0, <1>7
<1> QED
    BY <1>6, <1>8, <1>9 DEF P

-----------------------------------------------------------------------------
(* The heap. *)

Titles == {"Start state", "Main state", "State", "End state", "Initial state"}
Names == Titles \X Int
Labels == Words \cup {NoSymbol}
Arcs == [kind : Kinds, from : Nat, to : Nat, in : Labels, out : SUBSET Labels]

\* The attributes of the objects have their types.
Typed(h) ==
    /\ h \in [name : Seq(Names), ts : Seq(Seq(Nat)), tr : Seq(Arcs)]
    /\ Len(h.name) = Len(h.ts)

\* A transition leads from an object to an object, and the transitions that a
\* state lists start there.
ArcsLead(h) ==
    \A t \in 1..Len(h.tr) : h.tr[t].from \in Places(h) /\ h.tr[t].to \in Places(h)
Lists(h, s) ==
    /\ IsInjective(h.ts[s])
    /\ \A t \in Range(h.ts[s]) : t \in 1..Len(h.tr) /\ h.tr[t].from = s
Sound(h) == Typed(h) /\ ArcsLead(h) /\ \A s \in Places(h) : Lists(h, s)

\* The objects of h are in k as they were.
Grown(k, h) ==
    /\ Len(h.name) <= Len(k.name) /\ Len(h.tr) <= Len(k.tr)
    /\ \A s \in Places(h) : k.name[s] = h.name[s] /\ k.ts[s] = h.ts[s]
    /\ \A t \in 1..Len(h.tr) : k.tr[t] = h.tr[t]

LEMMA TypedFacts ==
    ASSUME NEW h, Typed(h)
    PROVE  /\ Len(h.name) \in Nat /\ Len(h.tr) \in Nat /\ Len(h.ts) = Len(h.name)
           /\ h.name \in Seq(Names) /\ h.ts \in Seq(Seq(Nat)) /\ h.tr \in Seq(Arcs)
           /\ \A s \in Places(h) : h.name[s] \in Names /\ h.ts[s] \in Seq(Nat) /\ Len(h.ts[s]) \in Nat
           /\ \A t \in 1..Len(h.tr) : h.tr[t] \in Arcs
           /\ \A s \in Places(h) : s \in Nat
           /\ Places(h) = 1..Len(h.name)
           /\ \A s \in Places(h) : DOMAIN h.ts[s] = 1..Len(h.ts[s])
           /\ h = [name |-> h.name, ts |-> h.ts, tr |-> h.tr]
BY DEF Typed, Places

\* What a state of a sound heap lists.
LEMMA SoundFacts ==
    ASSUME NEW h, Sound(h), NEW s \in Places(h)
    PROVE  /\ \A t \in Range(h.ts[s]) : /\ t \in 1..Len(h.tr) /\ h.tr[t].from = s
                                        /\ h.tr[t].to \in Places(h)
           /\ h.ts[s] \in Seq(1..Len(h.tr))
           /\ \A i \in 1..Len(h.ts[s]) : h.ts[s][i] \in Range(h.ts[s])
<1>1. h.ts[s] \in Seq(Nat) /\ Len(h.ts[s]) \in Nat /\ DOMAIN h.ts[s] = 1..Len(h.ts[s])
    BY TypedFacts DEF Sound
<1>2. \A i \in 1..Len(h.ts[s]) : h.ts[s][i] \in Range(h.ts[s])
    BY <1>1 DEF Range
<1>3. \A t \in Range(h.ts[s]) : t \in 1..Len(h.tr) /\ h.tr[t].from = s /\ h.tr[t].to \in Places(h)
    BY DEF Sound, Lists, ArcsLead
<1>4. PICK q : q = h.ts[s] /\ q \in Seq(Nat) /\ \A i \in 1..Len(q) : q[i] \in 1..Len(h.tr)
    BY <1>1, <1>2, <1>3
<1>5. q \in Seq(1..Len(h.tr))
    <2>0. PICK T : T = 1..Len(h.tr)
        OBVIOUS
    <2>1. PICK n \in Nat : n = Len(q) /\ q = [i \in 1..n |-> q[i]]
        BY <1>4
    <2>2. \A i \in 1..n : q[i] \in T
        BY <1>4, <2>0, <2>1
    <2>3. [i \in 1..n |-> q[i]] \in Seq(T)
        BY <2>2
    <2> QED
        BY <2>0, <2>1, <2>3
<1> QED
    BY <1>2, <1>3, <1>4, <1>5

\* Objects are added at the end of the heap.
IsPushedState(k, h, n, l) ==
    /\ Typed(k) /\ Grown(k, h) /\ k.tr = h.tr
    /\ Len(k.name) = Len(h.name) + 1
    /\ Places(k) = Places(h) \cup {Len(h.name) + 1} /\ Len(h.name) + 1 \notin Places(h)
    /\ k.name[Len(h.name) + 1] = n /\ k.ts[Len(h.name) + 1] = l
IsPushedTransition(k, h, u) ==
    /\ Typed(k) /\ Grown(k, h) /\ k.name = h.name /\ k.ts = h.ts /\ Places(k) = Places(h)
    /\ Len(k.tr) = Len(h.tr) + 1 /\ k.tr[Len(h.tr) + 1] = u

LEMMA PushedStateFacts ==
    ASSUME NEW h, Typed(h), NEW n \in Names, NEW l \in Seq(Nat)
    PROVE  IsPushedState([name |-> Append(h.name, n), ts |-> Append(h.ts, l), tr |-> h.tr], h, n, l)
<1>1. PICK N \in Nat : N = Len(h.name) /\ N = Len(h.ts)
    BY TypedFacts
<1>2. PICK a \in Seq(Names) : /\ a = Append(h.name, n) /\ Len(a) = N + 1 /\ a[N + 1] = n
                              /\ \A s \in 1..N : a[s] = h.name[s]
    <2>1. PICK q \in Seq(Names) : q = h.name /\ Len(q) = N
        BY <1>1, TypedFacts
    <2>2. PICK a : a = Append(q, n)
        OBVIOUS
    <2>3. /\ a \in Seq(Names) /\ Len(a) = Len(q) + 1 /\ a[Len(q) + 1] = n
          /\ \A s \in 1..Len(q) : a[s] = q[s]
        <3>1. a \in Seq(Names)
            BY <2>2, AppendFacts
        <3>2. Len(a) = Len(q) + 1
            BY <2>2, AppendFacts
        <3>3. a[Len(q) + 1] = n
            BY <2>2, AppendFacts
        <3>4. \A s \in 1..Len(q) : a[s] = q[s]
            BY <2>2, AppendFacts
        <3> QED
            BY <3>1, <3>2, <3>3, <3>4
    <2> QED
        BY <2>1, <2>2, <2>3
<1>3. PICK b \in Seq(Seq(Nat)) : /\ b = Append(h.ts, l) /\ Len(b) = N + 1 /\ b[N + 1] = l
                                 /\ \A s \in 1..N : b[s] = h.ts[s]
    <2>1. PICK q \in Seq(Seq(Nat)) : q = h.ts /\ Len(q) = N
        BY <1>1, TypedFacts
    <2>2. PICK b : b = Append(q, l)
        OBVIOUS
    <2>3. b \in Seq(Seq(Nat)) /\ Len(b) = N + 1 /\ b[N + 1] = l /\ \A s \in 1..N : b[s] = q[s]
        BY <2>1, <2>2, AppendFacts
    <2> QED
        BY <2>1, <2>2, <2>3
<1>4. PICK k : k = [name |-> a, ts |-> b, tr |-> h.tr]
    OBVIOUS
<1>5. k.name = a /\ k.ts = b /\ k.tr = h.tr
    BY <1>4
<1>6. Typed(k)
    BY <1>2, <1>3, <1>4, <1>5, TypedFacts DEF Typed
<1>7. Places(k) = Places(h) \cup {N + 1} /\ N + 1 \notin Places(h)
    BY <1>1, <1>2, <1>5, SMTT(30) DEF Places
<1>8. Grown(k, h)
    BY <1>1, <1>2, <1>3, <1>5, TypedFacts DEF Grown, Places
<1> QED
    BY <1>1, <1>2, <1>3, <1>4, <1>5, <1>6, <1>7, <1>8 DEF IsPushedState

LEMMA PushedTransitionFacts ==
    ASSUME NEW h, Typed(h), NEW u \in Arcs
    PROVE  IsPushedTransition([name |-> h.name, ts |-> h.ts, tr |-> Append(h.tr, u)], h, u)
<1>1. PICK M \in Nat : M = Len(h.tr)
    BY TypedFacts
<1>2. PICK q \in Seq(Arcs) : q = h.tr /\ Len(q) = M
    BY <1>1, TypedFacts
<1>3. PICK c : c = Append(q, u)
    OBVIOUS
<1>4. c \in Seq(Arcs) /\ Len(c) = M + 1 /\ c[M + 1] = u /\ \A t \in 1..M : c[t] = q[t]
    BY <1>2, <1>3, AppendFacts
<1>5. PICK k : k = [name |-> h.name, ts |-> h.ts, tr |-> c]
    OBVIOUS
<1>6. k.name = h.name /\ k.ts = h.ts /\ k.tr = c /\ Places(k) = Places(h)
    BY <1>5 DEF Places
<1>7. Typed(k)
    BY <1>4, <1>5, <1>6, TypedFacts DEF Typed
<1>8. Grown(k, h)
    BY <1>1, <1>2, <1>4, <1>6, TypedFacts DEF Grown
<1> QED
    BY <1>1, <1>2, <1>3, <1>4, <1>5, <1>6, <1>7, <1>8 DEF IsPushedTransition

\* A new state.
LEMMA NewStateFacts ==
    ASSUME NEW h, Typed(h), NEW n \in Names
    PROVE  IsPushedState(NewState(h, n), h, n, <<>>)
<1>1. <<>> \in Seq(Nat)
    OBVIOUS
<1> QED
    BY <1>1, PushedStateFacts DEF NewState

LEMMA NewStateSound ==
    ASSUME NEW h, Sound(h), NEW n \in Names
    PROVE  Sound(NewState(h, n))
<1>1. PICK k : k = NewState(h, n)
    OBVIOUS
<1>2. /\ Typed(k) /\ Grown(k, h) /\ Places(k) = Places(h) \cup {Len(h.name) + 1}
      /\ k.tr = h.tr /\ k.ts[Len(h.name) + 1] = <<>>
    <2>1. IsPushedState(k, h, n, <<>>)
        BY <1>1, NewStateFacts DEF Sound
    <2> QED
        BY <2>1 DEF IsPushedState
<1>3. ArcsLead(k)
    BY <1>2 DEF Sound, ArcsLead
<1>4. ASSUME NEW s \in Places(k) PROVE Lists(k, s)
    <2>1. CASE s \in Places(h)
        BY <1>2, <2>1 DEF Sound, Lists, Grown
    <2>2. CASE s = Len(h.name) + 1
        BY <1>2, <2>2 DEF Lists, IsInjective, Range
    <2> QED
        BY <1>2, <2>1, <2>2
<1> QED
    BY <1>1, <1>2, <1>3, <1>4 DEF Sound

\* A new transition, at the end of the list of its start.
IsNewTransition(k, h, a) ==
    /\ Sound(k) /\ k.name = h.name /\ Places(k) = Places(h)
    /\ Len(k.tr) = Len(h.tr) + 1 /\ \A t \in 1..Len(h.tr) : k.tr[t] = h.tr[t]
    /\ \A s \in Places(h) : s # a => k.ts[s] = h.ts[s]

LEMMA NewTransitionFacts ==
    ASSUME NEW h, Sound(h), NEW kind \in Kinds, NEW a \in Places(h), NEW b \in Places(h),
           NEW in \in Labels, NEW out \in SUBSET Labels
    PROVE  IsNewTransition(NewTransition(h, kind, a, b, in, out), h, a)
<1>1. PICK M \in Nat : M = Len(h.tr)
    BY TypedFacts DEF Sound
<1> DEFINE arc == [kind |-> kind, from |-> a, to |-> b, in |-> in, out |-> out]
<1>2. arc \in Arcs
    <2>1. a \in Nat /\ b \in Nat
        BY TypedFacts DEF Sound
    <2> QED
        BY <2>1 DEF Arcs
<1>3. PICK c \in Seq(Arcs) : /\ c = Append(h.tr, arc) /\ Len(c) = M + 1 /\ c[M + 1] = arc
                             /\ \A t \in 1..M : c[t] = h.tr[t]
    <2>1. PICK q \in Seq(Arcs) : q = h.tr /\ Len(q) = M
        BY <1>1, TypedFacts DEF Sound
    <2> HIDE DEF arc
    <2>2. PICK c : c = Append(q, arc)
        OBVIOUS
    <2>3. c \in Seq(Arcs) /\ Len(c) = M + 1 /\ c[M + 1] = arc /\ \A t \in 1..M : c[t] = q[t]
        BY <1>2, <2>1, <2>2, AppendFacts
    <2> QED
        BY <2>1, <2>2, <2>3
<1>4. PICK l \in Seq(Nat) : /\ l = Append(h.ts[a], M + 1)
                            /\ Range(l) = Range(h.ts[a]) \cup {M + 1} /\ IsInjective(l)
    <2>1. M + 1 \in Nat /\ h.ts[a] \in Seq(Nat)
        BY TypedFacts DEF Sound
    <2>2. M + 1 \notin Range(h.ts[a])
        <3>1. \A t \in Range(h.ts[a]) : t \in 1..M
            BY <1>1, SoundFacts
        <3>2. ~(M + 1 \in 1..M)
            OBVIOUS
        <3> QED
            BY <3>1, <3>2
    <2>3. IsInjective(h.ts[a])
        BY DEF Sound, Lists
    <2>4. PICK q \in Seq(Nat) : q = h.ts[a]
        BY <2>1
    <2>5. PICK l : l = Append(q, M + 1)
        OBVIOUS
    <2>6. l \in Seq(Nat) /\ Range(l) = Range(q) \cup {M + 1} /\ IsInjective(l)
        BY <2>1, <2>2, <2>3, <2>4, <2>5, AppendFacts
    <2> QED
        BY <2>4, <2>5, <2>6
<1>5. PICK b1 \in Seq(Seq(Nat)) : /\ b1 = [h.ts EXCEPT ![a] = l] /\ Len(b1) = Len(h.name) /\ b1[a] = l
                                  /\ \A s \in Places(h) : s # a => b1[s] = h.ts[s]
    <2>1. PICK q \in Seq(Seq(Nat)) : q = h.ts /\ Len(q) = Len(h.name) /\ a \in 1..Len(q) /\ Places(h) = 1..Len(q)
        BY TypedFacts DEF Sound
    <2>2. PICK b1 : b1 = [q EXCEPT ![a] = l]
        OBVIOUS
    <2>3. b1 \in Seq(Seq(Nat)) /\ Len(b1) = Len(q) /\ b1[a] = l /\ \A s \in 1..Len(q) : s # a => b1[s] = q[s]
        BY <2>1, <2>2, ExceptFacts
    <2>4. b1 = [h.ts EXCEPT ![a] = l] /\ Len(b1) = Len(h.name) /\ \A s \in Places(h) : s # a => b1[s] = h.ts[s]
        BY <2>1, <2>2, <2>3
    <2> QED
        BY <2>3, <2>4
<1>6. PICK k : k = NewTransition(h, kind, a, b, in, out) /\ k = [name |-> h.name, ts |-> b1, tr |-> c]
    BY <1>1, <1>3, <1>4, <1>5 DEF NewTransition
<1>7. k.name = h.name /\ k.ts = b1 /\ k.tr = c /\ Places(k) = Places(h)
    BY <1>6 DEF Places
<1>8. Typed(k)
    BY <1>5, <1>3, <1>6, <1>7, TypedFacts DEF Typed, Sound
<1>9. ArcsLead(k)
    <2>1. \A t \in 1..(M + 1) : t \in 1..M \/ t = M + 1
        OBVIOUS
    <2> QED
        BY <1>1, <1>3, <1>7, <2>1 DEF ArcsLead, Sound
<1>10. ASSUME NEW s \in Places(k) PROVE Lists(k, s)
    <2>0. \A t \in 1..M : t \in 1..(M + 1)
        OBVIOUS
    <2>1. CASE s = a
        <3>1. ASSUME NEW t \in Range(l) PROVE t \in 1..Len(k.tr) /\ k.tr[t].from = a
            <4>1. CASE t \in Range(h.ts[a])
                BY <1>1, <1>3, <1>7, <2>0, <4>1, SoundFacts
            <4>2. CASE t = M + 1
                BY <1>3, <1>7, <4>2
            <4> QED
                BY <1>4, <4>1, <4>2
        <3> QED
            BY <1>4, <1>5, <1>7, <2>1, <3>1 DEF Lists
    <2>2. CASE s # a
        BY <1>1, <1>3, <1>5, <1>7, <2>0, <2>2 DEF Lists, Sound
    <2> QED
        BY <2>1, <2>2
<1>11. Sound(k)
    BY <1>8, <1>9, <1>10 DEF Sound
<1> QED
    BY <1>1, <1>3, <1>5, <1>6, <1>7, <1>11 DEF IsNewTransition


\* A state takes another list: what the heap holds then, and when it is sound.
LEMMA SetTransitionsFacts ==
    ASSUME NEW h, Typed(h), NEW s \in Places(h), NEW l \in Seq(Nat)
    PROVE  LET k == SetTransitions(h, s, l) IN
           /\ Typed(k) /\ k.name = h.name /\ k.tr = h.tr /\ Places(k) = Places(h)
           /\ k.ts[s] = l /\ \A r \in Places(h) : r # s => k.ts[r] = h.ts[r]
<1>1. PICK q \in Seq(Seq(Nat)) : q = h.ts /\ Len(q) = Len(h.name) /\ s \in 1..Len(q) /\ Places(h) = 1..Len(q)
    BY TypedFacts
<1>2. PICK b \in Seq(Seq(Nat)) : /\ b = [h.ts EXCEPT ![s] = l] /\ Len(b) = Len(h.name) /\ b[s] = l
                                 /\ \A r \in Places(h) : r # s => b[r] = h.ts[r]
    <2>1. PICK b : b = [q EXCEPT ![s] = l]
        OBVIOUS
    <2>2. b \in Seq(Seq(Nat)) /\ Len(b) = Len(q) /\ b[s] = l /\ \A r \in 1..Len(q) : r # s => b[r] = q[r]
        BY <1>1, <2>1, ExceptFacts
    <2>3. b = [h.ts EXCEPT ![s] = l] /\ Len(b) = Len(h.name) /\ \A r \in Places(h) : r # s => b[r] = h.ts[r]
        BY <1>1, <2>1, <2>2
    <2> QED
        BY <2>2, <2>3
<1>3. PICK k : k = SetTransitions(h, s, l) /\ k = [name |-> h.name, ts |-> b, tr |-> h.tr]
    BY <1>2 DEF SetTransitions
<1>4. k.name = h.name /\ k.ts = b /\ k.tr = h.tr /\ Places(k) = Places(h)
    BY <1>3 DEF Places
<1>5. Typed(k)
    BY <1>2, <1>3, <1>4, TypedFacts DEF Typed
<1> QED
    BY <1>2, <1>3, <1>4, <1>5

\* A state that keeps only some of its transitions.
LEMMA FewerTransitions ==
    ASSUME NEW h, Sound(h), NEW s \in Places(h), NEW l \in Seq(Nat), IsInjective(l),
           Range(l) \subseteq Range(h.ts[s])
    PROVE  Sound(SetTransitions(h, s, l))
<1>1. PICK k : k = SetTransitions(h, s, l)
    OBVIOUS
<1>2. /\ Typed(k) /\ k.name = h.name /\ k.tr = h.tr /\ Places(k) = Places(h)
      /\ k.ts[s] = l /\ \A r \in Places(h) : r # s => k.ts[r] = h.ts[r]
    BY <1>1, SetTransitionsFacts DEF Sound
<1>3. ArcsLead(k)
    BY <1>2 DEF ArcsLead, Sound
<1>4. ASSUME NEW r \in Places(k) PROVE Lists(k, r)
    <2>1. CASE r = s
        <3>1. \A t \in Range(l) : t \in 1..Len(h.tr) /\ h.tr[t].from = s
            BY SoundFacts
        <3> QED
            BY <1>2, <2>1, <3>1 DEF Lists
    <2>2. CASE r # s
        BY <1>2, <2>2 DEF Lists, Sound
    <2> QED
        BY <2>1, <2>2
<1> QED
    BY <1>1, <1>2, <1>3, <1>4 DEF Sound

\* A transition takes other ends or other symbols.
LEMMA SetTransitionFacts ==
    ASSUME NEW h, Typed(h), NEW t \in 1..Len(h.tr), NEW u \in Arcs
    PROVE  LET k == SetTransition(h, t, u) IN
           /\ Typed(k) /\ k.name = h.name /\ k.ts = h.ts /\ Places(k) = Places(h)
           /\ Len(k.tr) = Len(h.tr)
           /\ k.tr[t] = u /\ \A r \in 1..Len(h.tr) : r # t => k.tr[r] = h.tr[r]
<1>1. PICK q \in Seq(Arcs) : q = h.tr
    BY TypedFacts
<1>2. PICK c : c = [q EXCEPT ![t] = u]
    OBVIOUS
<1>3. c \in Seq(Arcs) /\ Len(c) = Len(q) /\ c[t] = u /\ \A r \in 1..Len(q) : r # t => c[r] = q[r]
    BY <1>1, <1>2, ExceptFacts
<1>4. PICK k : k = SetTransition(h, t, u) /\ k = [name |-> h.name, ts |-> h.ts, tr |-> c]
    BY <1>1, <1>2 DEF SetTransition
<1>5. k.name = h.name /\ k.ts = h.ts /\ k.tr = c /\ Places(k) = Places(h)
    BY <1>4 DEF Places
<1>6. Typed(k)
    BY <1>3, <1>4, <1>5, TypedFacts DEF Typed
<1> QED
    BY <1>1, <1>3, <1>4, <1>5, <1>6

-----------------------------------------------------------------------------
(* The states that can be reached. *)

\* The states that the transitions of a state lead to.
Ends1(h, s) == {h.tr[t].to : t \in Range(h.ts[s])}

IsPushed(x, h, s, seen, todo) ==
    /\ x \in Seq(Places(h)) /\ IsInjective(x)
    /\ Range(x) = Range(todo) \cup (Ends1(h, s) \ Range(seen))

\* The states that wait to be analyzed are those that waited and those that the
\* transitions of the state lead to and were not seen, each once.
LEMMA PushedAllFacts ==
    ASSUME NEW h, Sound(h), NEW s \in Places(h), NEW seen \in Seq(Places(h)),
           NEW todo \in Seq(Places(h)), IsInjective(todo)
    PROVE  IsPushed(PushedAll(h, todo, seen, h.ts[s]), h, s, seen, todo)
<1> DEFINE ts == h.ts[s]
           Ends(i) == {h.tr[ts[j]].to : j \in 1..i}
           n == Len(ts)
           Step(x, i) == Pushed(h, x, seen, ts[i])
           P == [i \in 0..n |-> {x \in Seq(Places(h)) : IsInjective(x) /\ Range(x) = Range(todo) \cup (Ends(i) \ Range(seen))}]
           g == [i \in 1..n |-> [x \in P[i - 1] |-> Step(x, i)]]
           Right(u) == u = [i \in 0..n |-> IF i = 0 THEN todo
                              ELSE Step(u[i - 1], i)]
           Until == CHOOSE u : Right(u)
<1>n. n \in Nat
    BY TypedFacts DEF Sound
<1>0. n \in Nat /\ \A i \in 1..n : i \in 0..n /\ i - 1 \in 0..n /\ i # 0
    BY <1>n
<1>1. todo \in P[0]
    BY DEF P
<1>2. ASSUME NEW i \in 1..n, NEW x \in P[i - 1]
      PROVE  Step(x, i) \in P[i]
    <2>1. x \in Seq(Places(h)) /\ IsInjective(x) /\ Range(x) = Range(todo) \cup (Ends(i - 1) \ Range(seen))
        BY <1>0, <1>2 DEF P
    <2>2. Ends(i) = Ends(i - 1) \cup {h.tr[ts[i]].to}
        <3>1. \A j \in 1..i : j = i \/ j \in 1..(i - 1)
            BY <1>0
        <3>2. i \in 1..i /\ \A j \in 1..(i - 1) : j \in 1..i
            BY <1>0
        <3> QED
            BY <3>1, <3>2
    <2>3. h.tr[ts[i]].to \in Places(h)
        BY SoundFacts
    <2> HIDE DEF Ends
    <2>4. CASE h.tr[ts[i]].to \in Range(seen) \cup Range(x)
        <3>1. Step(x, i) = x
            BY <2>4 DEF Pushed
        <3>2. x \in P[i]
            BY <1>0, <2>1, <2>2, <2>4 DEF P
        <3> QED
            BY <3>1, <3>2
    <2>5. CASE h.tr[ts[i]].to \notin Range(seen) \cup Range(x)
        <3>1. PICK y : y = Append(x, h.tr[ts[i]].to)
            OBVIOUS
        <3>2. Step(x, i) = y
            BY <2>5, <3>1 DEF Pushed
        <3>0. PICK e \in Places(h) : e = h.tr[ts[i]].to /\ e \notin Range(x)
            BY <2>3, <2>5, SMTT(30)
        <3> HIDE DEF P, Step
        <3>3. y \in Seq(Places(h)) /\ IsInjective(y) /\ Range(y) = Range(x) \cup {h.tr[ts[i]].to}
            BY <2>1, <3>0, <3>1, AppendFacts, SMTT(30)
        <3>4. y \in P[i]
            BY <1>0, <2>1, <2>2, <2>5, <3>3, SMTT(30) DEF P
        <3> QED
            BY <3>2, <3>4
    <2> HIDE DEF Step
    <2> QED
        BY <2>4, <2>5
<1>3. \A i \in 1..n : \A x \in P[i - 1] : g[i][x] = Step(x, i)
    BY Zenon
<1>a. Turns(n, P, g)
    <2> HIDE DEF P, g, Step
    <2> QED
        BY <1>2, <1>3 DEF Turns
<1> HIDE DEF P, g
<1>4. PICK u : IsLoop(u, n, todo, P, g)
    BY <1>0, <1>1, <1>a, LoopExists
<1>5. Right(u)
    <2> HIDE DEF Step
    <2>1. u = [i \in 0..n |-> IF i = 0 THEN todo ELSE g[i][u[i - 1]]]
        BY <1>4 DEF IsLoop
    <2>2. \A i \in 1..n : g[i][u[i - 1]] = Step(u[i - 1], i)
        BY <1>0, <1>3, <1>4 DEF IsLoop
    <2>3. \A i \in 0..n : i # 0 => i \in 1..n
        BY <1>0
    <2> QED
        BY <2>1, <2>2, <2>3
<1>6. Right(Until)
    BY <1>5
<1>7. PushedAll(h, todo, seen, h.ts[s]) = Until[n]
    BY <1>6 DEF PushedAll
<1> HIDE DEF Until
<1>8. \A i \in 0..n : Until[i] \in P[i]
    <2>1. \A i \in 0..n : Until[i] = IF i = 0 THEN todo ELSE Step(Until[i - 1], i)
        BY <1>6
    <2>2. Until[0] = todo /\ \A i \in 1..n : Until[i] = Step(Until[i - 1], i)
        BY <1>0, <2>1
    <2>3. \A i \in 1..n : Until[i - 1] \in P[i - 1] => Until[i] \in P[i]
        <3> HIDE DEF Step
        <3> QED
            BY <1>2, <2>2
    <2> HIDE DEF Step
    <2> QED
        BY <1>0, <1>1, <2>2, <2>3, TurnByTurn
<1>9. Until[n] \in P[n] /\ n \in 0..n
    BY <1>0, <1>8
<1>b. Ends(n) = Ends1(h, s)
    <2>1. DOMAIN h.ts[s] = 1..n
        BY TypedFacts DEF Sound
    <2> QED
        BY <2>1 DEF Ends1, Range
<1> HIDE DEF Ends, n
<1> QED
    BY <1>7, <1>9, <1>b DEF P, IsPushed

(* What holds of the search from s0 after i turns.  Each turn analyzes a   *)
(* state, or drops one that was pushed when it was analyzed itself.        *)
Fits(h, s0, x) ==
    /\ s0 \in Range(x.seen) \cup Range(x.todo)
    /\ \A s \in Range(x.seen) : Ends1(h, s) \subseteq Range(x.seen) \cup Range(x.todo)
    /\ \A set : s0 \in set /\ Closed(h, set) => Range(x.seen) \cup Range(x.todo) \subseteq set
Left(h, x) ==
    2 * Cardinality(Places(h) \ Range(x.seen)) + Cardinality(Range(x.todo) \cap Range(x.seen))
Searching(h, s0, i) ==
    {x \in [todo : Seq(Places(h)), seen : Seq(Places(h))] :
       /\ IsInjective(x.todo) /\ IsInjective(x.seen)
       /\ Fits(h, s0, x)
       /\ x.todo # <<>> => Left(h, x) + i <= 2 * Len(h.name)}

LEMMA PlacesFinite ==
    ASSUME NEW h, Typed(h), NEW A \in SUBSET Places(h)
    PROVE  IsFiniteSet(A) /\ Cardinality(A) \in Nat /\ Cardinality(Places(h)) = Len(h.name)
<1>1. IsFiniteSet(Places(h)) /\ Cardinality(Places(h)) = Len(h.name)
    <2>1. PICK n \in Nat : n = Len(h.name) /\ Places(h) = 1..n
        BY TypedFacts
    <2>2. IsFiniteSet(1..n) /\ Cardinality(1..n) = IF 1 > n THEN 0 ELSE n - 1 + 1
        <3>1. 1 \in Int /\ n \in Int
            BY <2>1
        <3> QED
            BY <3>1, FS_Interval, Zenon
    <2> QED
        BY <2>1, <2>2
<1>2. IsFiniteSet(A)
    BY <1>1, FS_Subset
<1> QED
    BY <1>1, <1>2, FS_CardinalityType

LEMMA SearchStarts ==
    ASSUME NEW h, Sound(h), NEW s0 \in Places(h)
    PROVE  [todo |-> <<s0>>, seen |-> <<>>] \in Searching(h, s0, 0)
<1>1. PICK x : x = [todo |-> <<s0>>, seen |-> <<>>]
    OBVIOUS
<1>2. x \in [todo : Seq(Places(h)), seen : Seq(Places(h))] /\ x.todo = <<s0>> /\ x.seen = <<>>
    BY <1>1
<1>3. Range(x.todo) = {s0} /\ Range(x.seen) = {}
    <2>1. DOMAIN x.todo = {1} /\ x.todo[1] = s0 /\ DOMAIN x.seen = {}
        BY <1>2
    <2> QED
        BY <2>1 DEF Range
<1>4. IsInjective(x.todo) /\ IsInjective(x.seen)
    BY <1>2 DEF IsInjective
<1>5. Fits(h, s0, x)
    BY <1>3 DEF Fits
<1>6. Left(h, x) = 2 * Len(h.name)
    <2>1. Places(h) \ Range(x.seen) = Places(h) /\ Range(x.todo) \cap Range(x.seen) = {}
        BY <1>3
    <2>2. Cardinality(Places(h)) = Len(h.name) /\ Len(h.name) \in Nat
        BY PlacesFinite, TypedFacts DEF Sound
    <2>3. Left(h, x) = 2 * Cardinality(Places(h)) + Cardinality({})
        BY <2>1 DEF Left
    <2> QED
        BY <2>2, <2>3, FS_EmptySet
<1> QED
    <2>1. Len(h.name) \in Nat
        BY TypedFacts DEF Sound
    <2> QED
        BY <1>1, <1>2, <1>4, <1>5, <1>6, <2>1 DEF Searching

LEMMA SearchGoesOn ==
    ASSUME NEW h, Sound(h), NEW s0 \in Places(h), NEW i \in Nat, i # 0, NEW x \in Searching(h, s0, i - 1)
    PROVE  Visit(h, x) \in Searching(h, s0, i)
<1>0. /\ x.todo \in Seq(Places(h)) /\ x.seen \in Seq(Places(h))
      /\ x = [todo |-> x.todo, seen |-> x.seen]
      /\ IsInjective(x.todo) /\ IsInjective(x.seen) /\ Fits(h, s0, x)
      /\ x.todo # <<>> => Left(h, x) + (i - 1) <= 2 * Len(h.name)
    BY DEF Searching
<1>n. Len(h.name) \in Nat /\ i - 1 \in Nat
    BY TypedFacts DEF Sound
<1>a. Range(x.todo) \subseteq Places(h) /\ Range(x.seen) \subseteq Places(h)
    BY <1>0, SequenceFacts
<1>1. CASE x.todo = <<>>
    <2>1. Visit(h, x) = x
        BY <1>1 DEF Visit
    <2> QED
        BY <1>0, <1>1, <2>1 DEF Searching
<1>2. CASE x.todo # <<>>
    <2> DEFINE s == Last(x.todo)
    <2>1. PICK left : left = Front(x.todo)
        OBVIOUS
    <2>2. /\ s \in Places(h) /\ s \in Range(x.todo) /\ left \in Seq(Places(h)) /\ IsInjective(left)
          /\ Range(left) = Range(x.todo) \ {s}
        BY <1>0, <1>2, <2>1, LastAndFront
    <2>3. PICK U, D \in SUBSET Places(h) : U = Places(h) \ Range(x.seen) /\ D = Range(x.todo) \cap Range(x.seen)
        BY <1>a
    <2>4. PICK u, d \in Nat : u = Cardinality(U) /\ d = Cardinality(D)
        BY PlacesFinite DEF Sound
    <2>5. 2 * u + d + (i - 1) <= 2 * Len(h.name)
        BY <1>0, <1>2, <2>3, <2>4 DEF Left
    <2>f. IsFiniteSet(U) /\ IsFiniteSet(D)
        BY PlacesFinite DEF Sound
    <2> HIDE DEF s
    <2>6. CASE s \in Range(x.seen)
        <3>1. PICK y : y = [todo |-> left, seen |-> x.seen]
            OBVIOUS
        <3>2. Visit(h, x) = y
            BY <1>0, <1>2, <2>1, <2>6, <3>1 DEF Visit, s
        <3>3. y.todo = left /\ y.seen = x.seen /\ y \in [todo : Seq(Places(h)), seen : Seq(Places(h))]
            BY <1>0, <2>2, <3>1
        <3>4. Range(y.seen) \cup Range(y.todo) = Range(x.seen) \cup Range(x.todo)
            BY <2>2, <2>6, <3>3
        <3>5. Fits(h, s0, y)
            BY <1>0, <3>3, <3>4 DEF Fits
        <3>6. Left(h, y) + i <= 2 * Len(h.name)
            <4>1. Range(y.todo) \cap Range(y.seen) = D \ {s} /\ s \in D
                BY <2>2, <2>3, <2>6, <3>3
            <4>2. Cardinality(D \ {s}) = d - 1
                BY <2>4, <2>f, <4>1, FS_RemoveElement
            <4>3. Left(h, y) = 2 * u + (d - 1)
                BY <2>3, <2>4, <3>3, <4>1, <4>2 DEF Left
            <4> QED
                BY <1>n, <2>4, <2>5, <4>3
        <3> QED
            BY <1>0, <2>2, <3>2, <3>3, <3>5, <3>6 DEF Searching
    <2>7. CASE s \notin Range(x.seen)
        <3>1. PICK more : more = PushedAll(h, left, x.seen, h.ts[s])
            OBVIOUS
        <3>2. /\ more \in Seq(Places(h)) /\ IsInjective(more)
              /\ Range(more) = Range(left) \cup (Ends1(h, s) \ Range(x.seen))
            <4>1. PICK q \in Seq(Places(h)) : q = x.seen
                BY <1>0
            <4>2. IsPushed(PushedAll(h, left, q, h.ts[s]), h, s, q, left)
                BY <2>2, PushedAllFacts
            <4> QED
                BY <3>1, <4>1, <4>2 DEF IsPushed
        <3>3. PICK seen : seen = Append(x.seen, s)
            OBVIOUS
        <3>4. seen \in Seq(Places(h)) /\ IsInjective(seen) /\ Range(seen) = Range(x.seen) \cup {s}
            BY <1>0, <2>2, <2>7, <3>3, AppendFacts
        <3>5. PICK y : y = [todo |-> more, seen |-> seen]
            OBVIOUS
        <3>6. Visit(h, x) = y
            BY <1>2, <2>1, <2>7, <3>1, <3>3, <3>5 DEF Visit, s
        <3>7. y.todo = more /\ y.seen = seen /\ y \in [todo : Seq(Places(h)), seen : Seq(Places(h))]
            BY <3>2, <3>4, <3>5
        <3>8. Range(y.seen) \cup Range(y.todo) = Range(x.seen) \cup Range(x.todo) \cup Ends1(h, s)
            BY <2>2, <3>2, <3>4, <3>7
        <3>9. Fits(h, s0, y)
            <4>1. \A set : s0 \in set /\ Closed(h, set) =>
                     Range(x.seen) \cup Range(x.todo) \cup Ends1(h, s) \subseteq set
                <5>1. \A set : s0 \in set /\ Closed(h, set) => Range(x.seen) \cup Range(x.todo) \subseteq set
                    BY <1>0 DEF Fits
                <5>2. \A set : Closed(h, set) /\ s \in set => Ends1(h, s) \subseteq set
                    BY DEF Closed, Ends1
                <5> QED
                    BY <2>2, <5>1, <5>2
            <4>2. \A r \in Range(x.seen) : Ends1(h, r) \subseteq Range(x.seen) \cup Range(x.todo)
                BY <1>0 DEF Fits
            <4>3. s0 \in Range(x.seen) \cup Range(x.todo)
                BY <1>0 DEF Fits
            <4> QED
                BY <3>4, <3>7, <3>8, <4>1, <4>2, <4>3 DEF Fits
        <3>10. Left(h, y) + i <= 2 * Len(h.name)
            <4>1. Places(h) \ Range(y.seen) = U \ {s} /\ s \in U
                BY <2>2, <2>3, <2>7, <3>4, <3>7
            <4>2. Cardinality(U \ {s}) = u - 1
                BY <2>4, <2>f, <4>1, FS_RemoveElement
            <4>3. PICK E \in SUBSET Places(h) : E = Range(y.todo) \cap Range(y.seen)
                BY <3>4, <3>7, <1>a, <2>2
            <4>4. E \subseteq D \cup {s}
                BY <2>2, <2>3, <3>2, <3>4, <3>7, <4>3
            <4>5. IsFiniteSet(D \cup {s}) /\ Cardinality(D \cup {s}) <= d + 1 /\ Cardinality(D \cup {s}) \in Nat
                <5>1. Cardinality(D \cup {s}) = IF s \in D THEN Cardinality(D) ELSE Cardinality(D) + 1
                    BY <2>f, FS_AddElement
                <5>2. IsFiniteSet(D \cup {s})
                    BY <2>f, FS_AddElement
                <5> QED
                    BY <2>4, <5>1, <5>2
            <4>6. PICK e \in Nat : e = Cardinality(E) /\ e <= d + 1
                <5>1. Cardinality(E) <= Cardinality(D \cup {s})
                    BY <4>4, <4>5, FS_Subset
                <5>2. Cardinality(E) \in Nat
                    BY PlacesFinite DEF Sound
                <5> QED
                    BY <2>4, <4>5, <5>1, <5>2
            <4>7. Left(h, y) = 2 * (u - 1) + e
                BY <4>1, <4>2, <4>3, <4>6 DEF Left
            <4>8. PICK N \in Nat : N = Len(h.name) /\ 2 * u + d + (i - 1) <= 2 * N
                BY <1>n, <2>5
            <4>9. 2 * (u - 1) + e + i <= 2 * N
                BY <4>6, <4>8
            <4> QED
                BY <4>7, <4>8, <4>9
        <3> QED
            BY <3>2, <3>4, <3>6, <3>7, <3>9, <3>10 DEF Searching
    <2> QED
        BY <2>6, <2>7
<1> QED
    BY <1>1, <1>2

\* The states that getStates gives are those that can be reached.
IsReach(h, s0, set) ==
    /\ s0 \in set /\ set \subseteq Places(h) /\ Closed(h, set)
    /\ \A other : s0 \in other /\ Closed(h, other) => set \subseteq other

LEMMA SearchEnds ==
    ASSUME NEW h, Sound(h), NEW s0 \in Places(h), NEW x \in Searching(h, s0, 2 * Len(h.name))
    PROVE  x.seen \in Seq(Places(h)) /\ IsInjective(x.seen) /\ IsReach(h, s0, Range(x.seen))
<1>0. /\ x.todo \in Seq(Places(h)) /\ x.seen \in Seq(Places(h))
      /\ IsInjective(x.todo) /\ IsInjective(x.seen) /\ Fits(h, s0, x)
      /\ x.todo # <<>> => Left(h, x) + 2 * Len(h.name) <= 2 * Len(h.name)
    BY DEF Searching
<1>a. Range(x.todo) \subseteq Places(h) /\ Range(x.seen) \subseteq Places(h)
    BY <1>0, SequenceFacts
<1>1. Range(x.todo) \subseteq Range(x.seen)
    <2>1. CASE x.todo = <<>>
        BY <2>1 DEF Range
    <2>2. CASE x.todo # <<>>
        <3>1. PICK U, D \in SUBSET Places(h) : U = Places(h) \ Range(x.seen) /\ D = Range(x.todo) \cap Range(x.seen)
            BY <1>a
        <3>2. PICK u, d \in Nat : u = Cardinality(U) /\ d = Cardinality(D)
            BY PlacesFinite DEF Sound
        <3>3. Len(h.name) \in Nat /\ 2 * u + d + 2 * Len(h.name) <= 2 * Len(h.name)
            BY <1>0, <2>2, <3>1, <3>2, TypedFacts DEF Left, Sound
        <3>4. u = 0
            BY <3>2, <3>3
        <3>5. U = {}
            BY <3>2, <3>4, PlacesFinite, FS_EmptySet DEF Sound
        <3> QED
            BY <1>a, <3>1, <3>5
    <2> QED
        BY <2>1, <2>2
<1>2. Closed(h, Range(x.seen))
    BY <1>0, <1>1 DEF Fits, Closed, Ends1
<1> QED
    BY <1>0, <1>a, <1>1, <1>2 DEF Fits, IsReach

LEMMA GetStatesFacts ==
    ASSUME NEW h, Sound(h), NEW s0 \in Places(h)
    PROVE  /\ GetStates(h, s0) \in Seq(Places(h)) /\ IsInjective(GetStates(h, s0))
           /\ IsReach(h, s0, Range(GetStates(h, s0)))
<1> DEFINE n == 2 * Len(h.name)
           Step(x, i) == Visit(h, x)
           P == [i \in 0..n |-> Searching(h, s0, i)]
           g == [i \in 1..n |-> [x \in P[i - 1] |-> Step(x, i)]]
           Right(u) == u = [i \in 0..n |-> IF i = 0 THEN [todo |-> <<s0>>, seen |-> <<>>]
                              ELSE Step(u[i - 1], i)]
           Until == CHOOSE u : Right(u)
<1>n. Len(h.name) \in Nat
    BY TypedFacts DEF Sound
<1>0. n \in Nat /\ \A i \in 1..n : i \in 0..n /\ i - 1 \in 0..n /\ i # 0
    BY <1>n
<1>1. [todo |-> <<s0>>, seen |-> <<>>] \in P[0]
    BY <1>0, SearchStarts DEF P
<1>2. ASSUME NEW i \in 1..n, NEW x \in P[i - 1]
      PROVE  Step(x, i) \in P[i]
    BY <1>0, <1>2, SearchGoesOn DEF P
<1>3. \A i \in 1..n : \A x \in P[i - 1] : g[i][x] = Step(x, i)
    OBVIOUS
<1>a. Turns(n, P, g)
    <2> HIDE DEF P, g, Step
    <2> QED
        BY <1>2, <1>3 DEF Turns
<1> HIDE DEF P, g
<1>4. PICK u : IsLoop(u, n, [todo |-> <<s0>>, seen |-> <<>>], P, g)
    BY <1>0, <1>1, <1>a, LoopExists
<1>5. Right(u)
    <2> HIDE DEF Step
    <2>1. u = [i \in 0..n |-> IF i = 0 THEN [todo |-> <<s0>>, seen |-> <<>>] ELSE g[i][u[i - 1]]]
        BY <1>4 DEF IsLoop
    <2>2. \A i \in 1..n : g[i][u[i - 1]] = Step(u[i - 1], i)
        BY <1>0, <1>3, <1>4 DEF IsLoop
    <2>3. \A i \in 0..n : i # 0 => i \in 1..n
        BY <1>0
    <2> QED
        BY <2>1, <2>2, <2>3
<1>6. Right(Until)
    BY <1>5
<1>7. GetStates(h, s0) = Until[n].seen
    BY <1>6 DEF GetStates
<1> HIDE DEF Until
<1>8. \A i \in 0..n : Until[i] \in P[i]
    <2>1. \A i \in 0..n : Until[i] = IF i = 0 THEN [todo |-> <<s0>>, seen |-> <<>>] ELSE Step(Until[i - 1], i)
        BY <1>6
    <2>2. Until[0] = [todo |-> <<s0>>, seen |-> <<>>] /\ \A i \in 1..n : Until[i] = Step(Until[i - 1], i)
        BY <1>0, <2>1
    <2>3. \A i \in 1..n : Until[i - 1] \in P[i - 1] => Until[i] \in P[i]
        <3> HIDE DEF Step
        <3> QED
            BY <1>2, <2>2
    <2> HIDE DEF Step
    <2> QED
        BY <1>0, <1>1, <2>2, <2>3, TurnByTurn
<1>9. Until[n] \in P[n] /\ n \in 0..n
    BY <1>0, <1>8
<1> QED
    BY <1>7, <1>9, SearchEnds DEF P

LEMMA ReachFacts ==
    ASSUME NEW h, Sound(h), NEW s0 \in Places(h)
    PROVE  IsReach(h, s0, Reach(h, s0))
BY GetStatesFacts DEF Reach

LEMMA ReachIsUnique ==
    ASSUME NEW h, NEW s0, NEW A, NEW B, IsReach(h, s0, A), IsReach(h, s0, B)
    PROVE  A = B
BY DEF IsReach

\* Two heaps agree on the states of a set and on their transitions.
AgreeOn(k, h, set) ==
    /\ \A s \in set : k.name[s] = h.name[s] /\ k.ts[s] = h.ts[s]
    /\ \A s \in set : \A t \in Range(h.ts[s]) : k.tr[t] = h.tr[t]

\* An automaton is what its own objects say.
LEMMA SameAutomaton ==
    ASSUME NEW h, Sound(h), NEW k, Sound(k), NEW s0 \in Places(h), s0 \in Places(k),
           AgreeOn(k, h, Reach(h, s0)), Reach(h, s0) \subseteq Places(k)
    PROVE  Reach(k, s0) = Reach(h, s0) /\ Outline(k, s0) = Outline(h, s0)
<1> DEFINE R == Reach(h, s0)
<1>1. IsReach(h, s0, R)
    BY ReachFacts
<1> HIDE DEF R
<1>2. AgreeOn(k, h, R) /\ R \subseteq Places(k)
    BY DEF R
<1>3. \A set : set \subseteq R => (Closed(k, set) <=> Closed(h, set))
    BY <1>2 DEF AgreeOn, Closed
<1>4. IsReach(k, s0, R)
    <2>1. Closed(k, R)
        BY <1>1, <1>3 DEF IsReach
    <2>2. ASSUME NEW set, s0 \in set, Closed(k, set)
          PROVE  R \subseteq set
        <3>1. Closed(k, set \cap R)
            BY <2>1, <2>2 DEF Closed
        <3>2. Closed(h, set \cap R)
            BY <1>3, <3>1
        <3> QED
            BY <1>1, <2>2, <3>2 DEF IsReach
    <2> QED
        BY <1>1, <1>2, <2>1, <2>2 DEF IsReach
<1>5. Reach(k, s0) = R
    BY <1>4, ReachFacts, ReachIsUnique
<1>6. \A s \in R : \A t \in Range(h.ts[s]) : Edge(k, t) = Edge(h, t)
    <2>1. ASSUME NEW s \in R, NEW t \in Range(h.ts[s]) PROVE Edge(k, t) = Edge(h, t)
        <3>1. k.tr[t] = h.tr[t] /\ h.tr[t].from = s /\ h.tr[t].to \in R
            BY <1>1, <1>2, SoundFacts DEF AgreeOn, IsReach, Closed
        <3>2. k.name[h.tr[t].from] = h.name[h.tr[t].from] /\ k.name[h.tr[t].to] = h.name[h.tr[t].to]
            BY <1>2, <3>1 DEF AgreeOn
        <3> QED
            BY <3>1, <3>2 DEF Edge
    <2> QED
        BY <2>1
<1>7. \A s \in R : [i \in 1..Len(k.ts[s]) |-> Edge(k, k.ts[s][i])] = [i \in 1..Len(h.ts[s]) |-> Edge(h, h.ts[s][i])]
    <2>1. ASSUME NEW s \in R
          PROVE  [i \in 1..Len(k.ts[s]) |-> Edge(k, k.ts[s][i])] = [i \in 1..Len(h.ts[s]) |-> Edge(h, h.ts[s][i])]
        <3>1. k.ts[s] = h.ts[s] /\ s \in Places(h)
            BY <1>1, <1>2 DEF AgreeOn, IsReach
        <3>2. \A i \in 1..Len(h.ts[s]) : Edge(k, h.ts[s][i]) = Edge(h, h.ts[s][i])
            BY <1>6, <3>1, SoundFacts
        <3> QED
            BY <3>1, <3>2
    <2> QED
        BY <2>1
<1>8. Outline(k, s0) = Outline(h, s0)
    BY <1>2, <1>5, <1>7 DEF Outline, R, AgreeOn
<1> QED
    BY <1>5, <1>8 DEF R

\* So an automaton stays as it is when objects are added to the heap.
LEMMA GrownKeeps ==
    ASSUME NEW h, Sound(h), NEW k, Sound(k), NEW s0 \in Places(h), Grown(k, h)
    PROVE  /\ Reach(k, s0) = Reach(h, s0) /\ Outline(k, s0) = Outline(h, s0)
           /\ Places(h) \subseteq Places(k)
<1>1. Reach(h, s0) \subseteq Places(h)
    BY ReachFacts DEF IsReach
<1>2. Places(h) \subseteq Places(k)
    <2>1. PICK m, n \in Nat : m = Len(h.name) /\ n = Len(k.name) /\ m <= n
        BY TypedFacts DEF Sound, Grown
    <2> QED
        BY <2>1 DEF Places
<1>3. AgreeOn(k, h, Reach(h, s0))
    <2>1. \A s \in Places(h) : \A t \in Range(h.ts[s]) : t \in 1..Len(h.tr)
        BY SoundFacts
    <2> QED
        BY <1>1, <2>1 DEF AgreeOn, Grown
<1> QED
    BY <1>1, <1>2, <1>3, SameAutomaton

\* The operation adds to the heap what an operation before it added to.
LEMMA GrownAgain ==
    ASSUME NEW h, Typed(h), NEW k, Typed(k), NEW l, Typed(l), Grown(k, h), Grown(l, k)
    PROVE  Grown(l, h)
<1>1. PICK m, n, p \in Nat : m = Len(h.name) /\ n = Len(k.name) /\ p = Len(l.name) /\ m <= n /\ n <= p
    BY TypedFacts DEF Grown
<1>2. PICK a, b, c \in Nat : a = Len(h.tr) /\ b = Len(k.tr) /\ c = Len(l.tr) /\ a <= b /\ b <= c
    BY TypedFacts DEF Grown
<1>3. Places(h) \subseteq Places(k) /\ 1..a \subseteq 1..b
    BY <1>1, <1>2 DEF Places
<1> QED
    BY <1>1, <1>2, <1>3 DEF Grown

-----------------------------------------------------------------------------
(* Automata.copy, of an automaton of the sound heap h whose states are R.  *)

Accs(h) ==
    [h : [name : Seq(Names), ts : Seq(Seq(Nat)), tr : Seq(Arcs)],
     map : [Places(h) -> Nat], new : Seq(Nat)]

\* The objects that a copy adds are the copies of states of R, each of one
\* state, and the transitions added lead from such a copy to such a copy.
CopyMaps(a, h, R) ==
    /\ \A s \in Places(h) : a.map[s] # NoState =>
          /\ s \in R /\ a.map[s] \in Places(a.h) /\ a.map[s] \notin Places(h)
          /\ a.h.name[a.map[s]] = h.name[s]
    /\ \A r, s \in Places(h) : a.map[r] # NoState /\ a.map[r] = a.map[s] => r = s
    /\ \A p \in Places(a.h) \ Places(h) : \E s \in R : a.map[s] = p
CopyLeads(a, h) ==
    \A t \in 1..Len(a.h.tr) : t \notin 1..Len(h.tr) =>
       /\ a.h.tr[t].from \in Places(a.h) \ Places(h)
       /\ a.h.tr[t].to \in Places(a.h) \ Places(h)
Copying(a, h, R) ==
    /\ a \in Accs(h) /\ Typed(a.h) /\ Grown(a.h, h)
    /\ CopyMaps(a, h, R) /\ CopyLeads(a, h)

\* What is copied stays copied.
Later(b, a, h) ==
    /\ Grown(b.h, a.h)
    /\ \A s \in Places(h) : a.map[s] # NoState => b.map[s] = a.map[s]

\* The transition t is the copy of u.
IsImage(a, u, t) ==
    /\ t \in 1..Len(a.h.tr)
    /\ a.map[u.from] # NoState /\ a.map[u.to] # NoState
    /\ a.h.tr[t] = [kind |-> u.kind, from |-> a.map[u.from], to |-> a.map[u.to],
                    in |-> u.in, out |-> u.out]

\* A list of copies of the transitions of s, in their order.
IsCopiedList(a, h, s, list) ==
    /\ list \in Seq(Nat) /\ Len(list) = Len(h.ts[s]) /\ IsInjective(list)
    /\ \A i \in 1..Len(list) : /\ list[i] \notin 1..Len(h.tr)
                               /\ IsImage(a, h.tr[h.ts[s][i]], list[i])
Finished(a, h, s) == a.map[s] # NoState /\ IsCopiedList(a, h, s, a.h.ts[a.map[s]])

LEMMA CopyingFacts ==
    ASSUME NEW h, Sound(h), NEW R, NEW a, Copying(a, h, R)
    PROVE  /\ a = [h |-> a.h, map |-> a.map, new |-> a.new]
           /\ a.map \in [Places(h) -> Nat] /\ a.new \in Seq(Nat)
           /\ Places(h) \subseteq Places(a.h)
           /\ \A s \in Places(h) : a.h.ts[s] = h.ts[s] /\ a.h.name[s] = h.name[s]
           /\ 1..Len(h.tr) \subseteq 1..Len(a.h.tr) /\ \A t \in 1..Len(h.tr) : a.h.tr[t] = h.tr[t]
           /\ \A p \in Places(a.h) : p # NoState
<1>1. /\ a = [h |-> a.h, map |-> a.map, new |-> a.new]
      /\ a.map \in [Places(h) -> Nat] /\ a.new \in Seq(Nat)
    BY DEF Copying, Accs
<1>2. Typed(a.h) /\ Grown(a.h, h)
    BY DEF Copying
<1>3. PICK m, n \in Nat : m = Len(h.name) /\ n = Len(a.h.name) /\ m <= n
    BY <1>2, TypedFacts DEF Sound, Grown
<1>4. PICK p, q \in Nat : p = Len(h.tr) /\ q = Len(a.h.tr) /\ p <= q
    BY <1>2, TypedFacts DEF Sound, Grown
<1>5. Places(h) \subseteq Places(a.h) /\ \A x \in Places(a.h) : x # NoState
    BY <1>3 DEF Places, NoState
<1>6. 1..Len(h.tr) \subseteq 1..Len(a.h.tr)
    BY <1>4
<1> QED
    BY <1>1, <1>2, <1>5, <1>6 DEF Grown

LEMMA GrownItself ==
    ASSUME NEW h, Typed(h)
    PROVE  Grown(h, h)
BY TypedFacts DEF Grown

\* State.copy.
IsCopyState(b, a, h, R, s) ==
    Copying(b, h, R) /\ Later(b, a, h) /\ b.map[s] # NoState /\ b.new = a.new /\ b.h.tr = a.h.tr

LEMMA CopyStateFacts ==
    ASSUME NEW h, Sound(h), NEW R \in SUBSET Places(h), NEW a, Copying(a, h, R), NEW s \in R
    PROVE  IsCopyState(CopyState(a, s), a, h, R, s)
<1>a. Typed(a.h) /\ Grown(a.h, h) /\ CopyMaps(a, h, R) /\ CopyLeads(a, h) /\ s \in Places(h)
    BY DEF Copying
<1>b. /\ a.map \in [Places(h) -> Nat] /\ a.new \in Seq(Nat) /\ Places(h) \subseteq Places(a.h)
      /\ a.h.ts[s] = h.ts[s] /\ a.h.name[s] = h.name[s]
    BY <1>a, CopyingFacts
<1>0. /\ s \in Places(h)
      /\ a.map \in [Places(h) -> Nat] /\ a.new \in Seq(Nat) /\ Places(h) \subseteq Places(a.h)
      /\ Typed(a.h) /\ Grown(a.h, h) /\ CopyMaps(a, h, R) /\ CopyLeads(a, h)
      /\ a.h.ts[s] = h.ts[s] /\ a.h.name[s] = h.name[s]
    BY <1>a, <1>b
<1>1. CASE a.map[s] # NoState
    <2>1. CopyState(a, s) = a
        BY <1>1 DEF CopyState
    <2>2. Later(a, a, h)
        BY <1>0, GrownItself DEF Later
    <2> QED
        BY <1>1, <2>1, <2>2 DEF IsCopyState
<1>2. CASE a.map[s] = NoState
    <2>1. PICK n \in Nat : n = Len(a.h.name) + 1
        BY <1>0, TypedFacts
    <2>2. PICK k : k = [name |-> Append(a.h.name, a.h.name[s]), ts |-> Append(a.h.ts, a.h.ts[s]), tr |-> a.h.tr]
        OBVIOUS
    <2>3. /\ Typed(k) /\ Grown(k, a.h) /\ k.tr = a.h.tr
          /\ Places(k) = Places(a.h) \cup {n} /\ n \notin Places(a.h)
          /\ k.name[n] = h.name[s]
        <3>1. PICK x \in Names, l \in Seq(Nat) : x = a.h.name[s] /\ l = a.h.ts[s] /\ x = h.name[s]
            BY <1>0, TypedFacts
        <3>2. PICK y : y = a.h /\ Typed(y)
            BY <1>0
        <3>3. k = [name |-> Append(y.name, x), ts |-> Append(y.ts, l), tr |-> y.tr]
            BY <2>2, <3>1, <3>2
        <3>4. IsPushedState(k, y, x, l)
            BY <3>2, <3>3, PushedStateFacts
        <3> QED
            BY <2>1, <3>1, <3>2, <3>4 DEF IsPushedState
    <2>4. PICK m : m = [a.map EXCEPT ![s] = n]
        OBVIOUS
    <2>5. m \in [Places(h) -> Nat] /\ m[s] = n /\ \A r \in Places(h) : r # s => m[r] = a.map[r]
        BY <1>0, <2>4
    <2>6. PICK b : b = CopyState(a, s) /\ b = [h |-> k, map |-> m, new |-> a.new]
        BY <1>2, <2>1, <2>2, <2>4 DEF CopyState, Last1
    <2>7. b.h = k /\ b.map = m /\ b.new = a.new /\ b \in Accs(h)
        <3>1. k \in [name : Seq(Names), ts : Seq(Seq(Nat)), tr : Seq(Arcs)]
            BY <2>3 DEF Typed
        <3> QED
            BY <1>0, <2>5, <2>6, <3>1 DEF Accs
    <2>8. n # NoState /\ n \notin Places(h)
        BY <1>0, <2>1, <2>3, TypedFacts DEF NoState
    <2>9. Grown(k, h)
        BY <1>0, <2>3, GrownAgain DEF Sound
    <2>10. CopyMaps(b, h, R)
        <3>1. ASSUME NEW r \in Places(h), m[r] # NoState
              PROVE  r \in R /\ m[r] \in Places(k) /\ m[r] \notin Places(h) /\ k.name[m[r]] = h.name[r]
            <4>1. CASE r = s
                BY <2>3, <2>5, <2>8, <4>1
            <4>2. CASE r # s
                <5>1. m[r] = a.map[r]
                    BY <2>5, <4>2
                <5>2. r \in R /\ m[r] \in Places(a.h) /\ m[r] \notin Places(h) /\ a.h.name[m[r]] = h.name[r]
                    BY <1>0, <3>1, <5>1 DEF CopyMaps
                <5>3. k.name[m[r]] = a.h.name[m[r]]
                    BY <2>3, <5>2 DEF Grown
                <5> QED
                    BY <2>3, <5>2, <5>3
            <4> QED
                BY <4>1, <4>2
        <3>2. ASSUME NEW p \in Places(h), NEW r \in Places(h), m[p] # NoState, m[p] = m[r]
              PROVE  p = r
            <4>1. \A x \in Places(h) : x # s /\ a.map[x] # NoState => m[x] # n
                BY <1>0, <2>3, <2>5 DEF CopyMaps
            <4>2. CASE p = s \/ r = s
                BY <2>5, <2>8, <3>2, <4>1, <4>2
            <4>3. CASE p # s /\ r # s
                BY <1>0, <2>5, <3>2, <4>3 DEF CopyMaps
            <4> QED
                BY <4>2, <4>3
        <3>3. ASSUME NEW p \in Places(k) \ Places(h)
              PROVE  \E r \in R : m[r] = p
            <4>1. CASE p = n
                BY <2>5, <4>1
            <4>2. CASE p # n
                <5>1. PICK r \in R : a.map[r] = p
                    BY <1>0, <2>3, <3>3, <4>2 DEF CopyMaps
                <5>2. p # NoState
                    BY <2>3, <4>2, CopyingFacts
                <5> QED
                    BY <1>2, <2>5, <5>1, <5>2
            <4> QED
                BY <4>1, <4>2
        <3> QED
            BY <2>7, <3>1, <3>2, <3>3 DEF CopyMaps
    <2>11. CopyLeads(b, h)
        BY <1>0, <2>3, <2>7 DEF CopyLeads
    <2>12. Later(b, a, h)
        BY <1>2, <2>3, <2>5, <2>7 DEF Later
    <2> QED
        BY <2>3, <2>5, <2>6, <2>7, <2>8, <2>9, <2>10, <2>11, <2>12 DEF IsCopyState, Copying
<1> QED
    BY <1>1, <1>2

LEMMA LaterAgain ==
    ASSUME NEW h, NEW a, NEW b, NEW c, Typed(a.h), Typed(b.h), Typed(c.h), Later(b, a, h), Later(c, b, h)
    PROVE  Later(c, a, h)
<1>1. Grown(c.h, a.h)
    BY GrownAgain DEF Later
<1> QED
    BY <1>1 DEF Later

LEMMA LaterKeeps ==
    ASSUME NEW h, Sound(h), NEW a, NEW b, Typed(a.h), Typed(b.h), Later(b, a, h),
           NEW u, u.from \in Places(h), u.to \in Places(h), NEW t, IsImage(a, u, t)
    PROVE  IsImage(b, u, t)
<1>1. t \in 1..Len(b.h.tr) /\ b.h.tr[t] = a.h.tr[t]
    <2>1. PICK p, q \in Nat : p = Len(a.h.tr) /\ q = Len(b.h.tr) /\ p <= q
        BY TypedFacts DEF Later, Grown
    <2> QED
        BY <2>1 DEF IsImage, Later, Grown
<1> QED
    BY <1>1 DEF IsImage, Later

\* Transition.copy.
IsCopyTransition(b, a, h, R, t) ==
    /\ Copying(b, h, R) /\ Later(b, a, h) /\ b.new = Append(a.new, Len(a.h.tr) + 1)
    /\ Len(b.h.tr) = Len(a.h.tr) + 1 /\ IsImage(b, h.tr[t], Len(a.h.tr) + 1)

LEMMA CopyTransitionFacts ==
    ASSUME NEW h, Sound(h), NEW R \in SUBSET Places(h), NEW a, Copying(a, h, R),
           NEW t \in 1..Len(h.tr), h.tr[t].from \in R, h.tr[t].to \in R
    PROVE  IsCopyTransition(CopyTransition(a, t), a, h, R, t)
<1>1. PICK u \in Arcs : u = h.tr[t] /\ u = a.h.tr[t] /\ u.from \in R /\ u.to \in R
    <2>1. h.tr[t] \in Arcs
        BY TypedFacts DEF Sound
    <2>2. a.h.tr[t] = h.tr[t]
        BY CopyingFacts
    <2> QED
        BY <2>1, <2>2
<1>2. PICK x : x = CopyState(a, u.from) /\ IsCopyState(x, a, h, R, u.from)
    BY <1>1, CopyStateFacts
<1>3. PICK y : y = CopyState(x, u.to) /\ IsCopyState(y, x, h, R, u.to)
    <2>1. Copying(x, h, R)
        BY <1>2 DEF IsCopyState
    <2> QED
        BY <1>1, <2>1, CopyStateFacts
<1>4. /\ Copying(y, h, R) /\ Later(y, a, h) /\ y.map[u.from] # NoState /\ y.map[u.to] # NoState
      /\ y.new = a.new /\ y.h.tr = a.h.tr
    <2>1. Later(y, a, h)
        BY <1>2, <1>3, LaterAgain, SMTT(30) DEF IsCopyState, Copying
    <2>2. y.map[u.from] # NoState
        BY <1>1, <1>2, <1>3, Zenon DEF IsCopyState, Later
    <2> QED
        BY <1>2, <1>3, <2>1, <2>2 DEF IsCopyState
<1>5. PICK M \in Nat : M = Len(a.h.tr) /\ M = Len(y.h.tr)
    BY <1>4, TypedFacts DEF Copying
<1>6. PICK f, e \in Nat : /\ f = y.map[u.from] /\ e = y.map[u.to] /\ f # NoState /\ e # NoState
                          /\ f \in Places(y.h) \ Places(h) /\ e \in Places(y.h) \ Places(h)
    <2>1. y.map \in [Places(h) -> Nat] /\ u.from \in Places(h) /\ u.to \in Places(h)
        BY <1>1, <1>4, CopyingFacts
    <2>2. CopyMaps(y, h, R)
        BY <1>4 DEF Copying
    <2>3. /\ y.map[u.from] \in Places(y.h) \ Places(h) /\ y.map[u.to] \in Places(y.h) \ Places(h)
          /\ y.map[u.from] \in Nat /\ y.map[u.to] \in Nat
        BY <1>4, <2>1, <2>2 DEF CopyMaps
    <2> QED
        BY <1>4, <2>3
<1>7. PICK moved \in Arcs : moved = [kind |-> u.kind, from |-> f, to |-> e, in |-> u.in, out |-> u.out]
    BY <1>1 DEF Arcs
<1>8. PICK k : k = [name |-> y.h.name, ts |-> y.h.ts, tr |-> Append(y.h.tr, moved)]
    OBVIOUS
<1>9. /\ Typed(k) /\ Grown(k, y.h) /\ k.name = y.h.name /\ k.ts = y.h.ts /\ Places(k) = Places(y.h)
      /\ Len(k.tr) = M + 1 /\ k.tr[M + 1] = moved
    <2>1. PICK z : z = y.h /\ Typed(z)
        BY <1>4 DEF Copying
    <2>2. k = [name |-> z.name, ts |-> z.ts, tr |-> Append(z.tr, moved)]
        BY <1>8, <2>1
    <2>3. IsPushedTransition(k, z, moved)
        BY <2>1, <2>2, PushedTransitionFacts
    <2> QED
        BY <1>5, <2>1, <2>3 DEF IsPushedTransition
<1>10. PICK l \in Seq(Nat) : l = Append(y.new, M + 1)
    <2>1. PICK q \in Seq(Nat) : q = y.new
        BY <1>4, CopyingFacts
    <2>2. Append(q, M + 1) \in Seq(Nat)
        BY <2>1, AppendFacts, SMTT(30)
    <2> QED
        BY <2>1, <2>2
<1>11. PICK b : b = CopyTransition(a, t) /\ b = [h |-> k, map |-> y.map, new |-> l]
    BY <1>1, <1>2, <1>3, <1>5, <1>6, <1>7, <1>8, <1>10, Zenon DEF CopyTransition
<1>12. b.h = k /\ b.map = y.map /\ b.new = l /\ b \in Accs(h)
    <2>1. k \in [name : Seq(Names), ts : Seq(Seq(Nat)), tr : Seq(Arcs)]
        BY <1>9 DEF Typed
    <2>2. y.map \in [Places(h) -> Nat]
        BY <1>4, CopyingFacts
    <2> QED
        BY <1>11, <2>1, <2>2 DEF Accs
<1>13. Grown(k, h)
    BY <1>4, <1>9, GrownAgain DEF Sound, Copying
<1>14. CopyMaps(b, h, R)
    BY <1>4, <1>9, <1>12 DEF Copying, CopyMaps
<1>15. CopyLeads(b, h)
    <2>1. ASSUME NEW r \in 1..Len(k.tr), r \notin 1..Len(h.tr)
          PROVE  k.tr[r].from \in Places(k) \ Places(h) /\ k.tr[r].to \in Places(k) \ Places(h)
        <3>1. CASE r = M + 1
            BY <1>6, <1>7, <1>9, <3>1, SMTT(30)
        <3>2. CASE r # M + 1
            <4>1. r \in 1..M
                BY <1>9, <3>2
            <4>2. k.tr[r] = y.h.tr[r]
                BY <1>5, <1>9, <4>1 DEF Grown
            <4> QED
                BY <1>4, <1>5, <1>9, <2>1, <4>1, <4>2 DEF Copying, CopyLeads
        <3> QED
            BY <3>1, <3>2
    <2> QED
        BY <1>12, <2>1 DEF CopyLeads
<1>16. Later(b, a, h)
    <2>1. Later(b, y, h)
        BY <1>9, <1>12, SMTT(30) DEF Later
    <2> QED
        BY <1>4, <1>9, <1>12, <2>1, LaterAgain DEF Copying
<1>17. IsImage(b, h.tr[t], M + 1)
    BY <1>1, <1>4, <1>5, <1>6, <1>7, <1>9, <1>12 DEF IsImage
<1> QED
    BY <1>4, <1>5, <1>9, <1>10, <1>11, <1>12, <1>13, <1>14, <1>15, <1>16, <1>17
       DEF IsCopyTransition, Copying

(* What holds after i transitions of the state s were copied, from a on.   *)
CopyingList(a, h, R, s, i) ==
    {x \in Accs(h) :
       /\ Copying(x, h, R) /\ Later(x, a, h) /\ Len(x.h.tr) = Len(a.h.tr) + i
       /\ Len(x.new) = i
       /\ \A j \in 1..i : /\ x.new[j] = Len(a.h.tr) + j
                          /\ IsImage(x, h.tr[h.ts[s][j]], Len(a.h.tr) + j)}

LEMMA CopyListStarts ==
    ASSUME NEW h, Sound(h), NEW R \in SUBSET Places(h), NEW a, Copying(a, h, R), NEW s \in R
    PROVE  [h |-> a.h, map |-> a.map, new |-> <<>>] \in CopyingList(a, h, R, s, 0)
<1>1. PICK b : b = [h |-> a.h, map |-> a.map, new |-> <<>>]
    OBVIOUS
<1>2. a \in Accs(h) /\ Typed(a.h)
    BY DEF Copying
<1>3. b.h = a.h /\ b.map = a.map /\ b.new = <<>> /\ b \in Accs(h)
    <2>1. <<>> \in Seq(Nat)
        OBVIOUS
    <2> QED
        BY <1>1, <1>2, <2>1 DEF Accs
<1>4. Copying(b, h, R)
    BY <1>3 DEF Copying, CopyMaps, CopyLeads
<1>5. Later(b, a, h)
    BY <1>2, <1>3, GrownItself DEF Later
<1>6. Len(a.h.tr) \in Nat
    BY <1>2, TypedFacts, SMTT(30)
<1> QED
    BY <1>1, <1>3, <1>4, <1>5, <1>6 DEF CopyingList

LEMMA CopyListGoesOn ==
    ASSUME NEW h, Sound(h), NEW R \in SUBSET Places(h), Closed(h, R), NEW a, Copying(a, h, R), NEW s \in R,
           NEW i \in 1..Len(h.ts[s]), NEW x \in CopyingList(a, h, R, s, i - 1)
    PROVE  CopyTransition(x, h.ts[s][i]) \in CopyingList(a, h, R, s, i)
<1>0. /\ Copying(x, h, R) /\ Later(x, a, h) /\ Len(x.h.tr) = Len(a.h.tr) + (i - 1)
      /\ Len(x.new) = i - 1
      /\ \A j \in 1..(i - 1) : /\ x.new[j] = Len(a.h.tr) + j
                               /\ IsImage(x, h.tr[h.ts[s][j]], Len(a.h.tr) + j)
    BY DEF CopyingList
<1>1. PICK M \in Nat : M = Len(a.h.tr)
    BY TypedFacts DEF Copying
<1>2. PICK n \in Nat : n = Len(h.ts[s]) /\ i \in Nat
    <2>1. Len(h.ts[s]) \in Nat
        BY TypedFacts DEF Sound
    <2> QED
        BY <2>1
<1>3. PICK t \in 1..Len(h.tr) : t = h.ts[s][i] /\ h.tr[t].from \in R /\ h.tr[t].to \in R
    <2>1. s \in Places(h)
        OBVIOUS
    <2>2. h.ts[s][i] \in Range(h.ts[s])
        BY <2>1, SoundFacts
    <2>3. h.ts[s][i] \in 1..Len(h.tr) /\ h.tr[h.ts[s][i]].from = s
        BY <2>1, <2>2, SoundFacts
    <2>4. h.tr[h.ts[s][i]].to \in R
        BY <2>2 DEF Closed
    <2> QED
        BY <2>3, <2>4
<1>4. PICK b : b = CopyTransition(x, t) /\ IsCopyTransition(b, x, h, R, t)
    BY <1>0, <1>3, CopyTransitionFacts
<1>5. /\ Copying(b, h, R) /\ Later(b, x, h) /\ b.new = Append(x.new, M + i) /\ Len(b.h.tr) = M + i
      /\ IsImage(b, h.tr[t], M + i)
    <2>1. Len(x.h.tr) + 1 = M + i
        BY <1>0, <1>1, <1>2
    <2> QED
        BY <1>4, <2>1 DEF IsCopyTransition
<1>6. Later(b, a, h)
    BY <1>0, <1>5, LaterAgain DEF Copying
<1>7. PICK q \in Seq(Nat) : q = x.new /\ Len(q) = i - 1
    BY <1>0, CopyingFacts
<1>8. PICK l : l = Append(q, M + i)
    OBVIOUS
<1>9. /\ l \in Seq(Nat) /\ Len(l) = i /\ l[i] = M + i /\ \A j \in 1..(i - 1) : l[j] = q[j]
    <2>1. l \in Seq(Nat)
        BY <1>1, <1>2, <1>7, <1>8, AppendFacts
    <2>2. Len(l) = Len(q) + 1
        BY <1>1, <1>2, <1>7, <1>8, AppendFacts
    <2>3. l[Len(q) + 1] = M + i
        BY <1>1, <1>2, <1>7, <1>8, AppendFacts
    <2>4. \A j \in 1..Len(q) : l[j] = q[j]
        BY <1>1, <1>2, <1>7, <1>8, AppendFacts
    <2> QED
        BY <1>2, <1>7, <2>1, <2>2, <2>3, <2>4
<1>10. ASSUME NEW j \in 1..i
       PROVE  b.new[j] = M + j /\ IsImage(b, h.tr[h.ts[s][j]], M + j)
    <2>1. CASE j = i
        BY <1>3, <1>5, <1>7, <1>8, <1>9, <2>1
    <2>2. CASE j # i
        <3>1. j \in 1..(i - 1) /\ j \in 1..Len(h.ts[s])
            BY <1>2, <2>2
        <3>2. b.new[j] = M + j
            BY <1>0, <1>1, <1>5, <1>7, <1>8, <1>9, <3>1
        <3>3. /\ h.tr[h.ts[s][j]].from \in Places(h) /\ h.tr[h.ts[s][j]].to \in Places(h)
              /\ IsImage(x, h.tr[h.ts[s][j]], M + j)
            <4>1. s \in Places(h)
                OBVIOUS
            <4>2. h.ts[s][j] \in Range(h.ts[s])
                BY <3>1, <4>1, SoundFacts
            <4>3. h.ts[s][j] \in 1..Len(h.tr) /\ h.tr[h.ts[s][j]].from = s /\ h.tr[h.ts[s][j]].to \in Places(h)
                BY <4>1, <4>2, SoundFacts
            <4>4. IsImage(x, h.tr[h.ts[s][j]], M + j)
                BY <1>0, <1>1, <3>1
            <4> QED
                BY <4>1, <4>3, <4>4
        <3>5. PICK u : u = h.tr[h.ts[s][j]] /\ u.from \in Places(h) /\ u.to \in Places(h) /\ IsImage(x, u, M + j)
            <4>1. PICK u : u = h.tr[h.ts[s][j]]
                OBVIOUS
            <4>2. u.from \in Places(h) /\ u.to \in Places(h) /\ IsImage(x, u, M + j)
                BY <3>3, <4>1
            <4> QED
                BY <4>1, <4>2, Zenon
        <3>4. IsImage(b, u, M + j)
            <4>1. Typed(x.h) /\ Typed(b.h)
                BY <1>0, <1>5 DEF Copying
            <4>2. PICK e : e = M + j
                OBVIOUS
            <4>3. IsImage(x, u, e) /\ Later(b, x, h)
                BY <1>5, <3>5, <4>2
            <4>5. u.from \in Places(h) /\ u.to \in Places(h)
                BY <3>5
            <4>4. IsImage(b, u, e)
                BY <4>1, <4>3, <4>5, LaterKeeps
            <4> QED
                BY <4>2, <4>4
        <3> QED
            BY <3>2, <3>4, <3>5
    <2> QED
        BY <2>1, <2>2
<1>11. b \in Accs(h) /\ Len(b.new) = i
    BY <1>5, <1>7, <1>8, <1>9 DEF Copying
<1> QED
    BY <1>1, <1>3, <1>4, <1>5, <1>6, <1>10, <1>11, Zenon DEF CopyingList

IsCopyList(b, a, h, R, s) ==
    Copying(b, h, R) /\ Later(b, a, h) /\ IsCopiedList(b, h, s, b.new)

LEMMA CopyListEnds ==
    ASSUME NEW h, Sound(h), NEW R \in SUBSET Places(h), NEW a, Copying(a, h, R), NEW s \in R,
           NEW x \in CopyingList(a, h, R, s, Len(h.ts[s]))
    PROVE  IsCopyList(x, a, h, R, s)
<1>1. PICK M \in Nat : M = Len(a.h.tr) /\ Len(h.tr) <= M
    BY TypedFacts DEF Copying, Grown
<1>2. PICK n \in Nat : n = Len(h.ts[s])
    BY TypedFacts DEF Sound
<1>3. PICK l \in Seq(Nat) : /\ l = x.new /\ Len(l) = n
                            /\ \A j \in 1..n : l[j] = M + j /\ IsImage(x, h.tr[h.ts[s][j]], M + j)
    BY <1>1, <1>2 DEF CopyingList, Accs
<1>4. IsInjective(l)
    <2>1. \A i, j \in 1..n : l[i] = l[j] => i = j
        BY <1>3
    <2>2. DOMAIN l = 1..n
        BY <1>3
    <2> QED
        BY <2>1, <2>2 DEF IsInjective
<1>5. \A j \in 1..n : l[j] \notin 1..Len(h.tr)
    <2>1. PICK m \in Nat : m = Len(h.tr) /\ m <= M
        BY <1>1, TypedFacts DEF Sound
    <2>2. \A j \in 1..n : ~(M + j \in 1..m)
        BY <2>1
    <2> QED
        BY <1>3, <2>1, <2>2
<1>6. IsCopiedList(x, h, s, l)
    BY <1>2, <1>3, <1>4, <1>5 DEF IsCopiedList
<1> QED
    BY <1>3, <1>6 DEF CopyingList, IsCopyList

LEMMA CopyTransitionsFacts ==
    ASSUME NEW h, Sound(h), NEW R \in SUBSET Places(h), Closed(h, R), NEW a, Copying(a, h, R), NEW s \in R
    PROVE  IsCopyList(CopyTransitions(a, h.ts[s]), a, h, R, s)
<1> DEFINE ts == h.ts[s]
           n == Len(ts)
           Step(x, i) == CopyTransition(x, ts[i])
           P == [i \in 0..n |-> CopyingList(a, h, R, s, i)]
           g == [i \in 1..n |-> [x \in P[i - 1] |-> Step(x, i)]]
           Right(u) == u = [i \in 0..n |-> IF i = 0 THEN [h |-> a.h, map |-> a.map, new |-> <<>>]
                              ELSE Step(u[i - 1], i)]
           Until == CHOOSE u : Right(u)
<1>n. n \in Nat
    BY TypedFacts DEF Sound
<1>0. n \in Nat /\ \A i \in 1..n : i \in 0..n /\ i - 1 \in 0..n /\ i # 0
    BY <1>n
<1>1. [h |-> a.h, map |-> a.map, new |-> <<>>] \in P[0]
    BY <1>0, CopyListStarts DEF P
<1>2. ASSUME NEW i \in 1..n, NEW x \in P[i - 1]
      PROVE  Step(x, i) \in P[i]
    BY <1>0, <1>2, CopyListGoesOn DEF P
<1>3. \A i \in 1..n : \A x \in P[i - 1] : g[i][x] = Step(x, i)
    OBVIOUS
<1>a. Turns(n, P, g)
    <2> HIDE DEF P, g, Step
    <2> QED
        BY <1>2, <1>3 DEF Turns
<1> HIDE DEF P, g
<1>4. PICK u : IsLoop(u, n, [h |-> a.h, map |-> a.map, new |-> <<>>], P, g)
    BY <1>0, <1>1, <1>a, LoopExists
<1>5. Right(u)
    <2> HIDE DEF Step
    <2>1. u = [i \in 0..n |-> IF i = 0 THEN [h |-> a.h, map |-> a.map, new |-> <<>>] ELSE g[i][u[i - 1]]]
        BY <1>4 DEF IsLoop
    <2>2. \A i \in 1..n : g[i][u[i - 1]] = Step(u[i - 1], i)
        BY <1>0, <1>3, <1>4 DEF IsLoop
    <2>3. \A i \in 0..n : i # 0 => i \in 1..n
        BY <1>0
    <2> QED
        BY <2>1, <2>2, <2>3
<1>6. Right(Until)
    BY <1>5
<1>7. CopyTransitions(a, h.ts[s]) = Until[n]
    BY <1>6 DEF CopyTransitions
<1> HIDE DEF Until
<1>8. \A i \in 0..n : Until[i] \in P[i]
    <2>1. \A i \in 0..n : Until[i] = IF i = 0 THEN [h |-> a.h, map |-> a.map, new |-> <<>>] ELSE Step(Until[i - 1], i)
        BY <1>6
    <2>2. Until[0] = [h |-> a.h, map |-> a.map, new |-> <<>>] /\ \A i \in 1..n : Until[i] = Step(Until[i - 1], i)
        BY <1>0, <2>1
    <2>3. \A i \in 1..n : Until[i - 1] \in P[i - 1] => Until[i] \in P[i]
        <3> HIDE DEF Step
        <3> QED
            BY <1>2, <2>2
    <2> HIDE DEF Step
    <2> QED
        BY <1>0, <1>1, <2>2, <2>3, TurnByTurn
<1>9. Until[n] \in P[n] /\ n \in 0..n
    BY <1>0, <1>8
<1> QED
    BY <1>7, <1>9, CopyListEnds DEF P

LEMMA LaterKeepsList ==
    ASSUME NEW h, Sound(h), NEW a, NEW b, Typed(a.h), Typed(b.h), Later(b, a, h),
           NEW s \in Places(h), NEW list, IsCopiedList(a, h, s, list)
    PROVE  IsCopiedList(b, h, s, list)
<1>1. ASSUME NEW i \in 1..Len(list)
      PROVE  IsImage(b, h.tr[h.ts[s][i]], list[i])
    <2>1. i \in 1..Len(h.ts[s]) /\ IsImage(a, h.tr[h.ts[s][i]], list[i])
        BY DEF IsCopiedList
    <2>2. h.ts[s][i] \in Range(h.ts[s])
        BY <2>1, SoundFacts
    <2>3. PICK u : u = h.tr[h.ts[s][i]] /\ u.from \in Places(h) /\ u.to \in Places(h)
        BY <2>2, SoundFacts
    <2>4. PICK t : t = list[i] /\ IsImage(a, u, t)
        BY <2>1, <2>3
    <2>5. IsImage(b, u, t)
        BY <2>3, <2>4, LaterKeeps
    <2> QED
        BY <2>3, <2>4, <2>5
<1> QED
    BY <1>1 DEF IsCopiedList

\* A turn of Automata.copy: the transitions of s are copied, then s itself.
IsCopyOne(b, a, h, R, s) ==
    /\ Copying(b, h, R) /\ Finished(b, h, s)
    /\ \A r \in R : r # s /\ Finished(a, h, r) => Finished(b, h, r)

LEMMA CopyOneFacts ==
    ASSUME NEW h, Sound(h), NEW R \in SUBSET Places(h), Closed(h, R), NEW a, Copying(a, h, R), NEW s \in R
    PROVE  IsCopyOne(CopyOne(a, s), a, h, R, s)
<1>1. a.h.ts[s] = h.ts[s] /\ s \in Places(h)
    BY CopyingFacts
<1>2. PICK x : x = CopyTransitions(a, h.ts[s]) /\ IsCopyList(x, a, h, R, s)
    BY CopyTransitionsFacts
<1>3. Copying(x, h, R) /\ Later(x, a, h) /\ IsCopiedList(x, h, s, x.new)
    BY <1>2 DEF IsCopyList
<1>4. PICK y : y = CopyState(x, s) /\ IsCopyState(y, x, h, R, s)
    BY <1>3, CopyStateFacts
<1>5. Copying(y, h, R) /\ Later(y, x, h) /\ y.map[s] # NoState /\ y.new = x.new
    BY <1>4 DEF IsCopyState
<1>6. Typed(a.h) /\ Typed(x.h) /\ Typed(y.h) /\ CopyMaps(y, h, R) /\ CopyLeads(y, h) /\ Grown(y.h, h)
    BY <1>3, <1>5 DEF Copying
<1>7. Later(y, a, h)
    BY <1>3, <1>5, <1>6, LaterAgain
<1>8. PICK l \in Seq(Nat) : l = y.new /\ IsCopiedList(y, h, s, l)
    <2>1. IsCopiedList(y, h, s, x.new)
        BY <1>1, <1>3, <1>5, <1>6, LaterKeepsList
    <2> QED
        BY <1>5, <2>1 DEF IsCopiedList
<1>9. PICK p \in Places(y.h) : p = y.map[s] /\ p \notin Places(h) /\ p # NoState
    BY <1>1, <1>5, <1>6 DEF CopyMaps
<1>10. PICK k : k = SetTransitions(y.h, p, l)
    OBVIOUS
<1>11. /\ Typed(k) /\ k.name = y.h.name /\ k.tr = y.h.tr /\ Places(k) = Places(y.h)
       /\ k.ts[p] = l /\ \A r \in Places(y.h) : r # p => k.ts[r] = y.h.ts[r]
    BY <1>6, <1>10, SetTransitionsFacts
<1>12. PICK b : b = CopyOne(a, s) /\ b = [h |-> k, map |-> y.map, new |-> l]
    BY <1>1, <1>2, <1>4, <1>8, <1>9, <1>10 DEF CopyOne
<1>13. b.h = k /\ b.map = y.map /\ b.new = l /\ b \in Accs(h)
    <2>1. k \in [name : Seq(Names), ts : Seq(Seq(Nat)), tr : Seq(Arcs)]
        BY <1>11 DEF Typed
    <2>2. y.map \in [Places(h) -> Nat]
        BY <1>5, CopyingFacts
    <2> QED
        BY <1>12, <2>1, <2>2 DEF Accs
<1>14. Grown(k, h)
    <2>1. Places(h) \subseteq Places(y.h)
        BY <1>5, CopyingFacts
    <2> QED
        BY <1>6, <1>9, <1>11, <2>1 DEF Grown
<1>15. Copying(b, h, R)
    <2>1. CopyMaps(b, h, R)
        BY <1>6, <1>11, <1>13 DEF CopyMaps
    <2>2. CopyLeads(b, h)
        BY <1>6, <1>11, <1>13 DEF CopyLeads
    <2> QED
        BY <1>11, <1>13, <1>14, <2>1, <2>2 DEF Copying
<1>16. \A r, list : IsCopiedList(y, h, r, list) => IsCopiedList(b, h, r, list)
    <2>1. \A u, t : IsImage(y, u, t) => IsImage(b, u, t)
        BY <1>11, <1>13 DEF IsImage
    <2> QED
        BY <2>1 DEF IsCopiedList
<1>17. Finished(b, h, s)
    BY <1>8, <1>9, <1>11, <1>13, <1>16 DEF Finished
<1>18. ASSUME NEW r \in R, r # s, Finished(a, h, r)
       PROVE  Finished(b, h, r)
    <2>1. a.map[r] # NoState /\ y.map[r] = a.map[r] /\ r \in Places(h)
        BY <1>7, <1>18 DEF Finished, Later
    <2>2. PICK q : q = a.map[r] /\ q \in Places(a.h) /\ q # p
        BY <1>1, <1>6, <1>9, <1>18, <2>1 DEF Copying, CopyMaps
    <2>3. y.h.ts[q] = a.h.ts[q] /\ q \in Places(y.h)
        <3>1. y.h.ts[q] = a.h.ts[q]
            BY <1>7, <2>2 DEF Later, Grown
        <3>2. q \in Places(y.h)
            BY <1>6, <2>1, <2>2 DEF CopyMaps
        <3> QED
            BY <3>1, <3>2
    <2>4. IsCopiedList(y, h, r, a.h.ts[q])
        <3>1. IsCopiedList(a, h, r, a.h.ts[q])
            BY <1>18, <2>2 DEF Finished
        <3> QED
            BY <1>6, <1>7, <2>1, <3>1, LaterKeepsList
    <2>5. b.h.ts[q] = a.h.ts[q]
        BY <1>11, <1>13, <2>2, <2>3
    <2> QED
        BY <1>13, <1>16, <2>1, <2>2, <2>4, <2>5 DEF Finished
<1> QED
    BY <1>12, <1>15, <1>17, <1>18 DEF IsCopyOne

\* Automata.copy.
IsCopy(x, h, s0) == Copying(x, h, Reach(h, s0)) /\ \A s \in Reach(h, s0) : Finished(x, h, s)

LEMMA CopyStarts ==
    ASSUME NEW h, Sound(h), NEW R \in SUBSET Places(h)
    PROVE  Copying([h |-> h, map |-> [s \in 1..Len(h.name) |-> NoState], new |-> <<>>], h, R)
<1>1. PICK a : a = [h |-> h, map |-> [s \in 1..Len(h.name) |-> NoState], new |-> <<>>]
    OBVIOUS
<1>2. Places(h) = 1..Len(h.name) /\ Typed(h) /\ Grown(h, h)
    BY GrownItself DEF Places, Sound
<1>3. a.h = h /\ a.map = [s \in Places(h) |-> NoState] /\ a.new = <<>>
    BY <1>1, <1>2
<1>4. a \in Accs(h)
    <2>1. <<>> \in Seq(Nat) /\ [s \in Places(h) |-> NoState] \in [Places(h) -> Nat]
        BY DEF NoState
    <2>2. h \in [name : Seq(Names), ts : Seq(Seq(Nat)), tr : Seq(Arcs)]
        BY <1>2 DEF Typed
    <2> QED
        BY <1>1, <1>2, <2>1, <2>2 DEF Accs
<1>5. CopyMaps(a, h, R) /\ CopyLeads(a, h)
    BY <1>3 DEF CopyMaps, CopyLeads
<1> QED
    BY <1>1, <1>2, <1>3, <1>4, <1>5 DEF Copying

LEMMA CopyOfFacts ==
    ASSUME NEW h, Sound(h), NEW s0 \in Places(h)
    PROVE  IsCopy(CopyOf(h, s0), h, s0)
<1> DEFINE states == GetStates(h, s0)
           R == Reach(h, s0)
           n == Len(states)
           Step(x, i) == CopyOne(x, states[i])
           P == [i \in 0..n |-> {x \in Accs(h) : Copying(x, h, R) /\ \A j \in 1..i : Finished(x, h, states[j])}]
           g == [i \in 1..n |-> [x \in P[i - 1] |-> Step(x, i)]]
           Right(u) == u = [i \in 0..n |-> IF i = 0 THEN [h |-> h, map |-> [s \in 1..Len(h.name) |-> NoState], new |-> <<>>]
                              ELSE Step(u[i - 1], i)]
           Until == CHOOSE u : Right(u)
<1>r. /\ states \in Seq(Places(h)) /\ IsInjective(states) /\ n \in Nat /\ DOMAIN states = 1..n
      /\ R = Range(states) /\ R \in SUBSET Places(h) /\ Closed(h, R) /\ s0 \in R
      /\ \A j \in 1..n : states[j] \in R
    <2>1. states \in Seq(Places(h)) /\ IsInjective(states) /\ IsReach(h, s0, R) /\ R = Range(states)
        BY GetStatesFacts DEF Reach
    <2> HIDE DEF states, R
    <2>2. n \in Nat /\ DOMAIN states = 1..n /\ \A j \in 1..n : states[j] \in R
        BY <2>1, SequenceFacts
    <2> QED
        BY <2>1, <2>2 DEF IsReach
<1>0. n \in Nat /\ \A i \in 1..n : i \in 0..n /\ i - 1 \in 0..n /\ i # 0
    BY <1>r
<1>1. [h |-> h, map |-> [s \in 1..Len(h.name) |-> NoState], new |-> <<>>] \in P[0]
    <2>1. PICK b : b = [h |-> h, map |-> [s \in 1..Len(h.name) |-> NoState], new |-> <<>>]
        OBVIOUS
    <2>2. Copying(b, h, R)
        BY <1>r, <2>1, CopyStarts
    <2>3. b \in Accs(h)
        BY <2>2 DEF Copying
    <2>4. b \in P[0]
        BY <1>0, <2>2, <2>3 DEF P
    <2> QED
        BY <2>1, <2>4
<1>2. ASSUME NEW i \in 1..n, NEW x \in P[i - 1]
      PROVE  Step(x, i) \in P[i]
    <2>1. Copying(x, h, R) /\ \A j \in 1..(i - 1) : Finished(x, h, states[j])
        BY <1>0, <1>2 DEF P
    <2>2. states[i] \in R /\ \A j \in 1..(i - 1) : states[j] \in R /\ states[j] # states[i]
        <3>1. \A j \in 1..(i - 1) : j \in 1..n /\ j # i
            BY <1>0
        <3>2. \A j \in 1..n : states[j] \in R
            BY <1>r
        <3>3. \A j, k \in 1..n : states[j] = states[k] => j = k
            BY <1>r DEF IsInjective
        <3> QED
            BY <3>1, <3>2, <3>3
    <2>3. PICK e \in R : e = states[i]
        BY <2>2
    <2>4. IsCopyOne(CopyOne(x, e), x, h, R, e)
        BY <1>r, <2>1, CopyOneFacts
    <2>5. PICK b : b = Step(x, i) /\ IsCopyOne(b, x, h, R, e)
        BY <2>3, <2>4
    <2> HIDE DEF Step
    <2>6. \A j \in 1..i : Finished(b, h, states[j])
        <3>1. \A j \in 1..i : j \in 1..(i - 1) \/ j = i
            BY <1>0
        <3> QED
            BY <2>1, <2>2, <2>3, <2>5, <3>1 DEF IsCopyOne
    <2>7. Copying(b, h, R) /\ b \in Accs(h)
        BY <2>5 DEF IsCopyOne, Copying
    <2> QED
        BY <1>0, <2>5, <2>6, <2>7 DEF P
<1>3. \A i \in 1..n : \A x \in P[i - 1] : g[i][x] = Step(x, i)
    OBVIOUS
<1>a. Turns(n, P, g)
    <2> HIDE DEF P, g, Step
    <2> QED
        BY <1>2, <1>3 DEF Turns
<1> HIDE DEF P, g
<1>4. PICK u : IsLoop(u, n, [h |-> h, map |-> [s \in 1..Len(h.name) |-> NoState], new |-> <<>>], P, g)
    BY <1>0, <1>1, <1>a, LoopExists
<1>5. Right(u)
    <2> HIDE DEF Step
    <2>1. u = [i \in 0..n |-> IF i = 0 THEN [h |-> h, map |-> [s \in 1..Len(h.name) |-> NoState], new |-> <<>>] ELSE g[i][u[i - 1]]]
        BY <1>4 DEF IsLoop
    <2>2. \A i \in 1..n : g[i][u[i - 1]] = Step(u[i - 1], i)
        BY <1>0, <1>3, <1>4 DEF IsLoop
    <2>3. \A i \in 0..n : i # 0 => i \in 1..n
        BY <1>0
    <2> QED
        BY <2>1, <2>2, <2>3
<1>6. Right(Until)
    BY <1>5
<1>7. CopyOf(h, s0) = Until[n]
    BY <1>6 DEF CopyOf
<1> HIDE DEF Until
<1>8. \A i \in 0..n : Until[i] \in P[i]
    <2>1. \A i \in 0..n : Until[i] = IF i = 0 THEN [h |-> h, map |-> [s \in 1..Len(h.name) |-> NoState], new |-> <<>>] ELSE Step(Until[i - 1], i)
        BY <1>6
    <2>2. Until[0] = [h |-> h, map |-> [s \in 1..Len(h.name) |-> NoState], new |-> <<>>] /\ \A i \in 1..n : Until[i] = Step(Until[i - 1], i)
        BY <1>0, <2>1, SMTT(30)
    <2>3. \A i \in 1..n : Until[i - 1] \in P[i - 1] => Until[i] \in P[i]
        <3> HIDE DEF Step
        <3> QED
            BY <1>2, <2>2
    <2> HIDE DEF Step
    <2> QED
        BY <1>0, <1>1, <2>2, <2>3, TurnByTurn
<1>9. Until[n] \in P[n] /\ n \in 0..n
    BY <1>0, <1>8
<1>b. \A s \in R : \E j \in 1..n : s = states[j]
    BY <1>r, SequenceFacts
<1> HIDE DEF n, R, states
<1>c. Until[n] \in {x \in Accs(h) : Copying(x, h, R) /\ \A j \in 1..n : Finished(x, h, states[j])}
    BY <1>9 DEF P
<1> QED
    BY <1>7, <1>b, <1>c DEF IsCopy, R

IsCopiedArc(x, h, s0, s, t, u) ==
    /\ t \in 1..Len(x.h.tr) /\ t \notin 1..Len(h.tr)
    /\ u.from = s /\ u.to \in Reach(h, s0)
    /\ x.h.tr[t] = [kind |-> u.kind, from |-> x.map[s], to |-> x.map[u.to], in |-> u.in, out |-> u.out]
IsCopiedState(x, h, s0, s) ==
    /\ x.map[s] \in Places(x.h) /\ x.map[s] \notin Places(h) /\ s \in Places(h)
    /\ x.h.name[x.map[s]] = h.name[s]
    /\ x.h.ts[x.map[s]] \in Seq(Nat) /\ IsInjective(x.h.ts[x.map[s]])
    /\ Len(x.h.ts[x.map[s]]) = Len(h.ts[s]) /\ Len(h.ts[s]) \in Nat
    /\ \A i \in 1..Len(h.ts[s]) :
         IsCopiedArc(x, h, s0, s, x.h.ts[x.map[s]][i], h.tr[h.ts[s][i]])

\* The copy of a state that is done, and the copies of its transitions.
LEMMA CopiedState ==
    ASSUME NEW h, Sound(h), NEW s0 \in Places(h), NEW x, IsCopy(x, h, s0), NEW s \in Reach(h, s0)
    PROVE  IsCopiedState(x, h, s0, s)
<1>1. IsReach(h, s0, Reach(h, s0))
    BY ReachFacts
<1>2. s \in Places(h) /\ Closed(h, Reach(h, s0))
    BY <1>1 DEF IsReach
<1>3. x.map[s] # NoState /\ IsCopiedList(x, h, s, x.h.ts[x.map[s]])
    BY DEF IsCopy, Finished
<1>4. CopyMaps(x, h, Reach(h, s0))
    BY DEF IsCopy, Copying
<1>5. /\ x.map[s] \in Places(x.h) /\ x.map[s] \notin Places(h) /\ x.h.name[x.map[s]] = h.name[s]
    BY <1>2, <1>3, <1>4, SMTT(30) DEF CopyMaps
<1>6. PICK l \in Seq(Nat) : l = x.h.ts[x.map[s]] /\ IsCopiedList(x, h, s, l) /\ Len(l) = Len(h.ts[s])
    BY <1>3 DEF IsCopiedList
<1>7. ASSUME NEW i \in 1..Len(h.ts[s])
      PROVE  IsCopiedArc(x, h, s0, s, l[i], h.tr[h.ts[s][i]])
    <2>1. h.ts[s][i] \in Range(h.ts[s])
        BY <1>2, SoundFacts
    <2>2. h.tr[h.ts[s][i]].from = s /\ h.tr[h.ts[s][i]].to \in Reach(h, s0)
        BY <1>2, <2>1, SoundFacts, SMTT(30) DEF Closed
    <2>3. l[i] \notin 1..Len(h.tr) /\ IsImage(x, h.tr[h.ts[s][i]], l[i])
        BY <1>6 DEF IsCopiedList
    <2> QED
        BY <2>2, <2>3 DEF IsImage, IsCopiedArc
<1>8. Len(h.ts[s]) \in Nat
    BY <1>2, TypedFacts, SMTT(30) DEF Sound
<1>9. IsInjective(l)
    BY <1>6 DEF IsCopiedList
<1> QED
    BY <1>2, <1>5, <1>6, <1>7, <1>8, <1>9 DEF IsCopiedState

LEMMA CopySound ==
    ASSUME NEW h, Sound(h), NEW s0 \in Places(h), NEW x, IsCopy(x, h, s0)
    PROVE  Sound(x.h) /\ Grown(x.h, h)
<1>1. /\ Typed(x.h) /\ Grown(x.h, h) /\ CopyMaps(x, h, Reach(h, s0)) /\ CopyLeads(x, h)
      /\ Copying(x, h, Reach(h, s0))
    BY DEF IsCopy, Copying
<1>2. /\ Places(h) \subseteq Places(x.h) /\ 1..Len(h.tr) \subseteq 1..Len(x.h.tr)
      /\ \A t \in 1..Len(h.tr) : x.h.tr[t] = h.tr[t]
      /\ \A s \in Places(h) : x.h.ts[s] = h.ts[s]
    BY <1>1, CopyingFacts
<1>3. ArcsLead(x.h)
    BY <1>1, <1>2 DEF ArcsLead, CopyLeads, Sound
<1>4. ASSUME NEW p \in Places(x.h) PROVE Lists(x.h, p)
    <2>1. CASE p \in Places(h)
        BY <1>2, <2>1 DEF Sound, Lists
    <2>2. CASE p \notin Places(h)
        <3>1. PICK s \in Reach(h, s0) : x.map[s] = p
            BY <1>1, <2>2 DEF CopyMaps
        <3>0. IsCopiedState(x, h, s0, s)
            BY CopiedState
        <3>2. PICK l \in Seq(Nat) : l = x.h.ts[p] /\ IsInjective(l) /\ DOMAIN l = 1..Len(h.ts[s])
            BY <3>0, <3>1 DEF IsCopiedState
        <3>3. \A i \in 1..Len(h.ts[s]) : l[i] \in 1..Len(x.h.tr) /\ x.h.tr[l[i]].from = p
            <4>1. ASSUME NEW i \in 1..Len(h.ts[s])
                  PROVE  l[i] \in 1..Len(x.h.tr) /\ x.h.tr[l[i]].from = p
                <5>1. IsCopiedArc(x, h, s0, s, x.h.ts[x.map[s]][i], h.tr[h.ts[s][i]])
                    BY <3>0 DEF IsCopiedState
                <5>2. PICK t, u : t = l[i] /\ IsCopiedArc(x, h, s0, s, t, u)
                    BY <3>1, <3>2, <5>1, Zenon
                <5>3. t \in 1..Len(x.h.tr) /\ x.h.tr[t].from = x.map[s]
                    BY <5>2 DEF IsCopiedArc
                <5> QED
                    BY <3>1, <5>2, <5>3
            <4> QED
                BY <4>1
        <3> QED
            BY <3>2, <3>3, SMTT(30) DEF Lists, Range
    <2> QED
        BY <2>1, <2>2
<1> QED
    BY <1>1, <1>3, <1>4 DEF Sound

LEMMA CopyReach ==
    ASSUME NEW h, Sound(h), NEW s0 \in Places(h), NEW x, IsCopy(x, h, s0)
    PROVE  /\ x.map[s0] \in Places(x.h)
           /\ Reach(x.h, x.map[s0]) = {x.map[s] : s \in Reach(h, s0)}
<1> DEFINE R == Reach(h, s0)
           D == {x.map[s] : s \in R}
<1>1. IsReach(h, s0, R)
    BY ReachFacts
<1> HIDE DEF R
<1>2. s0 \in R /\ R \subseteq Places(h) /\ Closed(h, R)
    BY <1>1 DEF IsReach
<1>3. Sound(x.h)
    BY CopySound
<1>4. ASSUME NEW s \in R
      PROVE  Ends1(x.h, x.map[s]) = {x.map[h.tr[t].to] : t \in Range(h.ts[s])}
    <2>0. IsCopiedState(x, h, s0, s)
        BY CopiedState DEF R
    <2>1. PICK l \in Seq(Nat) : l = x.h.ts[x.map[s]] /\ DOMAIN l = 1..Len(h.ts[s])
        BY <2>0 DEF IsCopiedState
    <2>2. PICK q \in Seq(Nat) : q = h.ts[s] /\ DOMAIN q = 1..Len(h.ts[s])
        BY <1>2, TypedFacts DEF Sound
    <2>3. \A i \in 1..Len(h.ts[s]) : x.h.tr[l[i]].to = x.map[h.tr[q[i]].to]
        <3>1. ASSUME NEW i \in 1..Len(h.ts[s])
              PROVE  x.h.tr[l[i]].to = x.map[h.tr[q[i]].to]
            <4>1. IsCopiedArc(x, h, s0, s, x.h.ts[x.map[s]][i], h.tr[h.ts[s][i]])
                BY <2>0 DEF IsCopiedState
            <4>2. PICK t, u : t = l[i] /\ u = h.tr[q[i]] /\ IsCopiedArc(x, h, s0, s, t, u)
                BY <2>1, <2>2, <4>1, Zenon
            <4>3. x.h.tr[t].to = x.map[u.to]
                BY <4>2, SMTT(30) DEF IsCopiedArc
            <4> QED
                BY <4>2, <4>3
        <3> QED
            BY <3>1
    <2>4. Ends1(x.h, x.map[s]) = {x.h.tr[l[i]].to : i \in 1..Len(h.ts[s])}
        BY <2>1, Zenon DEF Ends1, Range
    <2>5. {x.map[h.tr[t].to] : t \in Range(h.ts[s])} = {x.map[h.tr[q[i]].to] : i \in 1..Len(h.ts[s])}
        BY <2>2 DEF Range
    <2>6. {x.h.tr[l[i]].to : i \in 1..Len(h.ts[s])} = {x.map[h.tr[q[i]].to] : i \in 1..Len(h.ts[s])}
        <3>1. PICK f : f = [i \in 1..Len(h.ts[s]) |-> x.h.tr[l[i]].to]
            OBVIOUS
        <3>2. f = [i \in 1..Len(h.ts[s]) |-> x.map[h.tr[q[i]].to]]
            BY <2>3, <3>1
        <3>3. {x.h.tr[l[i]].to : i \in 1..Len(h.ts[s])} = {f[i] : i \in 1..Len(h.ts[s])}
            BY <3>1
        <3>4. {x.map[h.tr[q[i]].to] : i \in 1..Len(h.ts[s])} = {f[i] : i \in 1..Len(h.ts[s])}
            BY <3>2
        <3> QED
            BY <3>3, <3>4
    <2> QED
        BY <2>4, <2>5, <2>6, Zenon
<1>5. Closed(x.h, D)
    <2>1. ASSUME NEW s \in R, NEW t \in Range(x.h.ts[x.map[s]])
          PROVE  x.h.tr[t].to \in D
        <3>1. x.h.tr[t].to \in Ends1(x.h, x.map[s])
            BY DEF Ends1
        <3>2. PICK r \in Range(h.ts[s]) : x.h.tr[t].to = x.map[h.tr[r].to]
            BY <1>4, <3>1
        <3>3. h.tr[r].to \in R
            BY <1>2 DEF Closed
        <3> QED
            BY <3>2, <3>3
    <2> QED
        BY <2>1 DEF Closed
<1>6. ASSUME NEW C, x.map[s0] \in C, Closed(x.h, C)
      PROVE  D \subseteq C
    <2> DEFINE S == {s \in R : x.map[s] \in C}
    <2>1. ASSUME NEW s \in S, NEW t \in Range(h.ts[s])
          PROVE  h.tr[t].to \in S
        <3>1. x.map[h.tr[t].to] \in Ends1(x.h, x.map[s])
            BY <1>4
        <3>2. Ends1(x.h, x.map[s]) \subseteq C
            BY <1>6 DEF Closed, Ends1
        <3>3. h.tr[t].to \in R
            BY <1>2 DEF Closed
        <3> QED
            BY <3>1, <3>2, <3>3
    <2>2. Closed(h, S)
        <3> HIDE DEF S
        <3> QED
            BY <2>1 DEF Closed
    <2>3. s0 \in S
        BY <1>2, <1>6
    <2>4. R \subseteq S
        <3> HIDE DEF S
        <3> QED
            BY <1>1, <2>2, <2>3 DEF IsReach
    <2> QED
        BY <2>4
<1>7. \A s \in R : x.map[s] \in Places(x.h)
    BY CopiedState DEF R, IsCopiedState
<1>8. IsReach(x.h, x.map[s0], D)
    BY <1>2, <1>5, <1>6, <1>7 DEF IsReach
<1>9. x.map[s0] \in Places(x.h)
    BY <1>2, <1>7
<1>10. Reach(x.h, x.map[s0]) = D
    <2> HIDE DEF D
    <2>1. IsReach(x.h, x.map[s0], Reach(x.h, x.map[s0]))
        BY <1>3, <1>9, ReachFacts
    <2> QED
        BY <1>8, <2>1, ReachIsUnique
<1> QED
    BY <1>9, <1>10 DEF R

\* A copy says what its original says, of objects of its own.
IsFaithful(k, d, h, s0) ==
    /\ Sound(k) /\ Grown(k, h) /\ d \in Places(k)
    /\ k.name[d] = h.name[s0]
    /\ Outline(k, d) = Outline(h, s0)
    /\ Reach(k, d) \cap Places(h) = {}
    /\ Objects(k, d) \cap (1..Len(h.tr)) = {}

LEMMA CopyIsFaithful ==
    ASSUME NEW h, Sound(h), NEW s0 \in Places(h)
    PROVE  IsFaithful(CopyOf(h, s0).h, CopyOf(h, s0).map[s0], h, s0)
<1>1. PICK x : x = CopyOf(h, s0) /\ IsCopy(x, h, s0)
    BY CopyOfFacts
<1> DEFINE R == Reach(h, s0)
           d == x.map[s0]
           k == x.h
<1>2. Sound(k) /\ Grown(k, h)
    BY <1>1, CopySound
<1>3. d \in Places(k) /\ Reach(k, d) = {x.map[s] : s \in R}
    BY <1>1, CopyReach
<1>4. s0 \in R /\ R \subseteq Places(h)
    BY ReachFacts DEF IsReach
<1>a. \A s \in R : IsCopiedState(x, h, s0, s)
    BY <1>1, CopiedState
<1>5. k.name[d] = h.name[s0]
    BY <1>4, <1>a DEF IsCopiedState
<1>6. Reach(k, d) \cap Places(h) = {}
    BY <1>3, <1>a, SMTT(30) DEF IsCopiedState
<1>7. ASSUME NEW s \in R
      PROVE  /\ \A i \in 1..Len(h.ts[s]) : Edge(k, k.ts[x.map[s]][i]) = Edge(h, h.ts[s][i])
             /\ Range(k.ts[x.map[s]]) \cap (1..Len(h.tr)) = {}
             /\ Len(k.ts[x.map[s]]) = Len(h.ts[s])
    <2>1. PICK l \in Seq(Nat) : l = k.ts[x.map[s]] /\ DOMAIN l = 1..Len(h.ts[s]) /\ Len(l) = Len(h.ts[s])
        BY <1>a, SMTT(30) DEF IsCopiedState
    <2>2. ASSUME NEW i \in 1..Len(h.ts[s])
          PROVE  l[i] \notin 1..Len(h.tr) /\ Edge(k, l[i]) = Edge(h, h.ts[s][i])
        <3>0. PICK t, u : t = l[i] /\ u = h.tr[h.ts[s][i]] /\ IsCopiedArc(x, h, s0, s, t, u)
            <4>1. IsCopiedArc(x, h, s0, s, k.ts[x.map[s]][i], h.tr[h.ts[s][i]])
                BY <1>a DEF IsCopiedState
            <4> QED
                BY <2>1, <4>1, Zenon
        <3>1. /\ t \notin 1..Len(h.tr) /\ u.from = s /\ u.to \in R
              /\ k.tr[t].kind = u.kind /\ k.tr[t].from = x.map[s] /\ k.tr[t].to = x.map[u.to]
              /\ k.tr[t].in = u.in /\ k.tr[t].out = u.out
            BY <3>0 DEF IsCopiedArc
        <3>2. k.name[x.map[s]] = h.name[s] /\ k.name[x.map[u.to]] = h.name[u.to]
            BY <1>a, <3>1 DEF IsCopiedState
        <3> HIDE DEF R, k
        <3> QED
            BY <3>0, <3>1, <3>2, Zenon DEF Edge
    <2> QED
        BY <2>1, <2>2 DEF Range
<1> HIDE DEF R, k, d
<1>8. \A s \in R : k.name[x.map[s]] = h.name[s]
    BY <1>a DEF IsCopiedState, k
<1>9. Outline(k, d) = Outline(h, s0)
    <2>1. \A s \in R : [i \in 1..Len(k.ts[x.map[s]]) |-> Edge(k, k.ts[x.map[s]][i])]
                         = [i \in 1..Len(h.ts[s]) |-> Edge(h, h.ts[s][i])]
        BY <1>7
    <2>2. Outline(k, d) = {<<k.name[p], [i \in 1..Len(k.ts[p]) |-> Edge(k, k.ts[p][i])]>> : p \in {x.map[s] : s \in R}}
        BY <1>3 DEF Outline
    <2>3. Outline(k, d) = {<<k.name[x.map[s]], [i \in 1..Len(k.ts[x.map[s]]) |-> Edge(k, k.ts[x.map[s]][i])]>> : s \in R}
        BY <2>2
    <2>4. Outline(h, s0) = {<<h.name[s], [i \in 1..Len(h.ts[s]) |-> Edge(h, h.ts[s][i])]>> : s \in R}
        BY DEF Outline, R
    <2>5. PICK f, g : /\ f = [s \in R |-> <<k.name[x.map[s]], [i \in 1..Len(k.ts[x.map[s]]) |-> Edge(k, k.ts[x.map[s]][i])]>>]
                      /\ g = [s \in R |-> <<h.name[s], [i \in 1..Len(h.ts[s]) |-> Edge(h, h.ts[s][i])]>>]
        OBVIOUS
    <2>6. ASSUME NEW s \in R PROVE f[s] = g[s]
        <3>1. f[s] = <<k.name[x.map[s]], [i \in 1..Len(k.ts[x.map[s]]) |-> Edge(k, k.ts[x.map[s]][i])]>>
            BY <2>5
        <3>2. g[s] = <<h.name[s], [i \in 1..Len(h.ts[s]) |-> Edge(h, h.ts[s][i])]>>
            BY <2>5
        <3> QED
            BY <1>8, <2>1, <3>1, <3>2, Zenon
    <2>7. Outline(k, d) = {f[s] : s \in R}
        BY <2>3, <2>5
    <2>8. Outline(h, s0) = {g[s] : s \in R}
        BY <2>4, <2>5
    <2> QED
        BY <2>6, <2>7, <2>8
<1>10. Objects(k, d) \cap (1..Len(h.tr)) = {}
    BY <1>3, <1>7 DEF Objects
<1> QED
    BY <1>1, <1>2, <1>3, <1>5, <1>6, <1>9, <1>10 DEF IsFaithful, k, d

-----------------------------------------------------------------------------
(* AutomataMutator.  A mutation changes only objects that the sound heap   *)
(* h0 did not have; all are the states of its heap.                        *)

Heaps == [name : Seq(Names), ts : Seq(Seq(Nat)), tr : Seq(Arcs)]
Work(h0, all) == {h \in Heaps : Sound(h) /\ Grown(h, h0) /\ Places(h) = all}
Worked(h0, all) == [h : Work(h0, all), ok : BOOLEAN]

LEMMA SymbolsFacts ==
    /\ Len(Symbols) \in Nat
    /\ \A i \in 1..Len(Symbols) : Symbols[i] \in AllSymbols
    /\ AllSymbols \subseteq Labels /\ NoSymbol \in Labels
<1>1. Symbols \in Seq(Range(Symbols))
    BY AutomataAssumption DEF AutomataAssumption
<1>2. Len(Symbols) \in Nat /\ \A i \in 1..Len(Symbols) : Symbols[i] \in AllSymbols
    BY <1>1, SequenceFacts DEF AllSymbols
<1> QED
    BY <1>2 DEF AllSymbols, Labels, Words

LEMMA WorkFacts ==
    ASSUME NEW h0, Sound(h0), NEW all, NEW h \in Work(h0, all)
    PROVE  /\ Sound(h) /\ Typed(h) /\ Grown(h, h0) /\ Places(h) = all /\ h \in Heaps
           /\ Places(h0) \subseteq all /\ 1..Len(h0.tr) \subseteq 1..Len(h.tr)
<1>1. Sound(h) /\ Typed(h) /\ Grown(h, h0) /\ Places(h) = all /\ h \in Heaps
    BY DEF Work, Sound
<1>2. Places(h0) \subseteq all
    <2>1. PICK m, n \in Nat : m = Len(h0.name) /\ n = Len(h.name) /\ m <= n
        BY <1>1, TypedFacts DEF Sound, Grown
    <2> QED
        BY <1>1, <2>1 DEF Places
<1>3. 1..Len(h0.tr) \subseteq 1..Len(h.tr)
    <2>1. PICK m, n \in Nat : m = Len(h0.tr) /\ n = Len(h.tr) /\ m <= n
        BY <1>1, TypedFacts DEF Sound, Grown
    <2> QED
        BY <2>1
<1> QED
    BY <1>1, <1>2, <1>3

LEMMA SoundIsHeap ==
    ASSUME NEW h, Sound(h)
    PROVE  h \in Heaps
BY DEF Sound, Typed, Heaps

LEMMA NewTransitionWork ==
    ASSUME NEW h0, Sound(h0), NEW all, NEW h \in Work(h0, all), NEW kind \in Kinds,
           NEW a \in all \ Places(h0), NEW b \in all, NEW in \in Labels, NEW out \in SUBSET Labels
    PROVE  NewTransition(h, kind, a, b, in, out) \in Work(h0, all)
<1>1. PICK k : k = NewTransition(h, kind, a, b, in, out)
    OBVIOUS
<1>2. Sound(h) /\ Typed(h) /\ Grown(h, h0) /\ Places(h) = all /\ Places(h0) \subseteq all
      /\ 1..Len(h0.tr) \subseteq 1..Len(h.tr)
    BY WorkFacts
<1>3. IsNewTransition(k, h, a)
    BY <1>1, <1>2, NewTransitionFacts
<1>4. Len(h0.tr) <= Len(k.tr)
    <2>1. Len(k.tr) = Len(h.tr) + 1
        BY <1>3 DEF IsNewTransition
    <2>2. PICK m, n \in Nat : m = Len(h0.tr) /\ n = Len(h.tr) /\ m <= n
        BY <1>2, TypedFacts DEF Sound, Grown
    <2> QED
        BY <2>1, <2>2
<1>5. Grown(k, h0)
    BY <1>2, <1>3, <1>4 DEF Grown, IsNewTransition
<1> QED
    BY <1>1, <1>2, <1>3, <1>5, SoundIsHeap DEF Work, IsNewTransition

LEMMA AddUnlessThereFacts ==
    ASSUME NEW h0, Sound(h0), NEW all, NEW acc \in Worked(h0, all),
           NEW a \in all \ Places(h0), NEW b \in all \ Places(h0), NEW sym \in AllSymbols
    PROVE  AddUnlessThere(acc, a, b, sym) \in Worked(h0, all)
<1>1. acc.h \in Work(h0, all) /\ acc.ok \in BOOLEAN /\ acc = [h |-> acc.h, ok |-> acc.ok]
    BY DEF Worked
<1>2. PICK k \in Work(h0, all) : k = NewTransition(acc.h, "main", a, b, sym, AllSymbols)
    <2>1. sym \in Labels /\ AllSymbols \in SUBSET Labels /\ "main" \in Kinds
        BY SymbolsFacts DEF Kinds
    <2> QED
        BY <1>1, <2>1, NewTransitionWork
<1>3. [acc EXCEPT !.h = k] \in Worked(h0, all)
    BY DEF Worked
<1>4. \A ok \in BOOLEAN : [acc EXCEPT !.ok = acc.ok /\ ok] \in Worked(h0, all)
    BY <1>1 DEF Worked
<1> DEFINE met == SelectSeq(acc.h.ts[a], LAMBDA t : acc.h.tr[t].to = b
                                            /\ (acc.h.tr[t].kind # "main" \/ acc.h.tr[t].in = sym))
<1>5. CASE met = <<>>
    <2>1. AddUnlessThere(acc, a, b, sym) = [acc EXCEPT !.h = k]
        BY <1>2, <1>5 DEF AddUnlessThere
    <2> QED
        BY <1>3, <2>1, SMTT(30)
<1>6. CASE met # <<>>
    <2>1. PICK ok \in BOOLEAN : ok = (acc.h.tr[met[1]].kind = "main")
        BY Zenon
    <2>2. AddUnlessThere(acc, a, b, sym) = [acc EXCEPT !.ok = acc.ok /\ ok]
        BY <1>6, <2>1, Zenon DEF AddUnlessThere
    <2> QED
        BY <1>4, <2>2, SMTT(30)
<1> QED
    BY <1>5, <1>6

LEMMA RelateFacts ==
    ASSUME NEW h0, Sound(h0), NEW all, NEW acc \in Worked(h0, all),
           NEW a \in all \ Places(h0), NEW b \in all \ Places(h0)
    PROVE  Relate(acc, a, b) \in Worked(h0, all)
<1> DEFINE n == Len(Symbols)
           Step(x, i) == AddUnlessThere(x, a, b, Symbols[i])
           P == [i \in 0..n |-> Worked(h0, all)]
           g == [i \in 1..n |-> [x \in P[i - 1] |-> Step(x, i)]]
           Right(u) == u = [i \in 0..n |-> IF i = 0 THEN acc
                              ELSE Step(u[i - 1], i)]
           Until == CHOOSE u : Right(u)
<1>n. n \in Nat
    BY SymbolsFacts
<1>0. n \in Nat /\ \A i \in 1..n : i \in 0..n /\ i - 1 \in 0..n /\ i # 0
    BY <1>n
<1>1. acc \in P[0]
    BY <1>0 DEF P
<1>2. ASSUME NEW i \in 1..n, NEW x \in P[i - 1]
      PROVE  Step(x, i) \in P[i]
    <2>1. x \in Worked(h0, all)
        BY <1>0, <1>2 DEF P
    <2>2. Symbols[i] \in AllSymbols
        BY SymbolsFacts
    <2>3. Step(x, i) \in Worked(h0, all)
        BY <2>1, <2>2, AddUnlessThereFacts
    <2> HIDE DEF Step
    <2> QED
        BY <1>0, <2>3 DEF P
<1>3. \A i \in 1..n : \A x \in P[i - 1] : g[i][x] = Step(x, i)
    OBVIOUS
<1>a. Turns(n, P, g)
    <2> HIDE DEF P, g, Step
    <2> QED
        BY <1>2, <1>3 DEF Turns
<1> HIDE DEF P, g
<1>4. PICK u : IsLoop(u, n, acc, P, g)
    BY <1>0, <1>1, <1>a, LoopExists
<1>5. Right(u)
    <2> HIDE DEF Step
    <2>1. u = [i \in 0..n |-> IF i = 0 THEN acc ELSE g[i][u[i - 1]]]
        BY <1>4 DEF IsLoop
    <2>2. \A i \in 1..n : g[i][u[i - 1]] = Step(u[i - 1], i)
        BY <1>0, <1>3, <1>4 DEF IsLoop
    <2>3. \A i \in 0..n : i # 0 => i \in 1..n
        BY <1>0
    <2> QED
        BY <2>1, <2>2, <2>3
<1>6. Right(Until)
    BY <1>5
<1>7. Relate(acc, a, b) = Until[n]
    BY <1>6 DEF Relate
<1> HIDE DEF Until
<1>8. \A i \in 0..n : Until[i] \in P[i]
    <2>1. \A i \in 0..n : Until[i] = IF i = 0 THEN acc ELSE Step(Until[i - 1], i)
        BY <1>6
    <2>2. Until[0] = acc /\ \A i \in 1..n : Until[i] = Step(Until[i - 1], i)
        BY <1>0, <2>1
    <2>3. \A i \in 1..n : Until[i - 1] \in P[i - 1] => Until[i] \in P[i]
        <3> HIDE DEF Step
        <3> QED
            BY <1>2, <2>2
    <2> HIDE DEF Step
    <2> QED
        BY <1>0, <1>1, <2>2, <2>3, TurnByTurn
<1>9. Until[n] \in P[n] /\ n \in 0..n
    BY <1>0, <1>8
<1> QED
    BY <1>7, <1>9 DEF P

LEMMA RelateToAllFacts ==
    ASSUME NEW h0, Sound(h0), NEW all, NEW acc \in Worked(h0, all),
           NEW a \in all \ Places(h0), NEW main \in Seq(all \ Places(h0))
    PROVE  RelateToAll(acc, a, main) \in Worked(h0, all)
<1> DEFINE n == Len(main)
           Step(x, i) == Relate(x, a, main[i])
           P == [i \in 0..n |-> Worked(h0, all)]
           g == [i \in 1..n |-> [x \in P[i - 1] |-> Step(x, i)]]
           Right(u) == u = [i \in 0..n |-> IF i = 0 THEN acc
                              ELSE Step(u[i - 1], i)]
           Until == CHOOSE u : Right(u)
<1>n. n \in Nat
    BY SequenceFacts
<1>0. n \in Nat /\ \A i \in 1..n : i \in 0..n /\ i - 1 \in 0..n /\ i # 0
    BY <1>n
<1>1. acc \in P[0]
    BY <1>0 DEF P
<1>2. ASSUME NEW i \in 1..n, NEW x \in P[i - 1]
      PROVE  Step(x, i) \in P[i]
    <2>1. x \in Worked(h0, all)
        BY <1>0, <1>2 DEF P
    <2>2. main[i] \in all \ Places(h0)
        BY SequenceFacts
    <2>3. Step(x, i) \in Worked(h0, all)
        BY <2>1, <2>2, RelateFacts
    <2> HIDE DEF Step
    <2> QED
        BY <1>0, <2>3 DEF P
<1>3. \A i \in 1..n : \A x \in P[i - 1] : g[i][x] = Step(x, i)
    OBVIOUS
<1>a. Turns(n, P, g)
    <2> HIDE DEF P, g, Step
    <2> QED
        BY <1>2, <1>3 DEF Turns
<1> HIDE DEF P, g
<1>4. PICK u : IsLoop(u, n, acc, P, g)
    BY <1>0, <1>1, <1>a, LoopExists
<1>5. Right(u)
    <2> HIDE DEF Step
    <2>1. u = [i \in 0..n |-> IF i = 0 THEN acc ELSE g[i][u[i - 1]]]
        BY <1>4 DEF IsLoop
    <2>2. \A i \in 1..n : g[i][u[i - 1]] = Step(u[i - 1], i)
        BY <1>0, <1>3, <1>4 DEF IsLoop
    <2>3. \A i \in 0..n : i # 0 => i \in 1..n
        BY <1>0
    <2> QED
        BY <2>1, <2>2, <2>3
<1>6. Right(Until)
    BY <1>5
<1>7. RelateToAll(acc, a, main) = Until[n]
    BY <1>6 DEF RelateToAll
<1> HIDE DEF Until
<1>8. \A i \in 0..n : Until[i] \in P[i]
    <2>1. \A i \in 0..n : Until[i] = IF i = 0 THEN acc ELSE Step(Until[i - 1], i)
        BY <1>6
    <2>2. Until[0] = acc /\ \A i \in 1..n : Until[i] = Step(Until[i - 1], i)
        BY <1>0, <2>1
    <2>3. \A i \in 1..n : Until[i - 1] \in P[i - 1] => Until[i] \in P[i]
        <3> HIDE DEF Step
        <3> QED
            BY <1>2, <2>2
    <2> HIDE DEF Step
    <2> QED
        BY <1>0, <1>1, <2>2, <2>3, TurnByTurn
<1>9. Until[n] \in P[n] /\ n \in 0..n
    BY <1>0, <1>8
<1> QED
    BY <1>7, <1>9 DEF P

LEMMA StartFacts ==
    ASSUME NEW h0, NEW all, NEW h \in Work(h0, all)
    PROVE  Start(h) \in Worked(h0, all)
BY DEF Start, Worked

LEMMA MutateRandomFacts ==
    ASSUME NEW h0, Sound(h0), NEW all, NEW h \in Work(h0, all),
           NEW main \in Seq(all \ Places(h0)), NEW drawn, NEW choice \in [drawn -> 1..Len(main)]
    PROVE  MutateRandom(h, main, choice) \in Worked(h0, all)
<1> DEFINE n == Len(main)
           Step(x, i) == (IF i \in DOMAIN choice THEN Relate(x, main[i], main[choice[i]]) ELSE x)
           P == [i \in 0..n |-> Worked(h0, all)]
           g == [i \in 1..n |-> [x \in P[i - 1] |-> Step(x, i)]]
           Right(u) == u = [i \in 0..n |-> IF i = 0 THEN Start(h)
                              ELSE Step(u[i - 1], i)]
           Until == CHOOSE u : Right(u)
<1>n. n \in Nat
    BY SequenceFacts
<1>0. n \in Nat /\ \A i \in 1..n : i \in 0..n /\ i - 1 \in 0..n /\ i # 0
    BY <1>n
<1>1. Start(h) \in P[0]
    BY <1>0, StartFacts DEF P
<1>2. ASSUME NEW i \in 1..n, NEW x \in P[i - 1]
      PROVE  Step(x, i) \in P[i]
    <2>1. x \in Worked(h0, all)
        BY <1>0, <1>2 DEF P
    <2>2. main[i] \in all \ Places(h0)
        BY SequenceFacts
    <2>3. Step(x, i) \in Worked(h0, all)
        <3>1. CASE i \in DOMAIN choice
            <4>1. choice[i] \in 1..Len(main)
                BY <3>1
            <4>2. main[choice[i]] \in all \ Places(h0)
                BY <4>1, SequenceFacts
            <4>3. Relate(x, main[i], main[choice[i]]) \in Worked(h0, all)
                BY <2>1, <2>2, <4>2, RelateFacts
            <4> QED
                BY <3>1, <4>3
        <3> QED
            BY <2>1, <3>1
    <2> HIDE DEF Step
    <2> QED
        BY <1>0, <2>3 DEF P
<1>3. \A i \in 1..n : \A x \in P[i - 1] : g[i][x] = Step(x, i)
    OBVIOUS
<1>a. Turns(n, P, g)
    <2> HIDE DEF P, g, Step
    <2> QED
        BY <1>2, <1>3 DEF Turns
<1> HIDE DEF P, g
<1>4. PICK u : IsLoop(u, n, Start(h), P, g)
    BY <1>0, <1>1, <1>a, LoopExists
<1>5. Right(u)
    <2> HIDE DEF Step
    <2>1. u = [i \in 0..n |-> IF i = 0 THEN Start(h) ELSE g[i][u[i - 1]]]
        BY <1>4 DEF IsLoop
    <2>2. \A i \in 1..n : g[i][u[i - 1]] = Step(u[i - 1], i)
        BY <1>0, <1>3, <1>4 DEF IsLoop
    <2>3. \A i \in 0..n : i # 0 => i \in 1..n
        BY <1>0
    <2> QED
        BY <2>1, <2>2, <2>3
<1>6. Right(Until)
    BY <1>5
<1>7. MutateRandom(h, main, choice) = Until[n]
    BY <1>6 DEF MutateRandom
<1> HIDE DEF Until
<1>8. \A i \in 0..n : Until[i] \in P[i]
    <2>1. \A i \in 0..n : Until[i] = IF i = 0 THEN Start(h) ELSE Step(Until[i - 1], i)
        BY <1>6
    <2>2. Until[0] = Start(h) /\ \A i \in 1..n : Until[i] = Step(Until[i - 1], i)
        BY <1>0, <2>1
    <2>3. \A i \in 1..n : Until[i - 1] \in P[i - 1] => Until[i] \in P[i]
        <3> HIDE DEF Step
        <3> QED
            BY <1>2, <2>2
    <2> HIDE DEF Step
    <2> QED
        BY <1>0, <1>1, <2>2, <2>3, TurnByTurn
<1>9. Until[n] \in P[n] /\ n \in 0..n
    BY <1>0, <1>8
<1> QED
    BY <1>7, <1>9 DEF P

LEMMA LoosenFacts ==
    ASSUME NEW h0, Sound(h0), NEW all, NEW h \in Work(h0, all), NEW main \in Seq(all \ Places(h0))
    PROVE  Loosen(h, main) \in Work(h0, all)
<1> DEFINE loose(t) == h.tr[t].kind = "main" /\ \E s \in Range(main) : t \in Range(h.ts[s])
<1>0. /\ Sound(h) /\ Typed(h) /\ Grown(h, h0) /\ Places(h) = all /\ h \in Heaps
      /\ Places(h0) \subseteq all /\ 1..Len(h0.tr) \subseteq 1..Len(h.tr)
    BY WorkFacts
<1>1. PICK M \in Nat : M = Len(h.tr)
    BY <1>0, TypedFacts
<1>2. PICK c : c = [t \in 1..M |-> IF loose(t) THEN [h.tr[t] EXCEPT !.out = AllSymbols] ELSE h.tr[t]]
    OBVIOUS
<1>3. ASSUME NEW t \in 1..M
      PROVE  /\ c[t] \in Arcs /\ c[t].from = h.tr[t].from /\ c[t].to = h.tr[t].to
             /\ ~loose(t) => c[t] = h.tr[t]
    <2>1. PICK u \in Arcs : u = h.tr[t]
        BY <1>0, <1>1, TypedFacts
    <2>2. AllSymbols \in SUBSET Labels
        BY SymbolsFacts
    <2>3. PICK v : v = [u EXCEPT !.out = AllSymbols]
        OBVIOUS
    <2>4. v \in Arcs /\ v.from = u.from /\ v.to = u.to
        BY <2>2, <2>3 DEF Arcs
    <2>5. c[t] = IF loose(t) THEN v ELSE u
        BY <1>2, <2>1, <2>3
    <2> HIDE DEF loose
    <2> QED
        BY <2>1, <2>4, <2>5
<1> HIDE DEF loose
<1>4. c \in Seq(Arcs) /\ Len(c) = M
    <2>1. DOMAIN c = 1..M /\ c = [t \in 1..M |-> c[t]]
        BY <1>2
    <2> QED
        BY <1>3, <2>1
<1>5. PICK k : k = Loosen(h, main) /\ k = [name |-> h.name, ts |-> h.ts, tr |-> c]
    BY <1>1, <1>2 DEF Loosen, loose
<1>6. k.name = h.name /\ k.ts = h.ts /\ k.tr = c /\ Places(k) = all
    BY <1>0, <1>5 DEF Places
<1>7. Typed(k)
    BY <1>0, <1>4, <1>5, <1>6, TypedFacts DEF Typed
<1>8. ArcsLead(k)
    BY <1>0, <1>1, <1>3, <1>4, <1>6 DEF ArcsLead, Sound
<1>9. ASSUME NEW s \in Places(k) PROVE Lists(k, s)
    <2>1. Lists(h, s)
        BY <1>0, <1>6 DEF Sound
    <2> QED
        BY <1>1, <1>3, <1>4, <1>6, <2>1 DEF Lists
<1>10. Sound(k)
    BY <1>7, <1>8, <1>9 DEF Sound
<1>11. ASSUME NEW t \in 1..Len(h0.tr) PROVE k.tr[t] = h0.tr[t]
    <2>1. t \in 1..M /\ h.tr[t] = h0.tr[t]
        BY <1>0, <1>1 DEF Grown
    <2>2. ~loose(t)
        <3>1. ASSUME NEW s \in Range(main), t \in Range(h.ts[s]) PROVE FALSE
            <4>1. s \in all \ Places(h0)
                BY SequenceFacts
            <4>2. h.tr[t].from = s
                BY <1>0, <3>1, <4>1 DEF Sound, Lists
            <4>3. h0.tr[t].from \in Places(h0)
                BY DEF Sound, ArcsLead
            <4> QED
                BY <2>1, <4>1, <4>2, <4>3
        <3> QED
            BY <3>1 DEF loose
    <2> QED
        BY <1>3, <1>6, <2>1, <2>2
<1>12. Grown(k, h0)
    BY <1>0, <1>1, <1>4, <1>6, <1>11 DEF Grown
<1> QED
    BY <1>5, <1>6, <1>10, <1>12, SoundIsHeap DEF Work

LEMMA MutateFullFacts ==
    ASSUME NEW h0, Sound(h0), NEW all, NEW h \in Work(h0, all), NEW main \in Seq(all \ Places(h0))
    PROVE  MutateFull(h, main) \in Worked(h0, all)
<1> DEFINE n == Len(main)
           Step(x, i) == RelateToAll(x, main[i], main)
           P == [i \in 0..n |-> Worked(h0, all)]
           g == [i \in 1..n |-> [x \in P[i - 1] |-> Step(x, i)]]
           Right(u) == u = [i \in 0..n |-> IF i = 0 THEN Start(Loosen(h, main))
                              ELSE Step(u[i - 1], i)]
           Until == CHOOSE u : Right(u)
<1>n. n \in Nat
    BY SequenceFacts
<1>0. n \in Nat /\ \A i \in 1..n : i \in 0..n /\ i - 1 \in 0..n /\ i # 0
    BY <1>n
<1>1. Start(Loosen(h, main)) \in P[0]
    <2>1. Loosen(h, main) \in Work(h0, all)
        BY LoosenFacts
    <2> QED
        BY <1>0, <2>1, StartFacts DEF P
<1>2. ASSUME NEW i \in 1..n, NEW x \in P[i - 1]
      PROVE  Step(x, i) \in P[i]
    <2>1. x \in Worked(h0, all)
        BY <1>0, <1>2 DEF P
    <2>2. main[i] \in all \ Places(h0)
        BY SequenceFacts
    <2>3. Step(x, i) \in Worked(h0, all)
        BY <2>1, <2>2, RelateToAllFacts
    <2> HIDE DEF Step
    <2> QED
        BY <1>0, <2>3 DEF P
<1>3. \A i \in 1..n : \A x \in P[i - 1] : g[i][x] = Step(x, i)
    OBVIOUS
<1>a. Turns(n, P, g)
    <2> HIDE DEF P, g, Step
    <2> QED
        BY <1>2, <1>3 DEF Turns
<1> HIDE DEF P, g
<1>4. PICK u : IsLoop(u, n, Start(Loosen(h, main)), P, g)
    BY <1>0, <1>1, <1>a, LoopExists
<1>5. Right(u)
    <2> HIDE DEF Step
    <2>1. u = [i \in 0..n |-> IF i = 0 THEN Start(Loosen(h, main)) ELSE g[i][u[i - 1]]]
        BY <1>4 DEF IsLoop
    <2>2. \A i \in 1..n : g[i][u[i - 1]] = Step(u[i - 1], i)
        BY <1>0, <1>3, <1>4 DEF IsLoop
    <2>3. \A i \in 0..n : i # 0 => i \in 1..n
        BY <1>0
    <2> QED
        BY <2>1, <2>2, <2>3
<1>6. Right(Until)
    BY <1>5
<1>7. MutateFull(h, main) = Until[n]
    BY <1>6 DEF MutateFull
<1> HIDE DEF Until
<1>8. \A i \in 0..n : Until[i] \in P[i]
    <2>1. \A i \in 0..n : Until[i] = IF i = 0 THEN Start(Loosen(h, main)) ELSE Step(Until[i - 1], i)
        BY <1>6
    <2>2. Until[0] = Start(Loosen(h, main)) /\ \A i \in 1..n : Until[i] = Step(Until[i - 1], i)
        BY <1>0, <2>1
    <2>3. \A i \in 1..n : Until[i - 1] \in P[i - 1] => Until[i] \in P[i]
        <3> HIDE DEF Step
        <3> QED
            BY <1>2, <2>2
    <2> HIDE DEF Step
    <2> QED
        BY <1>0, <1>1, <2>2, <2>3, TurnByTurn
<1>9. Until[n] \in P[n] /\ n \in 0..n
    BY <1>0, <1>8
<1> QED
    BY <1>7, <1>9 DEF P

\* A state of the copy keeps some of its transitions.
LEMMA FewerWork ==
    ASSUME NEW h0, Sound(h0), NEW all, NEW h \in Work(h0, all), NEW s \in all \ Places(h0),
           NEW l \in Seq(Nat), IsInjective(l), Range(l) \subseteq Range(h.ts[s])
    PROVE  SetTransitions(h, s, l) \in Work(h0, all)
<1>0. /\ Sound(h) /\ Typed(h) /\ Grown(h, h0) /\ Places(h) = all /\ Places(h0) \subseteq all
    BY WorkFacts
<1>1. PICK k : k = SetTransitions(h, s, l)
    OBVIOUS
<1>2. Sound(k)
    BY <1>0, <1>1, FewerTransitions
<1>3. /\ k.name = h.name /\ k.tr = h.tr /\ Places(k) = Places(h)
      /\ k.ts[s] = l /\ \A r \in Places(h) : r # s => k.ts[r] = h.ts[r]
    BY <1>0, <1>1, SetTransitionsFacts
<1>4. Grown(k, h0)
    BY <1>0, <1>3 DEF Grown
<1> QED
    BY <1>0, <1>1, <1>2, <1>3, <1>4, SoundIsHeap DEF Work

LEMMA RetargetOneFacts ==
    ASSUME NEW h0, Sound(h0), NEW all, NEW acc \in Worked(h0, all),
           NEW s \in all \ Places(h0), NEW name, NEW path
    PROVE  RetargetOne(acc, s, name, path) \in Worked(h0, all)
<1>1. acc.h \in Work(h0, all) /\ acc.ok \in BOOLEAN
    BY DEF Worked
<1>2. acc.h.ts[s] \in Seq(Nat) /\ IsInjective(acc.h.ts[s])
    <2>1. Sound(acc.h) /\ Typed(acc.h) /\ s \in Places(acc.h)
        BY <1>1, WorkFacts
    <2> QED
        BY <2>1, TypedFacts DEF Sound, Lists
<1>3. CASE acc.h.name[s] = name
    <2>1. SetTransitions(acc.h, s, <<>>) \in Work(h0, all)
        <3>1. <<>> \in Seq(Nat) /\ IsInjective(<<>>) /\ Range(<<>>) \subseteq Range(acc.h.ts[s])
            BY DEF IsInjective, Range
        <3> QED
            BY <1>1, <3>1, FewerWork
    <2>2. [acc EXCEPT !.h = SetTransitions(acc.h, s, <<>>)] \in Worked(h0, all)
        BY <2>1 DEF Worked
    <2>3. Relate([acc EXCEPT !.h = SetTransitions(acc.h, s, <<>>)], s, s) \in Worked(h0, all)
        BY <2>2, RelateFacts
    <2> QED
        BY <1>3, <2>3 DEF RetargetOne
<1>4. CASE acc.h.name[s] # name
    <2>1. PICK l \in Seq(Nat) : /\ l = KeepsPath(acc.h, s, path) /\ IsInjective(l)
                                /\ Range(l) \subseteq Range(acc.h.ts[s])
        BY <1>2, KeptFacts, ZenonT(30) DEF KeepsPath
    <2>2. SetTransitions(acc.h, s, l) \in Work(h0, all)
        BY <1>1, <2>1, FewerWork
    <2>3. PICK ok \in BOOLEAN : ok = (acc.ok /\ (path # <<>> \/ \A t \in Range(acc.h.ts[s]) : acc.h.tr[t].to = s))
        OBVIOUS
    <2>4. [h |-> SetTransitions(acc.h, s, l), ok |-> ok] \in Worked(h0, all)
        BY <2>2, <2>3 DEF Worked
    <2> QED
        BY <1>4, <2>1, <2>3, <2>4 DEF RetargetOne
<1> QED
    BY <1>3, <1>4

LEMMA MutateTargetedFacts ==
    ASSUME NEW h0, Sound(h0), NEW all, NEW h \in Work(h0, all),
           NEW main \in Seq(all \ Places(h0)), NEW name, NEW path
    PROVE  MutateTargeted(h, main, name, path) \in Worked(h0, all)
<1> DEFINE n == Len(main)
           Step(x, i) == RetargetOne(x, main[i], name, path)
           P == [i \in 0..n |-> Worked(h0, all)]
           g == [i \in 1..n |-> [x \in P[i - 1] |-> Step(x, i)]]
           Right(u) == u = [i \in 0..n |-> IF i = 0 THEN Start(h)
                              ELSE Step(u[i - 1], i)]
           Until == CHOOSE u : Right(u)
<1>n. n \in Nat
    BY SequenceFacts
<1>0. n \in Nat /\ \A i \in 1..n : i \in 0..n /\ i - 1 \in 0..n /\ i # 0
    BY <1>n
<1>1. Start(h) \in P[0]
    BY <1>0, StartFacts DEF P
<1>2. ASSUME NEW i \in 1..n, NEW x \in P[i - 1]
      PROVE  Step(x, i) \in P[i]
    <2>1. x \in Worked(h0, all)
        BY <1>0, <1>2 DEF P
    <2>2. main[i] \in all \ Places(h0)
        BY SequenceFacts
    <2>3. Step(x, i) \in Worked(h0, all)
        BY <2>1, <2>2, RetargetOneFacts
    <2> HIDE DEF Step
    <2> QED
        BY <1>0, <2>3 DEF P
<1>3. \A i \in 1..n : \A x \in P[i - 1] : g[i][x] = Step(x, i)
    OBVIOUS
<1>a. Turns(n, P, g)
    <2> HIDE DEF P, g, Step
    <2> QED
        BY <1>2, <1>3 DEF Turns
<1> HIDE DEF P, g
<1>4. PICK u : IsLoop(u, n, Start(h), P, g)
    BY <1>0, <1>1, <1>a, LoopExists
<1>5. Right(u)
    <2> HIDE DEF Step
    <2>1. u = [i \in 0..n |-> IF i = 0 THEN Start(h) ELSE g[i][u[i - 1]]]
        BY <1>4 DEF IsLoop
    <2>2. \A i \in 1..n : g[i][u[i - 1]] = Step(u[i - 1], i)
        BY <1>0, <1>3, <1>4 DEF IsLoop
    <2>3. \A i \in 0..n : i # 0 => i \in 1..n
        BY <1>0
    <2> QED
        BY <2>1, <2>2, <2>3
<1>6. Right(Until)
    BY <1>5
<1>7. MutateTargeted(h, main, name, path) = Until[n]
    BY <1>6 DEF MutateTargeted
<1> HIDE DEF Until
<1>8. \A i \in 0..n : Until[i] \in P[i]
    <2>1. \A i \in 0..n : Until[i] = IF i = 0 THEN Start(h) ELSE Step(Until[i - 1], i)
        BY <1>6
    <2>2. Until[0] = Start(h) /\ \A i \in 1..n : Until[i] = Step(Until[i - 1], i)
        BY <1>0, <2>1
    <2>3. \A i \in 1..n : Until[i - 1] \in P[i - 1] => Until[i] \in P[i]
        <3> HIDE DEF Step
        <3> QED
            BY <1>2, <2>2
    <2> HIDE DEF Step
    <2> QED
        BY <1>0, <1>1, <2>2, <2>3, TurnByTurn
<1>9. Until[n] \in P[n] /\ n \in 0..n
    BY <1>0, <1>8
<1> QED
    BY <1>7, <1>9 DEF P

\* The main states of a copy are states of the copy.
LEMMA MainStatesFacts ==
    ASSUME NEW h, Sound(h), NEW s0 \in Places(h), NEW S, Reach(h, s0) \subseteq S
    PROVE  MainStates(h, s0) \in Seq(S)
<1>1. PICK q : q = GetStates(h, s0) /\ q \in Seq(Places(h)) /\ Range(q) = Reach(h, s0)
    BY GetStatesFacts DEF Reach
<1>2. q \in Seq(S)
    <2>1. PICK n \in Nat : n = Len(q) /\ q = [i \in 1..n |-> q[i]] /\ \A i \in 1..n : q[i] \in Range(q)
        BY <1>1, SequenceFacts
    <2> QED
        BY <1>1, <2>1, SMTT(30)
<1>3. MainStates(h, s0) = Kept(q, Range(q) \ Range(Dropped(h, q)))
    BY <1>1 DEF MainStates
<1> QED
    BY <1>2, <1>3, KeptFacts

LEMMA NamesFacts ==
    \A s \in Titles, i \in Int : <<s, i>> \in Names
BY DEF Names

LEMMA MutateOneStateFacts ==
    ASSUME NEW h, Sound(h)
    PROVE  /\ Sound(MutateOneState(h).h) /\ Grown(MutateOneState(h).h, h)
           /\ Last1(h) + 1 \in Places(MutateOneState(h).h)
<1>1. PICK n \in Nat : n = Len(h.name) /\ n = Last1(h)
    BY TypedFacts DEF Sound, Last1
<1>2. PICK x \in Names, y \in Names : x = <<"Initial state", 0>> /\ y = <<"Main state", 0>>
    <2>1. "Initial state" \in Titles /\ "Main state" \in Titles
        BY DEF Titles
    <2>2. <<"Initial state", 0>> \in Names /\ <<"Main state", 0>> \in Names
        <3>1. 0 \in Int
            OBVIOUS
        <3> QED
            BY <2>1, <3>1, NamesFacts, Zenon
    <2> QED
        BY <2>2, Zenon
<1>3. PICK one : one = NewState(h, x) /\ Sound(one) /\ IsPushedState(one, h, x, <<>>)
    BY NewStateSound, NewStateFacts DEF Sound
<1>4. PICK two : two = NewState(one, y) /\ Sound(two) /\ IsPushedState(two, one, y, <<>>)
    BY <1>3, NewStateSound, NewStateFacts DEF Sound
<1>5. /\ Places(two) = Places(h) \cup {n + 1, n + 2} /\ n + 1 \notin Places(h) /\ n + 2 \notin Places(h)
      /\ Grown(two, h)
    <2>1. Len(one.name) = n + 1 /\ Places(one) = Places(h) \cup {n + 1}
        BY <1>1, <1>3 DEF IsPushedState
    <2>2. Places(two) = Places(one) \cup {n + 1 + 1}
        BY <1>4, <2>1 DEF IsPushedState
    <2>3. Grown(two, h)
        BY <1>3, <1>4, GrownAgain DEF IsPushedState, Sound
    <2>4. Places(h) = 1..n
        BY <1>1 DEF Places
    <2> QED
        BY <2>1, <2>2, <2>3, <2>4
<1>6. two \in Work(h, Places(two))
    BY <1>4, <1>5, SoundIsHeap DEF Work
<1>7. PICK opened \in Work(h, Places(two)) : opened = NewTransition(two, "open", n + 1, n + 2, NoSymbol, {})
    <2>1. "open" \in Kinds /\ NoSymbol \in Labels /\ {} \in SUBSET Labels
        BY SymbolsFacts DEF Kinds
    <2> QED
        BY <1>5, <1>6, <2>1, NewTransitionWork
<1>8. Relate(Start(opened), n + 2, n + 2) \in Worked(h, Places(two))
    BY <1>5, <1>7, StartFacts, RelateFacts
<1>9. MutateOneState(h) = Relate(Start(opened), n + 2, n + 2)
    <2>1. n + 1 + 1 = n + 2
        OBVIOUS
    <2> QED
        BY <1>1, <1>2, <1>3, <1>4, <1>7, <2>1 DEF MutateOneState
<1>10. MutateOneState(h).h \in Work(h, Places(two))
    BY <1>8, <1>9 DEF Worked
<1> QED
    BY <1>1, <1>5, <1>10, WorkFacts

-----------------------------------------------------------------------------
(* Session and the factories: the sessions captured give sequences of      *)
(* exchanges, and a factory adds states and transitions to a sound heap.   *)

LEMMA ExtendedFacts ==
    ASSUME NEW S, NEW sorted \in Seq(S), NEW m \in S
    PROVE  Extended(sorted, m) \in Seq(S)
<1>1. PICK a \in Seq(S) : a = Kept(sorted, {x \in Range(sorted) : x.time <= m.time})
    BY KeptFacts
<1>2. PICK b \in Seq(S) : b = Kept(sorted, {x \in Range(sorted) : x.time > m.time})
    BY KeptFacts
<1>3. a \o <<m>> \o b \in Seq(S)
    OBVIOUS
<1> QED
    BY <1>1, <1>2, <1>3 DEF Extended

LEMMA SortedFacts ==
    ASSUME NEW msgs \in Seq(Messages)
    PROVE  Sorted(msgs) \in Seq(Messages)
<1> DEFINE n == Len(msgs)
           Step(x, i) == Extended(x, msgs[i])
           P == [i \in 0..n |-> Seq(Messages)]
           g == [i \in 1..n |-> [x \in P[i - 1] |-> Step(x, i)]]
           Right(u) == u = [i \in 0..n |-> IF i = 0 THEN <<>>
                              ELSE Step(u[i - 1], i)]
           Until == CHOOSE u : Right(u)
<1>n. n \in Nat
    BY SequenceFacts
<1>0. n \in Nat /\ \A i \in 1..n : i \in 0..n /\ i - 1 \in 0..n /\ i # 0
    BY <1>n
<1>1. <<>> \in P[0]
    <2>1. <<>> \in Seq(Messages)
        OBVIOUS
    <2> QED
        BY <1>0, <2>1 DEF P
<1>2. ASSUME NEW i \in 1..n, NEW x \in P[i - 1]
      PROVE  Step(x, i) \in P[i]
    <2>1. x \in Seq(Messages)
        BY <1>0, <1>2 DEF P
    <2>2. msgs[i] \in Messages
        BY SequenceFacts
    <2>3. Step(x, i) \in Seq(Messages)
        BY <2>1, <2>2, ExtendedFacts
    <2> HIDE DEF Step
    <2> QED
        BY <1>0, <2>3 DEF P
<1>3. \A i \in 1..n : \A x \in P[i - 1] : g[i][x] = Step(x, i)
    OBVIOUS
<1>a. Turns(n, P, g)
    <2> HIDE DEF P, g, Step
    <2> QED
        BY <1>2, <1>3 DEF Turns
<1> HIDE DEF P, g
<1>4. PICK u : IsLoop(u, n, <<>>, P, g)
    BY <1>0, <1>1, <1>a, LoopExists
<1>5. Right(u)
    <2> HIDE DEF Step
    <2>1. u = [i \in 0..n |-> IF i = 0 THEN <<>> ELSE g[i][u[i - 1]]]
        BY <1>4 DEF IsLoop
    <2>2. \A i \in 1..n : g[i][u[i - 1]] = Step(u[i - 1], i)
        BY <1>0, <1>3, <1>4 DEF IsLoop
    <2>3. \A i \in 0..n : i # 0 => i \in 1..n
        BY <1>0
    <2> QED
        BY <2>1, <2>2, <2>3
<1>6. Right(Until)
    BY <1>5
<1>7. Sorted(msgs) = Until[n]
    BY <1>6 DEF Sorted
<1> HIDE DEF Until
<1>8. \A i \in 0..n : Until[i] \in P[i]
    <2>1. \A i \in 0..n : Until[i] = IF i = 0 THEN <<>> ELSE Step(Until[i - 1], i)
        BY <1>6
    <2>2. Until[0] = <<>> /\ \A i \in 1..n : Until[i] = Step(Until[i - 1], i)
        BY <1>0, <2>1
    <2>3. \A i \in 1..n : Until[i - 1] \in P[i - 1] => Until[i] \in P[i]
        <3> HIDE DEF Step
        <3> QED
            BY <1>2, <2>2
    <2> HIDE DEF Step
    <2> QED
        BY <1>0, <1>1, <2>2, <2>3, TurnByTurn
<1>9. Until[n] \in P[n] /\ n \in 0..n
    BY <1>0, <1>8
<1> QED
    BY <1>7, <1>9 DEF P

LEMMA AbstractFacts ==
    ASSUME NEW msgs \in Seq(Messages)
    PROVE  Abstract(msgs) \in Seq(Messages)
<1>1. Sorted(msgs) \in Seq(Messages)
    BY SortedFacts
<1>2. Kept(Sorted(msgs), {m \in Range(msgs) : m.data # Unknown}) \in Seq(Messages)
    BY <1>1, KeptFacts
<1>3. <<>> \in Seq(Messages)
    OBVIOUS
<1> QED
    BY <1>2, <1>3 DEF Abstract

Talks == [in : Labels, out : Labels, done : Seq(Labels \X Labels)]

LEMMA ExchangingFacts ==
    ASSUME NEW client, NEW acc \in Talks, NEW m \in Messages
    PROVE  Exchanging(client, acc, m) \in Talks
<1>1. /\ acc.in \in Labels /\ acc.out \in Labels /\ acc.done \in Seq(Labels \X Labels)
      /\ m.data \in Labels /\ NoSymbol \in Labels
    BY DEF Talks, Messages, Labels
<1>2. PICK in \in Labels : in = IF m.src = client THEN m.data ELSE acc.in
    BY <1>1
<1>3. PICK out \in Labels : out = IF m.src = client THEN NoSymbol ELSE m.data
    BY <1>1
<1>4. Append(acc.done, <<in, out>>) \in Seq(Labels \X Labels)
    <2>1. <<in, out>> \in Labels \X Labels
        OBVIOUS
    <2> QED
        BY <1>1, <2>1, AppendFacts
<1>5. [in |-> NoSymbol, out |-> NoSymbol, done |-> Append(acc.done, <<in, out>>)] \in Talks
    BY <1>1, <1>4 DEF Talks
<1>6. [in |-> in, out |-> out, done |-> acc.done] \in Talks
    BY <1>1 DEF Talks
<1> QED
    BY <1>2, <1>3, <1>5, <1>6 DEF Exchanging

LEMMA ExchangesFacts ==
    ASSUME NEW abstract \in Seq(Messages)
    PROVE  Exchanges(abstract) \in Seq(Labels \X Labels)
<1> DEFINE n == Len(abstract)
           Step(x, i) == Exchanging(abstract[1].src, x, abstract[i])
           P == [i \in 0..n |-> Talks]
           g == [i \in 1..n |-> [x \in P[i - 1] |-> Step(x, i)]]
           Right(u) == u = [i \in 0..n |-> IF i = 0 THEN [in |-> NoSymbol, out |-> NoSymbol, done |-> <<>>]
                              ELSE Step(u[i - 1], i)]
           Until == CHOOSE u : Right(u)
<1>n. n \in Nat
    BY SequenceFacts
<1>0. n \in Nat /\ \A i \in 1..n : i \in 0..n /\ i - 1 \in 0..n /\ i # 0
    BY <1>n
<1>1. [in |-> NoSymbol, out |-> NoSymbol, done |-> <<>>] \in P[0]
    <2>1. <<>> \in Seq(Labels \X Labels) /\ NoSymbol \in Labels
        BY SymbolsFacts
    <2>2. [in |-> NoSymbol, out |-> NoSymbol, done |-> <<>>] \in Talks
        BY <2>1 DEF Talks
    <2> QED
        BY <1>0, <2>2 DEF P
<1>2. ASSUME NEW i \in 1..n, NEW x \in P[i - 1]
      PROVE  Step(x, i) \in P[i]
    <2>1. x \in Talks
        BY <1>0, <1>2 DEF P
    <2>2. abstract[i] \in Messages
        BY SequenceFacts
    <2>3. Step(x, i) \in Talks
        BY <2>1, <2>2, ExchangingFacts
    <2> HIDE DEF Step
    <2> QED
        BY <1>0, <2>3 DEF P
<1>3. \A i \in 1..n : \A x \in P[i - 1] : g[i][x] = Step(x, i)
    OBVIOUS
<1>a. Turns(n, P, g)
    <2> HIDE DEF P, g, Step
    <2> QED
        BY <1>2, <1>3 DEF Turns
<1> HIDE DEF P, g
<1>4. PICK u : IsLoop(u, n, [in |-> NoSymbol, out |-> NoSymbol, done |-> <<>>], P, g)
    BY <1>0, <1>1, <1>a, LoopExists
<1>5. Right(u)
    <2> HIDE DEF Step
    <2>1. u = [i \in 0..n |-> IF i = 0 THEN [in |-> NoSymbol, out |-> NoSymbol, done |-> <<>>] ELSE g[i][u[i - 1]]]
        BY <1>4 DEF IsLoop
    <2>2. \A i \in 1..n : g[i][u[i - 1]] = Step(u[i - 1], i)
        BY <1>0, <1>3, <1>4 DEF IsLoop
    <2>3. \A i \in 0..n : i # 0 => i \in 1..n
        BY <1>0
    <2> QED
        BY <2>1, <2>2, <2>3
<1>6. Right(Until)
    BY <1>5
<1>7. Exchanges(abstract) = Until[n].done
    BY <1>6 DEF Exchanges
<1> HIDE DEF Until
<1>8. \A i \in 0..n : Until[i] \in P[i]
    <2>1. \A i \in 0..n : Until[i] = IF i = 0 THEN [in |-> NoSymbol, out |-> NoSymbol, done |-> <<>>] ELSE Step(Until[i - 1], i)
        BY <1>6
    <2>2. Until[0] = [in |-> NoSymbol, out |-> NoSymbol, done |-> <<>>] /\ \A i \in 1..n : Until[i] = Step(Until[i - 1], i)
        BY <1>0, <2>1
    <2>3. \A i \in 1..n : Until[i - 1] \in P[i - 1] => Until[i] \in P[i]
        <3> HIDE DEF Step
        <3> QED
            BY <1>2, <2>2
    <2> HIDE DEF Step
    <2> QED
        BY <1>0, <1>1, <2>2, <2>3, TurnByTurn
<1>9. Until[n] \in P[n] /\ n \in 0..n
    BY <1>0, <1>8
<1> QED
    BY <1>7, <1>9 DEF P, Talks

\* The sound heaps with n states or more.
Laid(n) == {h \in Heaps : Sound(h) /\ Len(h.name) >= n}

LEMMA LaidFacts ==
    ASSUME NEW n \in Nat, NEW h \in Laid(n)
    PROVE  /\ Sound(h) /\ Typed(h) /\ Len(h.name) \in Nat /\ Last1(h) = Len(h.name) /\ n <= Len(h.name)
           /\ \A i \in 1..n : i \in Places(h)
           /\ Places(h) = 1..Len(h.name) /\ Last1(h) - 1 \in Int
<1>1. PICK m \in Nat : m = Len(h.name) /\ m >= n
    BY TypedFacts DEF Laid, Sound
<1> QED
    BY <1>1 DEF Laid, Sound, Places, Last1

LEMMA NewStateLaid ==
    ASSUME NEW n \in Nat, NEW h, Sound(h), Len(h.name) + 1 >= n, NEW x \in Names
    PROVE  /\ NewState(h, x) \in Laid(n) /\ Last1(NewState(h, x)) = Last1(h) + 1
           /\ \A s \in Places(h) : s \in Places(NewState(h, x))
           /\ Last1(h) + 1 \in Places(NewState(h, x))
<1>1. PICK k : k = NewState(h, x)
    OBVIOUS
<1>2. Sound(k) /\ IsPushedState(k, h, x, <<>>)
    BY <1>1, NewStateSound, NewStateFacts DEF Sound
<1>3. Len(k.name) = Len(h.name) + 1 /\ Places(k) = Places(h) \cup {Len(h.name) + 1}
    BY <1>2 DEF IsPushedState
<1> QED
    BY <1>1, <1>2, <1>3, SoundIsHeap DEF Laid, Last1

LEMMA NewTransitionLaid ==
    ASSUME NEW n \in Nat, NEW h \in Laid(n), NEW kind \in Kinds, NEW a \in Places(h),
           NEW b \in Places(h), NEW in \in Labels, NEW out \in SUBSET Labels
    PROVE  /\ NewTransition(h, kind, a, b, in, out) \in Laid(n)
           /\ Last1(NewTransition(h, kind, a, b, in, out)) = Last1(h)
           /\ Places(NewTransition(h, kind, a, b, in, out)) = Places(h)
<1>1. PICK k : k = NewTransition(h, kind, a, b, in, out)
    OBVIOUS
<1>2. Sound(h) /\ n <= Len(h.name) /\ Len(h.name) \in Nat
    BY LaidFacts
<1>3. IsNewTransition(k, h, a)
    BY <1>1, <1>2, NewTransitionFacts
<1>4. Sound(k) /\ k.name = h.name /\ Places(k) = Places(h)
    BY <1>3 DEF IsNewTransition
<1> QED
    BY <1>1, <1>2, <1>4, SoundIsHeap DEF Laid, Last1

LEMMA EmptySound == Sound(Empty) /\ Len(Empty.name) = 0
<1>1. Empty.name = <<>> /\ Empty.ts = <<>> /\ Empty.tr = <<>> /\ Len(Empty.name) = 0 /\ Len(Empty.tr) = 0
    BY DEF Empty
<1>2. Places(Empty) = {} /\ 1..Len(Empty.tr) = {}
    BY <1>1 DEF Places
<1>3. Typed(Empty)
    BY DEF Typed, Empty
<1> QED
    BY <1>1, <1>2, <1>3 DEF Sound, ArcsLead

LEMMA AllNames ==
    \A i \in Int : /\ <<"Start state", i>> \in Names /\ <<"Main state", i>> \in Names
                   /\ <<"State", i>> \in Names /\ <<"End state", i>> \in Names
<1>1. /\ "Start state" \in Titles /\ "Main state" \in Titles
      /\ "State" \in Titles /\ "End state" \in Titles
    BY DEF Titles
<1> QED
    BY <1>1, NamesFacts, Zenon

\* The opening of the channel, before what was said.
Two(x, y) == NewState(NewState(Empty, x), y)
Three(x, y, z) == NewState(Two(x, y), z)

OpenedOne ==
    NewTransition(NewState(NewState(NewState(Empty, <<"Start state", 0>>), <<"Main state", 0>>),
                           <<"End state", 0>>), "open", 1, 2, NoSymbol, {})
OpenedChain ==
    NewTransition(NewState(NewState(NewState(Empty, <<"Start state", 0>>), <<"State", 1>>),
                           <<"End state", 0>>), "open", 1, 2, NoSymbol, {})
OpenedTree ==
    NewTransition(NewState(NewState(Empty, <<"Start state", 0>>), <<"State", 0>>),
                  "open", 1, 2, NoSymbol, {})

LEMMA TwoFacts ==
    ASSUME NEW x \in Names, NEW y \in Names
    PROVE  Two(x, y) \in Laid(2) /\ Last1(Two(x, y)) = 2
<1>1. PICK one : one = NewState(Empty, x)
    OBVIOUS
<1>2. Last1(Empty) = 0
    BY EmptySound DEF Last1
<1>3. one \in Laid(1) /\ Last1(one) = 1
    BY <1>1, <1>2, EmptySound, NewStateLaid
<1>4. Sound(one) /\ Len(one.name) = 1
    BY <1>3, LaidFacts
<1>5. Len(one.name) + 1 >= 2
    BY <1>4
<1>6. PICK two : two = NewState(one, y) /\ two \in Laid(2) /\ Last1(two) = Last1(one) + 1
    BY <1>4, <1>5, NewStateLaid
<1> QED
    BY <1>1, <1>3, <1>6 DEF Two

LEMMA ThreeFacts ==
    ASSUME NEW x \in Names, NEW y \in Names, NEW z \in Names
    PROVE  Three(x, y, z) \in Laid(3)
<1>1. PICK two : two = Two(x, y) /\ two \in Laid(2) /\ Last1(two) = 2
    BY TwoFacts
<1>2. Sound(two) /\ Len(two.name) = 2
    BY <1>1, LaidFacts
<1>3. Len(two.name) + 1 >= 3
    BY <1>2
<1>4. NewState(two, z) \in Laid(3)
    BY <1>2, <1>3, NewStateLaid
<1> QED
    BY <1>1, <1>4 DEF Three

LEMMA OpenLaid ==
    ASSUME NEW n \in Nat, n >= 2, NEW h \in Laid(n)
    PROVE  NewTransition(h, "open", 1, 2, NoSymbol, {}) \in Laid(n)
<1>1. 1 \in Places(h) /\ 2 \in Places(h)
    BY LaidFacts
<1>2. "open" \in Kinds /\ NoSymbol \in Labels /\ {} \in SUBSET Labels
    BY SymbolsFacts DEF Kinds
<1> QED
    BY <1>1, <1>2, NewTransitionLaid

LEMMA OpenedFacts ==
    OpenedOne \in Laid(3) /\ OpenedChain \in Laid(3) /\ OpenedTree \in Laid(2)
<1>1. 0 \in Int /\ 1 \in Int
    OBVIOUS
<1>2. PICK x \in Names, y \in Names, z \in Names, w \in Names, v \in Names :
        /\ x = <<"Start state", 0>> /\ y = <<"Main state", 0>> /\ z = <<"End state", 0>>
        /\ w = <<"State", 1>> /\ v = <<"State", 0>>
    BY <1>1, AllNames, Zenon
<1>3. Three(x, y, z) \in Laid(3) /\ Three(x, w, z) \in Laid(3) /\ Two(x, v) \in Laid(2)
    BY ThreeFacts, TwoFacts
<1>4. /\ OpenedOne = NewTransition(Three(x, y, z), "open", 1, 2, NoSymbol, {})
      /\ OpenedChain = NewTransition(Three(x, w, z), "open", 1, 2, NoSymbol, {})
      /\ OpenedTree = NewTransition(Two(x, v), "open", 1, 2, NoSymbol, {})
    BY <1>2, Zenon DEF OpenedOne, OpenedChain, OpenedTree, Three, Two
<1> QED
    BY <1>3, <1>4, OpenLaid

LEMMA OneStateFacts ==
    ASSUME NEW abstract \in Seq(Messages)
    PROVE  OneState(abstract) \in Laid(3)
<1> DEFINE n == Len(Exchanges(abstract))
           Step(x, i) == NewTransition(x, "main", 2, 2, Exchanges(abstract)[i][1], {Exchanges(abstract)[i][2]})
           P == [i \in 0..n |-> Laid(3)]
           g == [i \in 1..n |-> [x \in P[i - 1] |-> Step(x, i)]]
           Right(u) == u = [i \in 0..n |-> IF i = 0 THEN OpenedOne
                              ELSE Step(u[i - 1], i)]
           Until == CHOOSE u : Right(u)
<1>n. n \in Nat
    BY ExchangesFacts, SequenceFacts
<1>0. n \in Nat /\ \A i \in 1..n : i \in 0..n /\ i - 1 \in 0..n /\ i # 0
    BY <1>n
<1>1. OpenedOne \in P[0]
    BY <1>0, OpenedFacts DEF P
<1>2. ASSUME NEW i \in 1..n, NEW x \in P[i - 1]
      PROVE  Step(x, i) \in P[i]
    <2>1. x \in Laid(3)
        BY <1>0, <1>2 DEF P
    <2>2. PICK y \in Labels, z \in Labels : y = Exchanges(abstract)[i][1] /\ z = Exchanges(abstract)[i][2]
        <3>1. Exchanges(abstract)[i] \in Labels \X Labels
            BY ExchangesFacts, SequenceFacts
        <3> QED
            BY <3>1
    <2>3. Step(x, i) \in Laid(3)
        <3>1. 2 \in Places(x)
            BY <2>1, LaidFacts
        <3>2. "main" \in Kinds /\ {z} \in SUBSET Labels
            BY DEF Kinds
        <3>3. NewTransition(x, "main", 2, 2, y, {z}) \in Laid(3)
            BY <2>1, <3>1, <3>2, NewTransitionLaid
        <3> QED
            BY <2>2, <3>3
    <2> HIDE DEF Step
    <2> QED
        BY <1>0, <2>3 DEF P
<1>3. \A i \in 1..n : \A x \in P[i - 1] : g[i][x] = Step(x, i)
    OBVIOUS
<1>a. Turns(n, P, g)
    <2> HIDE DEF P, g, Step
    <2> QED
        BY <1>2, <1>3 DEF Turns
<1> HIDE DEF P, g
<1>4. PICK u : IsLoop(u, n, OpenedOne, P, g)
    BY <1>0, <1>1, <1>a, LoopExists
<1>5. Right(u)
    <2> HIDE DEF Step
    <2>1. u = [i \in 0..n |-> IF i = 0 THEN OpenedOne ELSE g[i][u[i - 1]]]
        BY <1>4 DEF IsLoop
    <2>2. \A i \in 1..n : g[i][u[i - 1]] = Step(u[i - 1], i)
        BY <1>0, <1>3, <1>4 DEF IsLoop
    <2>3. \A i \in 0..n : i # 0 => i \in 1..n
        BY <1>0
    <2> QED
        BY <2>1, <2>2, <2>3
<1>6. Right(Until)
    BY <1>5
<1>7. OneState(abstract) = NewTransition(Until[n], "close", 2, 3, NoSymbol, {})
    BY <1>6 DEF OneState, OpenedOne
<1> HIDE DEF Until
<1>8. \A i \in 0..n : Until[i] \in P[i]
    <2> HIDE DEF Step
    <2>1. \A i \in 0..n : Until[i] = IF i = 0 THEN OpenedOne ELSE Step(Until[i - 1], i)
        BY <1>6
    <2>2. Until[0] = OpenedOne /\ \A i \in 1..n : Until[i] = Step(Until[i - 1], i)
        BY <1>0, <2>1
    <2>3. \A i \in 1..n : Until[i - 1] \in P[i - 1] => Until[i] \in P[i]
        <3> HIDE DEF Step
        <3> QED
            BY <1>2, <2>2
    <2> HIDE DEF Step
    <2> QED
        BY <1>0, <1>1, <2>2, <2>3, TurnByTurn
<1>9. Until[n] \in P[n] /\ n \in 0..n
    BY <1>0, <1>8
<1>10. Until[n] \in Laid(3)
    BY <1>9 DEF P
<1>11. 2 \in Places(Until[n]) /\ 3 \in Places(Until[n])
    BY <1>10, LaidFacts
<1>12. "close" \in Kinds /\ NoSymbol \in Labels /\ {} \in SUBSET Labels
    BY SymbolsFacts DEF Kinds
<1>13. NewTransition(Until[n], "close", 2, 3, NoSymbol, {}) \in Laid(3)
    BY <1>10, <1>11, <1>12, NewTransitionLaid
<1> QED
    BY <1>7, <1>13

LEMMA EndOfChainFacts ==
    ASSUME NEW h \in Laid(3)
    PROVE  EndOfChain(h) \in Places(h)
<1>1. PICK m \in Nat : m = Len(h.name) /\ m = Last1(h) /\ m >= 3 /\ Places(h) = 1..m
    BY LaidFacts
<1> QED
    BY <1>1 DEF EndOfChain

LEMMA LengthenFacts ==
    ASSUME NEW h \in Laid(3), NEW x \in Labels \X Labels
    PROVE  Lengthen(h, x) \in Laid(3)
<1>1. PICK y \in Labels, z \in Labels : y = x[1] /\ z = x[2]
    OBVIOUS
<1>2. PICK name \in Names : name = <<"State", Last1(h) - 1>>
    BY LaidFacts, AllNames, Zenon
<1>3. PICK more : more = NewState(h, name)
    OBVIOUS
<1>4. /\ more \in Laid(3) /\ Last1(h) + 1 \in Places(more)
      /\ \A s \in Places(h) : s \in Places(more)
    <2>1. Sound(h) /\ Len(h.name) + 1 >= 3
        BY LaidFacts
    <2> QED
        BY <1>3, <2>1, NewStateLaid
<1>5. EndOfChain(h) \in Places(more)
    BY <1>4, EndOfChainFacts
<1>6. "main" \in Kinds /\ {z} \in SUBSET Labels
    BY DEF Kinds
<1>7. NewTransition(more, "main", EndOfChain(h), Last1(h) + 1, y, {z}) \in Laid(3)
    BY <1>4, <1>5, <1>6, NewTransitionLaid
<1> QED
    BY <1>1, <1>2, <1>3, <1>7, Zenon DEF Lengthen

LEMMA ChainedFacts ==
    ASSUME NEW abstract \in Seq(Messages)
    PROVE  Chained(abstract) \in Laid(3)
<1> DEFINE n == Len(Exchanges(abstract))
           Step(x, i) == Lengthen(x, Exchanges(abstract)[i])
           P == [i \in 0..n |-> Laid(3)]
           g == [i \in 1..n |-> [x \in P[i - 1] |-> Step(x, i)]]
           Right(u) == u = [i \in 0..n |-> IF i = 0 THEN OpenedChain
                              ELSE Step(u[i - 1], i)]
           Until == CHOOSE u : Right(u)
<1>n. n \in Nat
    BY ExchangesFacts, SequenceFacts
<1>0. n \in Nat /\ \A i \in 1..n : i \in 0..n /\ i - 1 \in 0..n /\ i # 0
    BY <1>n
<1>1. OpenedChain \in P[0]
    BY <1>0, OpenedFacts DEF P
<1>2. ASSUME NEW i \in 1..n, NEW x \in P[i - 1]
      PROVE  Step(x, i) \in P[i]
    <2>1. x \in Laid(3)
        BY <1>0, <1>2 DEF P
    <2>2. Exchanges(abstract)[i] \in Labels \X Labels
        BY ExchangesFacts, SequenceFacts
    <2>3. Step(x, i) \in Laid(3)
        BY <2>1, <2>2, LengthenFacts
    <2> HIDE DEF Step
    <2> QED
        BY <1>0, <2>3 DEF P
<1>3. \A i \in 1..n : \A x \in P[i - 1] : g[i][x] = Step(x, i)
    OBVIOUS
<1>a. Turns(n, P, g)
    <2> HIDE DEF P, g, Step
    <2> QED
        BY <1>2, <1>3 DEF Turns
<1> HIDE DEF P, g
<1>4. PICK u : IsLoop(u, n, OpenedChain, P, g)
    BY <1>0, <1>1, <1>a, LoopExists
<1>5. Right(u)
    <2> HIDE DEF Step
    <2>1. u = [i \in 0..n |-> IF i = 0 THEN OpenedChain ELSE g[i][u[i - 1]]]
        BY <1>4 DEF IsLoop
    <2>2. \A i \in 1..n : g[i][u[i - 1]] = Step(u[i - 1], i)
        BY <1>0, <1>3, <1>4 DEF IsLoop
    <2>3. \A i \in 0..n : i # 0 => i \in 1..n
        BY <1>0
    <2> QED
        BY <2>1, <2>2, <2>3
<1>6. Right(Until)
    BY <1>5
<1>7. Chained(abstract) = NewTransition(Until[n], "close", EndOfChain(Until[n]), 3, NoSymbol, {})
    BY <1>6 DEF Chained, OpenedChain
<1> HIDE DEF Until
<1>8. \A i \in 0..n : Until[i] \in P[i]
    <2>1. \A i \in 0..n : Until[i] = IF i = 0 THEN OpenedChain ELSE Step(Until[i - 1], i)
        BY <1>6
    <2>2. Until[0] = OpenedChain /\ \A i \in 1..n : Until[i] = Step(Until[i - 1], i)
        BY <1>0, <2>1
    <2>3. \A i \in 1..n : Until[i - 1] \in P[i - 1] => Until[i] \in P[i]
        <3> HIDE DEF Step
        <3> QED
            BY <1>2, <2>2
    <2> HIDE DEF Step
    <2> QED
        BY <1>0, <1>1, <2>2, <2>3, TurnByTurn
<1>9. Until[n] \in P[n] /\ n \in 0..n
    BY <1>0, <1>8
<1>10. Until[n] \in Laid(3)
    BY <1>9 DEF P
<1>11. EndOfChain(Until[n]) \in Places(Until[n]) /\ 3 \in Places(Until[n])
    BY <1>10, LaidFacts, EndOfChainFacts
<1>12. "close" \in Kinds /\ NoSymbol \in Labels /\ {} \in SUBSET Labels
    BY SymbolsFacts DEF Kinds
<1>13. NewTransition(Until[n], "close", EndOfChain(Until[n]), 3, NoSymbol, {}) \in Laid(3)
    BY <1>10, <1>11, <1>12, NewTransitionLaid
<1> QED
    BY <1>7, <1>13

Walks == {acc \in [h : Laid(2), s : Nat] : acc.s \in Places(acc.h)}

LEMMA WalkFacts ==
    ASSUME NEW acc \in Walks, NEW x \in Labels \X Labels
    PROVE  Walk(acc, x) \in Walks
<1>1. PICK h \in Laid(2), s \in Nat : acc = [h |-> h, s |-> s] /\ s \in Places(h) /\ h = acc.h /\ s = acc.s
    BY DEF Walks
<1>2. Sound(h) /\ Typed(h) /\ Len(h.name) \in Nat /\ Len(h.name) + 1 >= 2
    BY LaidFacts
<1>3. CASE Follows(h, s, x)
    <2>1. PICK t : t = h.ts[s][1]
        OBVIOUS
    <2>2. t \in Range(h.ts[s])
        <3>1. Len(h.ts[s]) \in Nat /\ h.ts[s] \in Seq(Nat) /\ h.ts[s] # <<>>
            BY <1>1, <1>2, <1>3, TypedFacts DEF Follows
        <3>2. 1 \in 1..Len(h.ts[s])
            BY <3>1
        <3> QED
            BY <2>1, <3>1, <3>2, SequenceFacts
    <2>3. PICK r \in Places(h) : r = h.tr[t].to
        BY <1>1, <1>2, <2>2, SoundFacts
    <2>4. r \in Nat
        BY <1>2, TypedFacts
    <2>5. Walk(acc, x) = [h |-> h, s |-> r]
        BY <1>1, <1>3, <2>1, <2>3 DEF Walk
    <2> QED
        BY <2>4, <2>5 DEF Walks
<1>4. CASE ~Follows(h, s, x)
    <2>1. PICK y \in Labels, z \in Labels : y = x[1] /\ z = x[2]
        OBVIOUS
    <2>2. PICK name \in Names : name = <<"State", Last1(h) - 1>>
        BY LaidFacts, AllNames, Zenon
    <2>3. PICK more : more = NewState(h, name)
        OBVIOUS
    <2>4. /\ more \in Laid(2) /\ Last1(more) \in Places(more)
          /\ \A p \in Places(h) : p \in Places(more)
        BY <1>2, <2>3, NewStateLaid
    <2>5. "main" \in Kinds /\ {z} \in SUBSET Labels
        BY DEF Kinds
    <2>6. PICK k : k = NewTransition(more, "main", s, Last1(more), y, {z})
        OBVIOUS
    <2>7. k \in Laid(2) /\ Places(k) = Places(more)
        <3>1. s \in Places(more)
            BY <1>1, <2>4
        <3>2. Last1(more) \in Places(more)
            BY <2>4
        <3>3. PICK e : e = Last1(more)
            OBVIOUS
        <3>4. e \in Places(more) /\ more \in Laid(2) /\ 2 \in Nat
            BY <2>4, <3>2, <3>3
        <3>5. PICK out \in SUBSET Labels, kind \in Kinds : out = {z} /\ kind = "main"
            BY <2>5
        <3>6. NewTransition(more, kind, s, e, y, out) \in Laid(2)
            BY <3>1, <3>4, NewTransitionLaid
        <3>7. Places(NewTransition(more, kind, s, e, y, out)) = Places(more)
            BY <3>1, <3>4, NewTransitionLaid
        <3> QED
            BY <2>6, <3>3, <3>5, <3>6, <3>7
    <2>8. Last1(more) \in Nat
        BY <2>4, LaidFacts
    <2>9. Walk(acc, x) = [h |-> k, s |-> Last1(more)]
        BY <1>1, <1>4, <2>1, <2>2, <2>3, <2>6, Zenon DEF Walk
    <2> QED
        BY <2>4, <2>7, <2>8, <2>9 DEF Walks
<1> QED
    BY <1>3, <1>4

LEMMA CloseWalkFacts ==
    ASSUME NEW acc \in Walks
    PROVE  CloseWalk(acc) \in Laid(2)
<1>1. PICK h \in Laid(2), s \in Nat : s \in Places(h) /\ h = acc.h /\ s = acc.s
    BY DEF Walks
<1>2. Sound(h) /\ Typed(h) /\ Len(h.name) \in Nat /\ Len(h.name) + 1 >= 2
    BY LaidFacts
<1>3. PICK name \in Names : name = <<"End state", Last1(h) - 1>>
    BY LaidFacts, AllNames, Zenon
<1>4. PICK more : more = NewState(h, name)
    OBVIOUS
<1>5. /\ more \in Laid(2) /\ Last1(more) \in Places(more)
      /\ \A p \in Places(h) : p \in Places(more)
    BY <1>2, <1>4, NewStateLaid
<1>6. "close" \in Kinds /\ NoSymbol \in Labels /\ {} \in SUBSET Labels
    BY SymbolsFacts DEF Kinds
<1>7. NewTransition(more, "close", s, Last1(more), NoSymbol, {}) \in Laid(2)
    BY <1>1, <1>5, <1>6, NewTransitionLaid
<1> QED
    BY <1>1, <1>3, <1>4, <1>7, Zenon DEF CloseWalk

LEMMA MergeFacts ==
    ASSUME NEW h \in Laid(2), NEW said \in Seq(Labels \X Labels)
    PROVE  Merge(h, said) \in Laid(2)
<1> DEFINE n == Len(said)
           Step(x, i) == Walk(x, said[i])
           P == [i \in 0..n |-> Walks]
           g == [i \in 1..n |-> [x \in P[i - 1] |-> Step(x, i)]]
           Right(u) == u = [i \in 0..n |-> IF i = 0 THEN [h |-> h, s |-> 2]
                              ELSE Step(u[i - 1], i)]
           Until == CHOOSE u : Right(u)
<1>n. n \in Nat
    BY SequenceFacts
<1>0. n \in Nat /\ \A i \in 1..n : i \in 0..n /\ i - 1 \in 0..n /\ i # 0
    BY <1>n
<1>1. [h |-> h, s |-> 2] \in P[0]
    <2>1. 2 \in Places(h)
        BY LaidFacts
    <2>2. [h |-> h, s |-> 2] \in Walks
        BY <2>1 DEF Walks
    <2> QED
        BY <1>0, <2>2 DEF P
<1>2. ASSUME NEW i \in 1..n, NEW x \in P[i - 1]
      PROVE  Step(x, i) \in P[i]
    <2>1. x \in Walks
        BY <1>0, <1>2 DEF P
    <2>2. said[i] \in Labels \X Labels
        BY SequenceFacts
    <2>3. Step(x, i) \in Walks
        BY <2>1, <2>2, WalkFacts
    <2> HIDE DEF Step
    <2> QED
        BY <1>0, <2>3 DEF P
<1>3. \A i \in 1..n : \A x \in P[i - 1] : g[i][x] = Step(x, i)
    OBVIOUS
<1>a. Turns(n, P, g)
    <2> HIDE DEF P, g, Step
    <2> QED
        BY <1>2, <1>3 DEF Turns
<1> HIDE DEF P, g
<1>4. PICK u : IsLoop(u, n, [h |-> h, s |-> 2], P, g)
    BY <1>0, <1>1, <1>a, LoopExists
<1>5. Right(u)
    <2> HIDE DEF Step
    <2>1. u = [i \in 0..n |-> IF i = 0 THEN [h |-> h, s |-> 2] ELSE g[i][u[i - 1]]]
        BY <1>4 DEF IsLoop
    <2>2. \A i \in 1..n : g[i][u[i - 1]] = Step(u[i - 1], i)
        BY <1>0, <1>3, <1>4 DEF IsLoop
    <2>3. \A i \in 0..n : i # 0 => i \in 1..n
        BY <1>0
    <2> QED
        BY <2>1, <2>2, <2>3
<1>6. Right(Until)
    BY <1>5
<1>7. Merge(h, said) = CloseWalk(Until[n])
    BY <1>6 DEF Merge
<1> HIDE DEF Until
<1>8. \A i \in 0..n : Until[i] \in P[i]
    <2>1. \A i \in 0..n : Until[i] = IF i = 0 THEN [h |-> h, s |-> 2] ELSE Step(Until[i - 1], i)
        BY <1>6
    <2>2. Until[0] = [h |-> h, s |-> 2] /\ \A i \in 1..n : Until[i] = Step(Until[i - 1], i)
        BY <1>0, <2>1
    <2>3. \A i \in 1..n : Until[i - 1] \in P[i - 1] => Until[i] \in P[i]
        <3> HIDE DEF Step
        <3> QED
            BY <1>2, <2>2
    <2> HIDE DEF Step
    <2> QED
        BY <1>0, <1>1, <2>2, <2>3, TurnByTurn
<1>9. Until[n] \in P[n] /\ n \in 0..n
    BY <1>0, <1>8
<1>10. Until[n] \in Walks
    BY <1>9 DEF P
<1> QED
    BY <1>7, <1>10, CloseWalkFacts

LEMMA PTAFacts ==
    ASSUME NEW sessions \in Seq(Seq(Messages))
    PROVE  PTA(sessions) \in Laid(2)
<1> DEFINE n == Len(sessions)
           Step(x, i) == Merge(x, Exchanges(sessions[i]))
           P == [i \in 0..n |-> Laid(2)]
           g == [i \in 1..n |-> [x \in P[i - 1] |-> Step(x, i)]]
           Right(u) == u = [i \in 0..n |-> IF i = 0 THEN OpenedTree
                              ELSE Step(u[i - 1], i)]
           Until == CHOOSE u : Right(u)
<1>n. n \in Nat
    BY SequenceFacts
<1>0. n \in Nat /\ \A i \in 1..n : i \in 0..n /\ i - 1 \in 0..n /\ i # 0
    BY <1>n
<1>1. OpenedTree \in P[0]
    BY <1>0, OpenedFacts DEF P
<1>2. ASSUME NEW i \in 1..n, NEW x \in P[i - 1]
      PROVE  Step(x, i) \in P[i]
    <2>1. x \in Laid(2)
        BY <1>0, <1>2 DEF P
    <2>2. Exchanges(sessions[i]) \in Seq(Labels \X Labels)
        BY ExchangesFacts, SequenceFacts
    <2>3. Step(x, i) \in Laid(2)
        BY <2>1, <2>2, MergeFacts
    <2> HIDE DEF Step
    <2> QED
        BY <1>0, <2>3 DEF P
<1>3. \A i \in 1..n : \A x \in P[i - 1] : g[i][x] = Step(x, i)
    OBVIOUS
<1>a. Turns(n, P, g)
    <2> HIDE DEF P, g, Step
    <2> QED
        BY <1>2, <1>3 DEF Turns
<1> HIDE DEF P, g
<1>4. PICK u : IsLoop(u, n, OpenedTree, P, g)
    BY <1>0, <1>1, <1>a, LoopExists
<1>5. Right(u)
    <2> HIDE DEF Step
    <2>1. u = [i \in 0..n |-> IF i = 0 THEN OpenedTree ELSE g[i][u[i - 1]]]
        BY <1>4 DEF IsLoop
    <2>2. \A i \in 1..n : g[i][u[i - 1]] = Step(u[i - 1], i)
        BY <1>0, <1>3, <1>4 DEF IsLoop
    <2>3. \A i \in 0..n : i # 0 => i \in 1..n
        BY <1>0
    <2> QED
        BY <2>1, <2>2, <2>3
<1>6. Right(Until)
    BY <1>5
<1>7. PTA(sessions) = Until[n]
    BY <1>6 DEF PTA, OpenedTree
<1> HIDE DEF Until
<1>8. \A i \in 0..n : Until[i] \in P[i]
    <2>1. \A i \in 0..n : Until[i] = IF i = 0 THEN OpenedTree ELSE Step(Until[i - 1], i)
        BY <1>6
    <2>2. Until[0] = OpenedTree /\ \A i \in 1..n : Until[i] = Step(Until[i - 1], i)
        BY <1>0, <2>1
    <2>3. \A i \in 1..n : Until[i - 1] \in P[i - 1] => Until[i] \in P[i]
        <3> HIDE DEF Step
        <3> QED
            BY <1>2, <2>2
    <2> HIDE DEF Step
    <2> QED
        BY <1>0, <1>1, <2>2, <2>3, TurnByTurn
<1>9. Until[n] \in P[n] /\ n \in 0..n
    BY <1>0, <1>8
<1> QED
    BY <1>7, <1>9 DEF P

-----------------------------------------------------------------------------
(* The application changes a copy, whose states are mine.                  *)

\* Only the lists and the transitions of the states of mine change, and none
\* of these leads out of it.
EditOf(k, h, mine) ==
    /\ Sound(k) /\ k.name = h.name /\ Places(k) = Places(h) /\ Closed(k, mine)
    /\ \A r \in Places(h) \ mine : k.ts[r] = h.ts[r]
    /\ \A t \in 1..Len(h.tr) : h.tr[t].from \notin mine => k.tr[t] = h.tr[t]

\* A transition keeps its start and leads to another state of mine.
LEMMA SetTransitionEdit ==
    ASSUME NEW h, Sound(h), NEW mine \in SUBSET Places(h), Closed(h, mine), NEW t \in 1..Len(h.tr),
           h.tr[t].from \in mine, NEW u \in Arcs, u.from = h.tr[t].from, u.to \in mine
    PROVE  EditOf(SetTransition(h, t, u), h, mine)
<1>0. PICK k : k = SetTransition(h, t, u)
    OBVIOUS
<1>1. /\ Typed(k) /\ k.name = h.name /\ k.ts = h.ts /\ Places(k) = Places(h)
      /\ Len(k.tr) = Len(h.tr)
      /\ k.tr[t] = u /\ \A r \in 1..Len(h.tr) : r # t => k.tr[r] = h.tr[r]
    BY <1>0, SetTransitionFacts DEF Sound
<1>2. \A r \in 1..Len(h.tr) : k.tr[r].from = h.tr[r].from
    BY <1>1
<1>3. ArcsLead(k)
    <2>1. ASSUME NEW r \in 1..Len(k.tr) PROVE k.tr[r].from \in Places(k) /\ k.tr[r].to \in Places(k)
        <3>1. h.tr[r].from \in Places(h) /\ h.tr[r].to \in Places(h)
            BY <1>1 DEF Sound, ArcsLead
        <3> QED
            BY <1>1, <1>2, <3>1
    <2> QED
        BY <2>1 DEF ArcsLead
<1>4. ASSUME NEW s \in Places(k) PROVE Lists(k, s)
    <2>1. Lists(h, s)
        BY <1>1 DEF Sound
    <2> QED
        BY <1>1, <1>2, <2>1 DEF Lists
<1>5. Sound(k)
    BY <1>1, <1>3, <1>4 DEF Sound
<1>6. Closed(k, mine)
    <2>1. ASSUME NEW s \in mine, NEW r \in Range(h.ts[s]) PROVE k.tr[r].to \in mine
        <3>1. r \in 1..Len(h.tr)
            BY SoundFacts
        <3>2. h.tr[r].to \in mine
            BY DEF Closed
        <3> QED
            BY <1>1, <3>1, <3>2
    <2> QED
        BY <1>1, <2>1 DEF Closed
<1> QED
    BY <1>0, <1>1, <1>5, <1>6 DEF EditOf

IsRelisted(k, h, s, l) ==
    /\ Typed(k) /\ k.name = h.name /\ k.tr = h.tr /\ Places(k) = Places(h)
    /\ k.ts[s] = l /\ \A r \in Places(h) : r # s => k.ts[r] = h.ts[r]

LEMMA Relisted ==
    ASSUME NEW h, Typed(h), NEW s \in Places(h), NEW l \in Seq(Nat)
    PROVE  IsRelisted(SetTransitions(h, s, l), h, s, l)
BY SetTransitionsFacts DEF IsRelisted

\* The transition leaves the list of its start for the one of another state.
LEMMA MoveStartEdit ==
    ASSUME NEW h, Sound(h), NEW mine \in SUBSET Places(h), Closed(h, mine), NEW a \in mine,
           NEW t \in Range(h.ts[a]), NEW b \in mine
    PROVE  EditOf(MoveStart(h, t, b), h, mine)
<1>0. /\ t \in 1..Len(h.tr) /\ h.tr[t].from = a /\ h.tr[t].to \in Places(h)
      /\ h.ts[a] \in Seq(Nat) /\ IsInjective(h.ts[a]) /\ h.tr[t] \in Arcs
      /\ Typed(h) /\ t \in Nat /\ b \in Nat
    <2>1. t \in 1..Len(h.tr) /\ h.tr[t].from = a /\ h.tr[t].to \in Places(h)
        BY SoundFacts
    <2>2. Lists(h, a) /\ Typed(h)
        BY DEF Sound
    <2>3. h.ts[a] \in Seq(Nat) /\ b \in Nat /\ h.tr[t] \in Arcs
        BY <2>1, <2>2, TypedFacts
    <2> QED
        BY <2>1, <2>2, <2>3 DEF Lists
<1>1. PICK kept \in Seq(Nat) : /\ kept = Kept(h.ts[a], Range(h.ts[a]) \ {t}) /\ IsInjective(kept)
                               /\ Range(kept) = Range(h.ts[a]) \ {t}
    <2>1. Range(h.ts[a]) \cap (Range(h.ts[a]) \ {t}) = Range(h.ts[a]) \ {t}
        OBVIOUS
    <2> QED
        BY <1>0, <2>1, KeptFacts
<1>2. PICK left : left = SetTransitions(h, a, kept)
    OBVIOUS
<1>3. /\ Typed(left) /\ left.name = h.name /\ left.tr = h.tr /\ Places(left) = Places(h)
      /\ left.ts[a] = kept /\ \A r \in Places(h) : r # a => left.ts[r] = h.ts[r]
    <2>1. IsRelisted(left, h, a, kept)
        BY <1>0, <1>1, <1>2, Relisted
    <2> QED
        BY <2>1 DEF IsRelisted
<1>4. Sound(left)
    <2>1. Range(kept) \subseteq Range(h.ts[a])
        BY <1>1
    <2> QED
        BY <1>1, <1>2, <2>1, FewerTransitions
<1>5. ASSUME NEW r \in Places(h)
      PROVE  /\ t \notin Range(left.ts[r]) /\ Range(left.ts[r]) \subseteq Range(h.ts[r])
             /\ IsInjective(left.ts[r]) /\ left.ts[r] \in Seq(Nat)
             /\ \A x \in Range(left.ts[r]) : x \in 1..Len(h.tr) /\ h.tr[x].from = r
    <2>1. /\ IsInjective(left.ts[r]) /\ left.ts[r] \in Seq(Nat)
          /\ \A x \in Range(left.ts[r]) : x \in 1..Len(h.tr) /\ h.tr[x].from = r
        <3>1. Lists(left, r) /\ left.ts[r] \in Seq(Nat)
            BY <1>3, <1>4, TypedFacts DEF Sound
        <3> QED
            BY <1>3, <3>1 DEF Lists
    <2>2. t \notin Range(left.ts[r]) /\ Range(left.ts[r]) \subseteq Range(h.ts[r])
        <3>1. CASE r = a
            BY <1>1, <1>3, <3>1
        <3>2. CASE r # a
            BY <1>0, <1>3, <2>1, <3>2
        <3> QED
            BY <3>1, <3>2
    <2> QED
        BY <2>1, <2>2
<1>6. PICK list \in Seq(Nat) : /\ list = Append(left.ts[b], t) /\ IsInjective(list)
                               /\ Range(list) = Range(left.ts[b]) \cup {t}
    <2>1. PICK q \in Seq(Nat) : q = left.ts[b] /\ IsInjective(q) /\ t \notin Range(q)
        BY <1>5
    <2>2. PICK list \in Seq(Nat) : list = Append(q, t)
        BY <1>0, <2>1, AppendFacts
    <2>3. IsInjective(list) /\ Range(list) = Range(q) \cup {t}
        BY <1>0, <2>1, <2>2, AppendFacts
    <2> QED
        BY <2>1, <2>2, <2>3
<1>7. PICK there : there = SetTransitions(left, b, list)
    OBVIOUS
<1>8. /\ Typed(there) /\ there.name = h.name /\ there.tr = h.tr /\ Places(there) = Places(h)
      /\ there.ts[b] = list /\ \A r \in Places(h) : r # b => there.ts[r] = left.ts[r]
    <2>1. b \in Places(left) /\ Typed(left)
        BY <1>3
    <2>2. IsRelisted(there, left, b, list)
        BY <1>7, <2>1, Relisted
    <2> QED
        BY <1>3, <2>2 DEF IsRelisted
<1>9. PICK u \in Arcs : u = [h.tr[t] EXCEPT !.from = b] /\ u.from = b /\ u.to = h.tr[t].to
    <2>1. PICK v \in Arcs : v = h.tr[t]
        BY <1>0
    <2>2. PICK u : u = [v EXCEPT !.from = b]
        OBVIOUS
    <2>3. u \in Arcs /\ u.from = b /\ u.to = v.to
        BY <1>0, <2>2 DEF Arcs
    <2> QED
        BY <2>1, <2>2, <2>3
<1>10. PICK k : k = SetTransition(there, t, u)
    OBVIOUS
<1>11. /\ Typed(k) /\ k.name = h.name /\ k.ts = there.ts /\ Places(k) = Places(h)
       /\ Len(k.tr) = Len(h.tr)
       /\ k.tr[t] = u /\ \A r \in 1..Len(h.tr) : r # t => k.tr[r] = h.tr[r]
    <2>1. t \in 1..Len(there.tr)
        BY <1>0, <1>8
    <2> QED
        BY <1>8, <1>10, <2>1, SetTransitionFacts
<1>12. k = MoveStart(h, t, b)
    BY <1>0, <1>1, <1>2, <1>6, <1>7, <1>9, <1>10, Zenon DEF MoveStart
<1>13. ArcsLead(k)
    <2>1. ASSUME NEW r \in 1..Len(k.tr) PROVE k.tr[r].from \in Places(k) /\ k.tr[r].to \in Places(k)
        <3>1. h.tr[r].from \in Places(h) /\ h.tr[r].to \in Places(h)
            BY <1>11 DEF Sound, ArcsLead
        <3> QED
            BY <1>0, <1>9, <1>11, <3>1
    <2> QED
        BY <2>1 DEF ArcsLead
<1>14. ASSUME NEW r \in Places(k) PROVE Lists(k, r)
    <2>1. CASE r = b
        <3>1. IsInjective(k.ts[b]) /\ Range(k.ts[b]) = Range(left.ts[b]) \cup {t}
            BY <1>6, <1>8, <1>11
        <3>2. ASSUME NEW x \in Range(k.ts[b]) PROVE x \in 1..Len(k.tr) /\ k.tr[x].from = b
            <4>1. CASE x = t
                BY <1>0, <1>9, <1>11, <4>1
            <4>2. CASE x # t
                <5>1. x \in Range(left.ts[b]) /\ b \in Places(h)
                    BY <3>1, <4>2
                <5>2. x \in 1..Len(h.tr) /\ h.tr[x].from = b
                    BY <1>5, <5>1
                <5> QED
                    BY <1>11, <4>2, <5>2
            <4> QED
                BY <4>1, <4>2
        <3> QED
            BY <2>1, <3>1, <3>2 DEF Lists
    <2>2. CASE r # b
        <3>1. k.ts[r] = left.ts[r] /\ r \in Places(h)
            BY <1>8, <1>11, <2>2
        <3>2. ASSUME NEW x \in Range(k.ts[r]) PROVE x \in 1..Len(k.tr) /\ k.tr[x].from = r
            <4>1. x # t /\ x \in 1..Len(h.tr) /\ h.tr[x].from = r
                BY <1>5, <3>1
            <4> QED
                BY <1>11, <4>1
        <3> QED
            BY <1>5, <3>1, <3>2 DEF Lists
    <2> QED
        BY <2>1, <2>2
<1>15. Sound(k)
    BY <1>11, <1>13, <1>14 DEF Sound
<1>16. Closed(k, mine)
    <2>1. ASSUME NEW r \in mine, NEW x \in Range(k.ts[r]) PROVE k.tr[x].to \in mine
        <3>1. CASE x = t
            <4>1. h.tr[t].to \in mine
                BY DEF Closed
            <4> QED
                BY <1>9, <1>11, <3>1, <4>1
        <3>2. CASE x # t
            <4>1. x \in Range(left.ts[r])
                <5>1. k.ts[r] = there.ts[r] /\ r \in Places(h)
                    BY <1>11
                <5>2. CASE r = b
                    <6>1. x \in Range(list)
                        BY <1>8, <5>1, <5>2
                    <6> QED
                        BY <1>6, <3>2, <5>2, <6>1
                <5>3. CASE r # b
                    BY <1>8, <5>1, <5>3
                <5> QED
                    BY <5>2, <5>3
            <4>2. x \in Range(h.ts[r]) /\ x \in 1..Len(h.tr)
                BY <1>5, <4>1
            <4>3. h.tr[x].to \in mine
                BY <4>2 DEF Closed
            <4> QED
                BY <1>11, <3>2, <4>2, <4>3
        <3> QED
            BY <3>1, <3>2
    <2> QED
        BY <2>1 DEF Closed
<1>17. \A r \in Places(h) \ mine : k.ts[r] = h.ts[r]
    BY <1>3, <1>8, <1>11
<1>18. \A x \in 1..Len(h.tr) : h.tr[x].from \notin mine => k.tr[x] = h.tr[x]
    BY <1>0, <1>11
<1> QED
    BY <1>11, <1>12, <1>15, <1>16, <1>17, <1>18 DEF EditOf

\* What does not share a state with mine stays as it was.
LEMMA EditKeeps ==
    ASSUME NEW h, Sound(h), NEW mine, NEW k, EditOf(k, h, mine), NEW s0 \in Places(h),
           Reach(h, s0) \cap mine = {}
    PROVE  Reach(k, s0) = Reach(h, s0) /\ Outline(k, s0) = Outline(h, s0)
<1> DEFINE R == Reach(h, s0)
<1>1. R \subseteq Places(h) /\ R \cap mine = {}
    BY ReachFacts DEF IsReach
<1> HIDE DEF R
<1>2. Sound(k) /\ k.name = h.name /\ Places(k) = Places(h)
    BY DEF EditOf
<1>3. AgreeOn(k, h, R)
    <2>1. ASSUME NEW s \in R PROVE k.name[s] = h.name[s] /\ k.ts[s] = h.ts[s]
        BY <1>1 DEF EditOf
    <2>2. ASSUME NEW s \in R, NEW t \in Range(h.ts[s]) PROVE k.tr[t] = h.tr[t]
        <3>1. t \in 1..Len(h.tr) /\ h.tr[t].from = s
            BY <1>1, SoundFacts
        <3> QED
            BY <1>1, <3>1 DEF EditOf
    <2> QED
        BY <2>1, <2>2 DEF AgreeOn
<1>4. AgreeOn(k, h, Reach(h, s0)) /\ Reach(h, s0) \subseteq Places(k)
    BY <1>1, <1>2, <1>3 DEF R
<1> QED
    BY <1>2, <1>4, SameAutomaton

\* The edited automaton stays within mine.
LEMMA EditStays ==
    ASSUME NEW h, Sound(h), NEW d \in Places(h), NEW k, EditOf(k, h, Reach(h, d))
    PROVE  Reach(k, d) \subseteq Reach(h, d)
<1>1. IsReach(h, d, Reach(h, d))
    BY ReachFacts
<1>2. Sound(k) /\ d \in Places(k) /\ Closed(k, Reach(h, d))
    BY DEF EditOf
<1>3. IsReach(k, d, Reach(k, d))
    BY <1>2, ReachFacts
<1> QED
    BY <1>1, <1>2, <1>3 DEF IsReach

-----------------------------------------------------------------------------
(***************************************************************************)
(* The inductive invariant.  The heap is sound; no automaton is derived    *)
(* before there is one; and a copy never comes to share a state with its   *)
(* original, however often it is edited.                                   *)
(***************************************************************************)
DerivedLater ==
    /\ factory = "none" => origin = NoState
    /\ origin = NoState => how = "none"
    /\ how = "none" => derived = NoState
    /\ origin \in Places(heap) \cup {NoState} /\ derived \in Places(heap) \cup {NoState}

NothingShared ==
    how = "copy" => /\ origin # NoState /\ derived # NoState
                    /\ Reach(heap, derived) \cap Reach(heap, origin) = {}

IInv ==
    /\ captures \in Seq(Seq(Messages)) /\ edits \in Nat
    /\ Sound(heap) /\ DerivedLater /\ NothingShared /\ CopiesAreFaithful

LEMMA InitInv == Init => IInv
<1> SUFFICES ASSUME Init PROVE IInv
    OBVIOUS
<1>1. captures \in Seq(Seq(Messages))
    BY AutomataAssumption DEF Init, AutomataAssumption
<1>2. Sound(heap)
    BY EmptySound DEF Init
<1> QED
    BY <1>1, <1>2 DEF IInv, Init, DerivedLater, NothingShared, CopiesAreFaithful

\* An automaton is built, or built further: nothing is derived from it yet.
LEMMA BuildingInv ==
    ASSUME IInv, Sound(heap'), origin' \in Places(heap'), factory' # "none", how = "none",
           UNCHANGED <<captures, derived, how, edits>>
    PROVE  IInv'
<1>1. NoState \notin Places(heap')
    <2>1. \A s \in Places(heap') : s # 0
        BY DEF Places
    <2> QED
        BY <2>1 DEF NoState
<1>2. derived = NoState
    BY DEF IInv, DerivedLater
<1>3. captures' \in Seq(Seq(Messages)) /\ edits' \in Nat
    BY DEF IInv
<1>4. DerivedLater'
    BY <1>1, <1>2 DEF DerivedLater
<1>5. NothingShared' /\ CopiesAreFaithful'
    BY DEF NothingShared, CopiesAreFaithful
<1> QED
    BY <1>3, <1>4, <1>5 DEF IInv

LEMMA SessionsFacts ==
    ASSUME IInv
    PROVE  /\ Sessions \in Seq(Seq(Messages))
           /\ captures # <<>> => Sessions[1] \in Seq(Messages)
<1>1. PICK n \in Nat : n = Len(captures) /\ \A i \in 1..n : captures[i] \in Seq(Messages)
    BY SequenceFacts DEF IInv
<1>2. \A i \in 1..n : Abstract(captures[i]) \in Seq(Messages)
    BY <1>1, AbstractFacts
<1>3. Sessions = [i \in 1..n |-> Abstract(captures[i])]
    BY <1>1 DEF Sessions
<1>4. Sessions \in Seq(Seq(Messages)) /\ \A i \in 1..n : Sessions[i] \in Seq(Messages)
    BY <1>2, <1>3
<1>5. captures # <<>> => n # 0
    BY <1>1 DEF IInv
<1>6. n # 0 => 1 \in 1..n
    OBVIOUS
<1> QED
    BY <1>4, <1>5, <1>6

LEMMA BuiltInv ==
    ASSUME IInv, factory = "none", NEW f, f # "none", NEW n \in Nat, n # 0, NEW h \in Laid(n), Built(f, h)
    PROVE  IInv'
<1>1. how = "none"
    BY DEF IInv, DerivedLater
<1>2. Sound(h) /\ 1 \in Places(h)
    <2>1. 1 \in 1..n
        OBVIOUS
    <2> QED
        BY <2>1, LaidFacts
<1>3. Sound(heap') /\ origin' \in Places(heap') /\ factory' # "none"
    BY <1>2 DEF Built
<1>4. UNCHANGED <<captures, derived, how, edits>>
    BY DEF Built
<1> QED
    BY <1>1, <1>3, <1>4, BuildingInv

LEMMA GenerateInv ==
    ASSUME IInv, GenerateOneState \/ GenerateChained \/ GeneratePTA
    PROVE  IInv'
<1>1. CASE GenerateOneState
    <2>1. OneState(Sessions[1]) \in Laid(3)
        BY <1>1, SessionsFacts, OneStateFacts DEF GenerateOneState
    <2>2. factory = "none" /\ Built("one", OneState(Sessions[1]))
        BY <1>1 DEF GenerateOneState
    <2> QED
        BY <2>1, <2>2, BuiltInv
<1>2. CASE GenerateChained
    <2>1. Chained(Sessions[1]) \in Laid(3)
        BY <1>2, SessionsFacts, ChainedFacts DEF GenerateChained
    <2>2. factory = "none" /\ Built("chained", Chained(Sessions[1]))
        BY <1>2 DEF GenerateChained
    <2> QED
        BY <2>1, <2>2, BuiltInv
<1>3. CASE GeneratePTA
    <2>1. PTA(Sessions) \in Laid(2)
        BY SessionsFacts, PTAFacts
    <2>2. factory = "none" /\ Built("pta", PTA(Sessions))
        BY <1>3 DEF GeneratePTA
    <2> QED
        BY <2>1, <2>2, BuiltInv
<1> QED
    BY <1>1, <1>2, <1>3

LEMMA BuildInv ==
    ASSUME IInv, Build
    PROVE  IInv'
<1>1. PICK x \in Names : x = <<"State", 0>>
    <2>1. 0 \in Int
        OBVIOUS
    <2> QED
        BY <2>1, AllNames, Zenon
<1>2. NewState(Empty, x) \in Laid(1)
    <2>1. Len(Empty.name) + 1 >= 1
        BY EmptySound
    <2> QED
        BY <2>1, EmptySound, NewStateLaid
<1>3. factory = "none" /\ Built("user", NewState(Empty, x))
    BY <1>1, Zenon DEF Build
<1> QED
    BY <1>2, <1>3, BuiltInv

LEMMA AddStateInv ==
    ASSUME IInv, AddState
    PROVE  IInv'
<1>1. /\ factory = "user" /\ how = "none" /\ UNCHANGED <<captures, origin, factory, derived, how, edits>>
      /\ heap' = NewState(heap, <<"State", Len(heap.name)>>)
    BY DEF AddState
<1>2. Sound(heap) /\ Typed(heap) /\ Len(heap.name) \in Int
    <2>1. Sound(heap) /\ Typed(heap)
        BY DEF IInv, Sound
    <2>2. Len(heap.name) \in Nat
        BY <2>1, TypedFacts
    <2> QED
        BY <2>1, <2>2
<1>3. PICK x \in Names : x = <<"State", Len(heap.name)>>
    BY <1>2, AllNames, Zenon
<1>4. heap' = NewState(heap, x)
    BY <1>1, <1>3, Zenon
<1>5. Sound(heap') /\ IsPushedState(heap', heap, x, <<>>)
    BY <1>2, <1>4, NewStateSound, NewStateFacts
<1>6. CASE origin = NoState
    <2>1. /\ captures' \in Seq(Seq(Messages)) /\ edits' \in Nat /\ derived = NoState
        BY <1>1 DEF IInv, DerivedLater
    <2> QED
        BY <1>1, <1>5, <1>6, <2>1 DEF IInv, DerivedLater, NothingShared, CopiesAreFaithful
<1>7. CASE origin # NoState
    <2>1. origin \in Places(heap)
        BY <1>7 DEF IInv, DerivedLater
    <2>2. origin' \in Places(heap')
        BY <1>1, <1>5, <2>1 DEF IsPushedState
    <2>3. factory' # "none"
        BY <1>1
    <2> QED
        BY <1>1, <1>5, <2>2, <2>3, BuildingInv
<1> QED
    BY <1>6, <1>7

LEMMA AddTransitionInv ==
    ASSUME IInv, AddTransition
    PROVE  IInv'
<1>1. PICK a \in 1..Len(heap.name), b \in 1..Len(heap.name), kind \in Kinds, in0 \in AllSymbols :
        /\ factory = "user" /\ how = "none"
        /\ heap' = NewTransition(heap, kind, a, b, IF kind = "main" THEN in0 ELSE NoSymbol,
                                 IF kind = "main" THEN {in0} ELSE {})
        /\ UNCHANGED <<captures, origin, factory, derived, how, target, edits>>
    BY DEF AddTransition
<1>2. a \in Places(heap) /\ b \in Places(heap) /\ Sound(heap)
    BY DEF Places, IInv
<1>3. PICK in \in Labels, out \in SUBSET Labels :
        /\ in = IF kind = "main" THEN in0 ELSE NoSymbol
        /\ out = IF kind = "main" THEN {in0} ELSE {}
    <2>1. in0 \in Labels /\ NoSymbol \in Labels
        BY SymbolsFacts
    <2> QED
        BY <2>1
<1>4. heap' = NewTransition(heap, kind, a, b, in, out)
    BY <1>1, <1>3
<1>5. IsNewTransition(heap', heap, a)
    BY <1>2, <1>4, NewTransitionFacts
<1>6. Sound(heap') /\ Places(heap') = Places(heap)
    BY <1>5 DEF IsNewTransition
<1>7. CASE origin = NoState
    <2>1. /\ captures' \in Seq(Seq(Messages)) /\ edits' \in Nat /\ derived = NoState
        BY <1>1 DEF IInv, DerivedLater
    <2> QED
        BY <1>1, <1>6, <1>7, <2>1 DEF IInv, DerivedLater, NothingShared, CopiesAreFaithful
<1>8. CASE origin # NoState
    <2>1. origin' \in Places(heap')
        BY <1>1, <1>6, <1>8 DEF IInv, DerivedLater
    <2>2. factory' # "none"
        BY <1>1
    <2> QED
        BY <1>1, <1>6, <2>1, <2>2, BuildingInv
<1> QED
    BY <1>7, <1>8

\* The original is as it was, and the invariant holds.
Kept1 == IInv' /\ Outline(heap', origin) = Outline(heap, origin)

\* An automaton is derived in a heap that keeps the objects of this one.
LEMMA DerivedInv ==
    ASSUME IInv, NEW s, NEW h, NEW ok, NEW by, by \notin {"none", "copy"}, Derived(s, h, ok, by),
           Sound(h), Grown(h, heap), s \in Places(h)
    PROVE  Kept1
<1>1. /\ origin # NoState /\ how = "none" /\ heap' = h
      /\ derived' = (IF ok THEN s ELSE NoState) /\ how' = (IF ok THEN by ELSE "raised")
      /\ UNCHANGED <<captures, origin, factory, edits>>
    BY DEF Derived
<1>2. Sound(heap) /\ origin \in Places(heap) /\ captures' \in Seq(Seq(Messages)) /\ edits' \in Nat
      /\ factory # "none"
    BY <1>1 DEF IInv, DerivedLater
<1>3. Outline(h, origin) = Outline(heap, origin) /\ Places(heap) \subseteq Places(h)
    BY <1>2, GrownKeeps
<1>4. how' \notin {"none", "copy"} /\ derived' \in Places(h) \cup {NoState}
    BY <1>1
<1>5. DerivedLater'
    BY <1>1, <1>2, <1>3, <1>4 DEF DerivedLater
<1>6. NothingShared' /\ CopiesAreFaithful'
    BY <1>4 DEF NothingShared, CopiesAreFaithful
<1> QED
    BY <1>1, <1>2, <1>3, <1>5, <1>6 DEF Kept1, IInv

\* What the copy of the automaton is, before it is given away or mutated.
IsCopied ==
    /\ Sound(heap) /\ origin \in Places(heap)
    /\ IsFaithful(Copied.h, CopyInit, heap, origin)
    /\ Copied.h \in Work(heap, Places(Copied.h))
    /\ MainStates(Copied.h, CopyInit) \in Seq(Places(Copied.h) \ Places(heap))

LEMMA CopiedFacts ==
    ASSUME IInv, origin # NoState
    PROVE  IsCopied
<1>1. Sound(heap) /\ origin \in Places(heap)
    BY DEF IInv, DerivedLater
<1>2. PICK k, d : k = Copied.h /\ d = CopyInit
    OBVIOUS
<1>3. IsFaithful(k, d, heap, origin)
    BY <1>1, <1>2, CopyIsFaithful DEF Copied, CopyInit
<1>4. Sound(k) /\ Grown(k, heap) /\ d \in Places(k) /\ Reach(k, d) \cap Places(heap) = {}
    BY <1>3 DEF IsFaithful
<1>5. k \in Work(heap, Places(k))
    BY <1>4, SoundIsHeap DEF Work
<1>6. Reach(k, d) \subseteq Places(k) \ Places(heap)
    BY <1>4, ReachFacts DEF IsReach
<1>7. MainStates(k, d) \in Seq(Places(k) \ Places(heap))
    BY <1>4, <1>6, MainStatesFacts
<1> QED
    BY <1>1, <1>2, <1>3, <1>5, <1>7 DEF IsCopied

LEMMA CopyInv ==
    ASSUME IInv, Copy
    PROVE  Kept1
<1>1. PICK k, d : k = Copied.h /\ d = CopyInit
    OBVIOUS
<1>2. /\ origin # NoState /\ how = "none" /\ heap' = k /\ derived' = d /\ how' = "copy"
      /\ UNCHANGED <<captures, origin, factory, edits>>
    BY <1>1 DEF Copy, Derived
<1>3. Sound(heap) /\ origin \in Places(heap) /\ IsFaithful(k, d, heap, origin)
    BY <1>1, <1>2, CopiedFacts DEF IsCopied
<1>4. /\ Sound(k) /\ Grown(k, heap) /\ d \in Places(k) /\ k.name[d] = heap.name[origin]
      /\ Outline(k, d) = Outline(heap, origin) /\ Reach(k, d) \cap Places(heap) = {}
      /\ Objects(k, d) \cap (1..Len(heap.tr)) = {}
    BY <1>3 DEF IsFaithful
<1>5. /\ Reach(k, origin) = Reach(heap, origin) /\ Outline(k, origin) = Outline(heap, origin)
      /\ Places(heap) \subseteq Places(k)
    BY <1>3, <1>4, GrownKeeps
<1>6. Reach(heap, origin) \subseteq Places(heap)
    BY <1>3, ReachFacts DEF IsReach
<1>7. Reach(k, d) \cap Reach(k, origin) = {}
    BY <1>4, <1>5, <1>6
<1>8. Objects(k, origin) \subseteq 1..Len(heap.tr)
    <2>1. ASSUME NEW s \in Reach(k, origin), NEW t \in Range(k.ts[s]) PROVE t \in 1..Len(heap.tr)
        <3>1. s \in Places(heap) /\ k.ts[s] = heap.ts[s]
            BY <1>4, <1>5, <1>6 DEF Grown
        <3> QED
            BY <1>3, <3>1, SoundFacts
    <2> QED
        BY <2>1 DEF Objects
<1>9. k.name[origin] = heap.name[origin]
    BY <1>3, <1>4 DEF Grown
<1>10. d # NoState
    <2>1. \A s \in Places(k) : s # 0
        BY DEF Places
    <2> QED
        BY <1>4, <2>1 DEF NoState
<1>11. captures' \in Seq(Seq(Messages)) /\ edits' \in Nat /\ factory # "none"
    BY <1>2 DEF IInv, DerivedLater
<1>12. DerivedLater'
    BY <1>2, <1>3, <1>4, <1>5, <1>11 DEF DerivedLater
<1>13. NothingShared'
    BY <1>2, <1>7, <1>10 DEF NothingShared
<1>14. CopiesAreFaithful'
    <2>1. /\ k.name[d] = k.name[origin] /\ Outline(k, d) = Outline(k, origin)
          /\ Reach(k, d) \cap Reach(k, origin) = {} /\ Objects(k, d) \cap Objects(k, origin) = {}
        BY <1>4, <1>5, <1>7, <1>8, <1>9
    <2> QED
        BY <1>2, <2>1 DEF CopiesAreFaithful
<1> QED
    BY <1>2, <1>4, <1>5, <1>11, <1>12, <1>13, <1>14 DEF Kept1, IInv

\* A mutation works on the copy.
LEMMA MutationInv ==
    ASSUME IInv, origin # NoState, NEW res \in Worked(heap, Places(Copied.h)),
           NEW by, by \notin {"none", "copy"}, Mutation(res, by)
    PROVE  Kept1
<1>1. Sound(heap) /\ CopyInit \in Places(Copied.h)
    BY CopiedFacts DEF IsCopied, IsFaithful
<1>2. res.h \in Work(heap, Places(Copied.h))
    BY DEF Worked
<1>3. Sound(res.h) /\ Grown(res.h, heap) /\ Places(res.h) = Places(Copied.h)
    BY <1>1, <1>2, WorkFacts
<1>4. PICK ok : ok = (res.ok /\ ~MainRaises(Copied.h, CopyInit))
    OBVIOUS
<1>5. Derived(CopyInit, res.h, ok, by)
    BY <1>4 DEF Mutation
<1>6. CopyInit \in Places(res.h)
    BY <1>1, <1>3
<1> QED
    BY <1>3, <1>5, <1>6, DerivedInv

LEMMA MutateInv ==
    ASSUME IInv, MutateAtRandom \/ MutateFully \/ MutateToOneState \/ MutateToTarget
    PROVE  Kept1
<1>1. origin # NoState
    BY DEF MutateAtRandom, MutateFully, MutateToOneState, MutateToTarget
<1>2. PICK k, all, main : k = Copied.h /\ all = Places(Copied.h) /\ main = MainStates(Copied.h, CopyInit)
    OBVIOUS
<1>3. Sound(heap) /\ k \in Work(heap, all) /\ main \in Seq(all \ Places(heap))
    BY <1>1, <1>2, CopiedFacts DEF IsCopied
<1>4. CASE MutateAtRandom
    <2>1. PICK drawn \in UNION {kSubset(i, 1..Len(main)) : i \in 0..MaxDraws} :
          \E choice \in [drawn -> 1..Len(main)] : Mutation(MutateRandom(k, main, choice), "random")
        BY <1>2, <1>4 DEF MutateAtRandom
    <2>2. PICK choice \in [drawn -> 1..Len(main)] : Mutation(MutateRandom(k, main, choice), "random")
        BY <2>1
    <2>3. MutateRandom(k, main, choice) \in Worked(heap, all)
        BY <1>3, MutateRandomFacts
    <2> QED
        BY <1>1, <1>2, <2>2, <2>3, MutationInv
<1>5. CASE MutateFully
    <2>1. Mutation(MutateFull(k, main), "full")
        BY <1>2, <1>5 DEF MutateFully
    <2>2. MutateFull(k, main) \in Worked(heap, all)
        BY <1>3, MutateFullFacts
    <2> QED
        BY <1>1, <1>2, <2>1, <2>2, MutationInv
<1>6. CASE MutateToOneState
    <2>1. Derived(Last1(heap) + 1, MutateOneState(heap).h, TRUE, "onestate")
        BY <1>6 DEF MutateToOneState
    <2>2. /\ Sound(MutateOneState(heap).h) /\ Grown(MutateOneState(heap).h, heap)
          /\ Last1(heap) + 1 \in Places(MutateOneState(heap).h)
        BY <1>3, MutateOneStateFacts
    <2>3. PICK s, h, by : s = Last1(heap) + 1 /\ h = MutateOneState(heap).h /\ by = "onestate"
        OBVIOUS
    <2>4. PICK ok \in BOOLEAN : ok
        OBVIOUS
    <2>5. Derived(s, h, ok, by)
        <3>1. ok = TRUE
            BY <2>4
        <3> QED
            BY <2>1, <2>3, <3>1
    <2>6. Sound(h) /\ Grown(h, heap) /\ s \in Places(h) /\ by \notin {"none", "copy"}
        BY <2>2, <2>3
    <2> QED
        BY <2>5, <2>6, DerivedInv
<1>7. CASE MutateToTarget
    <2>1. PICK name, path : Mutation(MutateTargeted(k, main, name, path), "targeted")
        BY <1>2, <1>7 DEF MutateToTarget
    <2>2. MutateTargeted(k, main, name, path) \in Worked(heap, all)
        BY <1>3, MutateTargetedFacts
    <2> QED
        BY <1>1, <1>2, <2>1, <2>2, MutationInv
<1> QED
    BY <1>4, <1>5, <1>6, <1>7

\* An edit keeps to the states of the copy.
LEMMA EditInv ==
    ASSUME IInv, Edit
    PROVE  Kept1
<1>1. PICK mine : mine = Range(GetStates(heap, derived))
    OBVIOUS
<1>2. mine = Reach(heap, derived)
    BY <1>1 DEF Reach
<1>3. PICK s \in mine : \E t \in Range(heap.ts[s]), b \in mine :
         \/ heap' = SetTransition(heap, t, [heap.tr[t] EXCEPT !.to = b])
         \/ heap' = MoveStart(heap, t, b)
         \/ heap' = SetTransition(heap, t, [heap.tr[t] EXCEPT !.out = AllSymbols])
    BY <1>1 DEF Edit
<1>4. PICK t \in Range(heap.ts[s]), b \in mine :
         \/ heap' = SetTransition(heap, t, [heap.tr[t] EXCEPT !.to = b])
         \/ heap' = MoveStart(heap, t, b)
         \/ heap' = SetTransition(heap, t, [heap.tr[t] EXCEPT !.out = AllSymbols])
    BY <1>3
<1>5. how = "copy" /\ edits' = edits + 1 /\ UNCHANGED <<captures, origin, factory, derived, how>>
    BY DEF Edit
<1>6. /\ Sound(heap) /\ origin # NoState /\ derived # NoState /\ edits \in Nat
      /\ captures \in Seq(Seq(Messages)) /\ origin \in Places(heap) /\ derived \in Places(heap)
      /\ mine \cap Reach(heap, origin) = {} /\ factory # "none"
    BY <1>2, <1>5 DEF IInv, DerivedLater, NothingShared
<1>7. mine \in SUBSET Places(heap) /\ Closed(heap, mine)
    BY <1>2, <1>6, ReachFacts DEF IsReach
<1>8. t \in 1..Len(heap.tr) /\ heap.tr[t].from = s /\ heap.tr[t].to \in mine
    <2>1. t \in 1..Len(heap.tr) /\ heap.tr[t].from = s
        BY <1>6, <1>7, SoundFacts
    <2>2. heap.tr[t].to \in mine
        BY <1>7 DEF Closed
    <2> QED
        BY <2>1, <2>2
<1>9. PICK u \in Arcs : u = heap.tr[t]
    BY <1>6, <1>8, TypedFacts DEF Sound
<1>10. b \in Nat
    BY <1>6, <1>7, TypedFacts DEF Sound
<1>11. EditOf(heap', heap, mine)
    <2>1. CASE heap' = SetTransition(heap, t, [heap.tr[t] EXCEPT !.to = b])
        <3>1. PICK v : v = [u EXCEPT !.to = b]
            OBVIOUS
        <3>2. v \in Arcs /\ v.from = u.from /\ v.to = b
            BY <1>10, <3>1 DEF Arcs
        <3>3. EditOf(SetTransition(heap, t, v), heap, mine)
            BY <1>6, <1>7, <1>8, <1>9, <3>2, SetTransitionEdit
        <3> QED
            BY <1>9, <2>1, <3>1, <3>3
    <2>2. CASE heap' = MoveStart(heap, t, b)
        BY <1>6, <1>7, <2>2, MoveStartEdit
    <2>3. CASE heap' = SetTransition(heap, t, [heap.tr[t] EXCEPT !.out = AllSymbols])
        <3>1. PICK v : v = [u EXCEPT !.out = AllSymbols]
            OBVIOUS
        <3>2. v \in Arcs /\ v.from = u.from /\ v.to = u.to
            BY <3>1, SymbolsFacts DEF Arcs
        <3>3. EditOf(SetTransition(heap, t, v), heap, mine)
            BY <1>6, <1>7, <1>8, <1>9, <3>2, SetTransitionEdit
        <3> QED
            BY <1>9, <2>3, <3>1, <3>3
    <2> QED
        BY <1>4, <2>1, <2>2, <2>3
<1>12. Sound(heap') /\ Places(heap') = Places(heap)
    BY <1>11 DEF EditOf
<1>13. Reach(heap', origin) = Reach(heap, origin) /\ Outline(heap', origin) = Outline(heap, origin)
    BY <1>6, <1>11, EditKeeps
<1>14. Reach(heap', derived) \subseteq mine
    BY <1>2, <1>6, <1>11, EditStays
<1>15. edits' \in Nat /\ edits' # 0
    BY <1>5, <1>6
<1>16. DerivedLater'
    BY <1>5, <1>6, <1>12 DEF DerivedLater
<1>17. NothingShared'
    BY <1>5, <1>6, <1>13, <1>14 DEF NothingShared
<1>18. CopiesAreFaithful'
    BY <1>15 DEF CopiesAreFaithful
<1> QED
    BY <1>5, <1>6, <1>12, <1>13, <1>15, <1>16, <1>17, <1>18 DEF Kept1, IInv

LEMMA NextInv == IInv /\ [Next]_vars => IInv'
<1> SUFFICES ASSUME IInv, [Next]_vars PROVE IInv'
    OBVIOUS
<1>1. CASE GenerateOneState \/ GenerateChained \/ GeneratePTA
    BY <1>1, GenerateInv
<1>2. CASE Build
    BY <1>2, BuildInv
<1>3. CASE AddState
    BY <1>3, AddStateInv
<1>4. CASE AddTransition
    BY <1>4, AddTransitionInv
<1>5. CASE Copy
    BY <1>5, CopyInv DEF Kept1
<1>6. CASE MutateAtRandom \/ MutateFully \/ MutateToOneState \/ MutateToTarget
    BY <1>6, MutateInv DEF Kept1
<1>7. CASE Edit
    BY <1>7, EditInv DEF Kept1
<1>8. CASE UNCHANGED vars
    BY <1>8 DEF vars, IInv, DerivedLater, NothingShared, CopiesAreFaithful
<1> QED
    BY <1>1, <1>2, <1>3, <1>4, <1>5, <1>6, <1>7, <1>8 DEF Next

LEMMA Invariant == Spec => []IInv
BY InitInv, NextInv, PTL DEF Spec

LEMMA SoundGraph == IInv => GraphSound
<1> SUFFICES ASSUME IInv PROVE GraphSound
    OBVIOUS
<1>1. /\ Sound(heap) /\ Typed(heap) /\ origin \in Places(heap) \cup {NoState}
      /\ derived \in Places(heap) \cup {NoState}
    BY DEF IInv, DerivedLater, Sound
<1>2. TypeOK
    <2>1. Len(heap.name) = Len(heap.ts) /\ {origin, derived} \subseteq Places(heap) \cup {NoState}
        BY <1>1 DEF Typed
    <2>2. ASSUME NEW t \in Range(heap.tr)
          PROVE  t.kind \in Kinds /\ {t.from, t.to} \subseteq Places(heap)
        <3>1. PICK i \in 1..Len(heap.tr) : t = heap.tr[i]
            <4>1. heap.tr \in Seq(Arcs)
                BY <1>1, TypedFacts
            <4> QED
                BY <4>1, SequenceFacts
        <3>2. t \in Arcs
            BY <1>1, <3>1, TypedFacts
        <3>3. heap.tr[i].from \in Places(heap) /\ heap.tr[i].to \in Places(heap)
            BY <1>1 DEF Sound, ArcsLead
        <3> QED
            BY <3>1, <3>2, <3>3 DEF Arcs
    <2>3. ASSUME NEW s \in Places(heap)
          PROVE  /\ IsInjective(heap.ts[s])
                 /\ \A t \in Range(heap.ts[s]) : t \in DOMAIN heap.tr /\ heap.tr[t].from = s
        <3>1. DOMAIN heap.tr = 1..Len(heap.tr)
            <4>1. heap.tr \in Seq(Arcs)
                BY <1>1, TypedFacts
            <4> QED
                BY <4>1
        <3>2. Lists(heap, s)
            BY <1>1 DEF Sound
        <3> QED
            BY <3>1, <3>2 DEF Lists
    <2> QED
        BY <2>1, <2>2, <2>3 DEF TypeOK
<1>3. StatesAreReachable
    <2>1. SUFFICES ASSUME NEW s0 \in {origin, derived} \ {NoState}
          PROVE  LET states == GetStates(heap, s0)
                     all == Range(states)
                 IN  /\ IsInjective(states) /\ s0 \in all /\ Closed(heap, all)
                     /\ \A set \in SUBSET all : s0 \in set /\ Closed(heap, set) => set = all
        BY DEF StatesAreReachable
    <2>2. s0 \in Places(heap)
        BY <1>1
    <2>3. IsInjective(GetStates(heap, s0)) /\ IsReach(heap, s0, Range(GetStates(heap, s0)))
        BY <1>1, <2>2, GetStatesFacts
    <2> QED
        BY <2>3 DEF IsReach
<1> QED
    BY <1>2, <1>3 DEF GraphSound

-----------------------------------------------------------------------------
(* Whatever is built by hand, from sessions, copied, mutated or edited,    *)
(* and however many states, transitions and edits there are: a transition  *)
(* is listed once, by the state where it starts and nowhere else, it leads *)
(* to a state, and Automata.getStates returns after two turns for each     *)
(* state with exactly the states that can be reached, each once.           *)
THEOREM GraphIsSound == Spec => []GraphSound
BY Invariant, SoundGraph, PTL

(* Automata.copy gives, for every automaton, cyclic or not, an automaton   *)
(* with the same named states and the same transitions in the same order,  *)
(* which shares neither a state nor a transition with its original.        *)
THEOREM CopyIsFaithfulAndApart == Spec => []CopiesAreFaithful
<1>1. IInv => CopiesAreFaithful
    BY DEF IInv
<1> QED
    BY <1>1, Invariant, PTL

LEMMA OriginalKept ==
    IInv /\ [Next]_vars => [how' # "none" => Outline(heap', origin) = Outline(heap, origin)]_vars
<1> SUFFICES ASSUME IInv, Next, how' # "none"
             PROVE  Outline(heap', origin) = Outline(heap, origin)
    OBVIOUS
<1>1. CASE GenerateOneState \/ GenerateChained \/ GeneratePTA \/ Build
    <2>1. factory = "none" /\ how' = how
        BY <1>1 DEF GenerateOneState, GenerateChained, GeneratePTA, Build, Built
    <2>2. how = "none"
        BY <2>1 DEF IInv, DerivedLater
    <2> QED
        BY <2>1, <2>2
<1>2. CASE AddState \/ AddTransition
    <2>1. how = "none" /\ how' = how
        BY <1>2 DEF AddState, AddTransition
    <2> QED
        BY <2>1
<1>3. CASE Copy
    BY <1>3, CopyInv DEF Kept1
<1>4. CASE MutateAtRandom \/ MutateFully \/ MutateToOneState \/ MutateToTarget
    BY <1>4, MutateInv DEF Kept1
<1>5. CASE Edit
    BY <1>5, EditInv DEF Kept1
<1> QED
    BY <1>1, <1>2, <1>3, <1>4, <1>5 DEF Next

(* Copying an automaton, mutating it by any strategy, also when this       *)
(* raises, and every later edit of the copy leave the original's states,   *)
(* transitions and their order as they were.                               *)
THEOREM OriginalIsUntouched == Spec => OriginalUntouched
BY Invariant, OriginalKept, PTL DEF Spec, OriginalUntouched
=============================================================================
