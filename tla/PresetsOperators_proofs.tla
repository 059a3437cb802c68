----------------------- MODULE PresetsOperators_proofs -----------------------
(***************************************************************************)
(* What the operators of Presets compute, for any tree of variables, any   *)
(* fields and any parameters: the dictionaries, the keys that give way,    *)
(* the mutators that a call of fuzz makes, and how far their mutation      *)
(* reaches.  A loop is a recursive function: a lemma *Loop says that the   *)
(* function exists and takes the turns of the loop, and TurnByTurn that    *)
(* what each turn keeps holds after all of them.                           *)
(***************************************************************************)
EXTENDS Presets, SequenceTheorems, FiniteSetTheorems, WellFoundedInduction, TLAPS

\* A set of numbers that is not empty has a least element.
LEMMA LeastElement ==
    ASSUME NEW S \in SUBSET Nat, S # {}
    PROVE  \E i \in S : \A j \in S : i <= j
<1>1. PICK i \in S : \A j \in S : ~(<<j, i>> \in OpToRel(<, Nat))
    BY NatLessThanWellFounded, WFMin
<1>2. ASSUME NEW j \in S PROVE i <= j
    <2>1. ~(<<j, i>> \in OpToRel(<, Nat))
        BY <1>1
    <2>2. ~(j < i)
        BY <2>1 DEF OpToRel
    <2> QED
        BY <2>2
<1> QED
    BY <1>2

\* What holds of the first of some values, and with each of the next, holds of
\* all: P[i] is the set of the values for which it holds at i.
LEMMA TurnByTurn ==
    ASSUME NEW n \in Nat, NEW u, NEW P, u[0] \in P[0],
           \A i \in 1..n : u[i - 1] \in P[i - 1] => u[i] \in P[i]
    PROVE  \A i \in 0..n : u[i] \in P[i]
<1> DEFINE R == {i \in 0..n : u[i] \notin P[i]}
<1>1. SUFFICES ASSUME R # {}
               PROVE  FALSE
    OBVIOUS
<1>2. PICK i \in R : \A j \in R : i <= j
    <2>1. R \in SUBSET Nat
        OBVIOUS
    <2> QED
        BY <1>1, <2>1, LeastElement
<1>3. i # 0 /\ i \in 1..n /\ i - 1 \in 0..n /\ ~(i <= i - 1)
    OBVIOUS
<1>4. u[i - 1] \in P[i - 1]
    BY <1>2, <1>3
<1> QED
    BY <1>3, <1>4

\* u[i] is what n turns that take a value of S to another make of a.
IsLoop(u, n, S, a, f) ==
    u \in [0..n -> S] /\ u[0] = a /\ \A i \in 1..n : u[i] = f[i][u[i - 1]]
Turns(n, S) == [1..n -> [S -> S]]

\* A loop that stays in the set S has a function of its turns.
LEMMA LoopExists ==
    ASSUME NEW n \in Nat, NEW S, NEW a \in S, NEW f \in Turns(n, S)
    PROVE  \E u : IsLoop(u, n, S, a, f)
<1> USE DEF Turns
<1> DEFINE Runs(m) == {u \in [0..m -> S] :
                         \A i \in 0..m : u[i] = IF i = 0 THEN a ELSE f[i][u[i - 1]]}
           T == {m \in Nat : Runs(m) # {}}
           id == [m \in 0..n |-> m]
           P == [m \in 0..n |-> T]
<1>1. id[0] \in P[0]
    <2>1. [i \in 0..0 |-> a] \in Runs(0)
        OBVIOUS
    <2> QED
        BY <2>1
<1>2. ASSUME NEW m \in 1..n, id[m - 1] \in P[m - 1]
      PROVE  id[m] \in P[m]
    <2>0. m - 1 \in 0..n /\ m \in 0..n /\ m - 1 \in Nat /\ m \in Nat
        OBVIOUS
    <2>1. PICK u \in [0..(m - 1) -> S] :
              \A i \in 0..(m - 1) : u[i] = IF i = 0 THEN a ELSE f[i][u[i - 1]]
        BY <1>2, <2>0
    <2> DEFINE g == [i \in 0..m |-> IF i = m THEN f[m][u[m - 1]] ELSE u[i]]
    <2>2. g \in [0..m -> S]
        <3>1. m - 1 \in 0..(m - 1) /\ \A i \in 0..m : i # m => i \in 0..(m - 1)
            BY <2>0
        <3> QED
            BY <2>1, <3>1
    <2>3. ASSUME NEW i \in 0..m
          PROVE  g[i] = IF i = 0 THEN a ELSE f[i][g[i - 1]]
        <3>1. CASE i = m
            <4>1. i # 0 /\ i - 1 = m - 1 /\ m - 1 \in 0..m /\ m - 1 # m
                BY <2>0, <3>1
            <4> QED
                BY <3>1, <4>1
        <3>2. CASE i # m
            <4>1. i \in 0..(m - 1) /\ (i # 0 => i - 1 \in 0..m /\ i - 1 # m)
                BY <2>0, <3>2
            <4>2. g[i] = u[i] /\ (i # 0 => g[i - 1] = u[i - 1])
                BY <3>2, <4>1
            <4> QED
                BY <2>1, <4>1, <4>2
        <3> QED
            BY <3>1, <3>2
    <2>4. g \in Runs(m)
        BY <2>2, <2>3
    <2> HIDE DEF Runs
    <2> QED
        BY <2>0, <2>4
<1> HIDE DEF T
<1>3. n \in T
    <2> HIDE DEF id, P
    <2>1. \A i \in 0..n : id[i] \in P[i]
        BY <1>1, <1>2, TurnByTurn
    <2> QED
        BY <2>1 DEF id, P
<1>4. PICK u \in Runs(n) : TRUE
    BY <1>3 DEF T
<1>5. 0 \in 0..n /\ \A i \in 1..n : i \in 0..n /\ i # 0
    OBVIOUS
<1> QED
    BY <1>4, <1>5 DEF IsLoop

\* What makes the same turns is that function.
LEMMA LoopIs ==
    ASSUME NEW n \in Nat, NEW S, NEW a \in S, NEW f \in Turns(n, S),
           NEW u, u = [i \in 0..n |-> u[i]], u[0] = a,
           \A i \in 1..n : u[i - 1] \in S => u[i] = f[i][u[i - 1]]
    PROVE  IsLoop(u, n, S, a, f)
<1> DEFINE P == [i \in 0..n |-> S]
<1>1. u[0] \in P[0]
    OBVIOUS
<1>2. ASSUME NEW i \in 1..n, u[i - 1] \in P[i - 1]
      PROVE  u[i] \in P[i]
    <2>1. i \in 0..n /\ i - 1 \in 0..n
        OBVIOUS
    <2>2. u[i - 1] \in S
        BY <1>2, <2>1
    <2>3. u[i] = f[i][u[i - 1]] /\ f[i][u[i - 1]] \in S
        BY <2>2 DEF Turns
    <2> QED
        BY <2>1, <2>3
<1>3. \A i \in 0..n : u[i] \in P[i]
    <2> HIDE DEF P
    <2> QED
        BY <1>1, <1>2, TurnByTurn
<1>4. \A i \in 0..n : u[i] \in S
    BY <1>3
<1>5. ASSUME NEW i \in 1..n PROVE u[i] = f[i][u[i - 1]]
    <2>1. i - 1 \in 0..n
        OBVIOUS
    <2> QED
        BY <1>4, <2>1
<1>6. u \in [0..n -> S]
    BY <1>4
<1> QED
    BY <1>5, <1>6 DEF IsLoop

\* The turns of a sequence s, and that each place has one.
LEMMA Places ==
    ASSUME NEW S, NEW s \in Seq(S)
    PROVE  /\ Len(s) \in Nat /\ 0 \in 0..Len(s) /\ Len(s) \in 0..Len(s)
           /\ \A i \in 1..Len(s) : i \in 0..Len(s) /\ i - 1 \in 0..Len(s) /\ i # 0 /\ s[i] \in S
           /\ \A i \in 0..Len(s) : i # 0 => i \in 1..Len(s)
           /\ DOMAIN s = 1..Len(s)
OBVIOUS

-----------------------------------------------------------------------------
(* Sequences that are kept in part. *)

\* Append adds one element to what is in a sequence.
LEMMA AppendSet ==
    ASSUME NEW S, NEW s \in Seq(S), NEW e \in S
    PROVE  /\ Append(s, e) \in Seq(S)
           /\ ToSet(Append(s, e)) = ToSet(s) \cup {e}
           /\ IsInjective(s) /\ e \notin ToSet(s) => IsInjective(Append(s, e))
<1>0. PICK t \in Seq(S) : t = Append(s, e)
    BY AppendProperties
<1>1. /\ Len(t) = Len(s) + 1 /\ DOMAIN t = 1..(Len(s) + 1)
      /\ \A i \in 1..Len(s) : t[i] = s[i]
      /\ t[Len(s) + 1] = e
    BY <1>0, AppendProperties
<1>2. DOMAIN s = 1..Len(s) /\ Len(s) \in Nat
    OBVIOUS
<1>3. /\ \A i \in 1..(Len(s) + 1) : i \in 1..Len(s) \/ i = Len(s) + 1
      /\ \A i \in 1..Len(s) : i \in 1..(Len(s) + 1)
      /\ Len(s) + 1 \in 1..(Len(s) + 1)
    BY <1>2
<1>4. ToSet(t) = ToSet(s) \cup {e}
    BY <1>1, <1>2, <1>3 DEF ToSet
<1>5. ASSUME IsInjective(s), e \notin ToSet(s) PROVE IsInjective(t)
    <2>1. \A i \in 1..Len(s) : s[i] # e
        BY <1>2, <1>5 DEF ToSet
    <2>2. \A i, j \in 1..Len(s) : s[i] = s[j] => i = j
        BY <1>2, <1>5 DEF IsInjective
    <2> QED
        BY <1>1, <1>3, <2>1, <2>2 DEF IsInjective
<1> QED
    BY <1>0, <1>4, <1>5

\* The turns of Kept.
KeptTurns(S, s, kept, u) ==
    /\ u \in [0..Len(s) -> Seq(S)] /\ u[0] = <<>>
    /\ \A i \in 1..Len(s) : u[i] = (IF s[i] \in kept THEN Append(u[i - 1], s[i]) ELSE u[i - 1])
    /\ Kept(s, kept) = u[Len(s)]

\* The recursive function of Kept exists and takes its turns.
LEMMA KeptLoop ==
    ASSUME NEW S, NEW s \in Seq(S), NEW kept
    PROVE  \E u : KeptTurns(S, s, kept, u)
<1> DEFINE turn == [i \in 1..Len(s) |-> [x \in Seq(S) |-> (IF s[i] \in kept THEN Append(x, s[i]) ELSE x)]]
           Right(u) == u = [i \in 0..Len(s) |-> IF i = 0 THEN <<>> ELSE (IF s[i] \in kept THEN Append(u[i - 1], s[i]) ELSE u[i - 1])]
           Until == CHOOSE u : Right(u)
<1>0. s \in Seq(S)
    OBVIOUS
<1>1. turn \in Turns(Len(s), Seq(S)) /\ <<>> \in Seq(S)
    <2>1. \A i \in 1..Len(s), x \in Seq(S) : (IF s[i] \in kept THEN Append(x, s[i]) ELSE x) \in Seq(S)
        OBVIOUS
    <2> QED
        BY <2>1 DEF Turns
<1>2. \A i \in 1..Len(s), x \in Seq(S) : turn[i][x] = (IF s[i] \in kept THEN Append(x, s[i]) ELSE x)
    OBVIOUS
<1> HIDE DEF turn
<1>3. PICK u : IsLoop(u, Len(s), Seq(S), <<>>, turn)
    BY <1>0, <1>1, Places, LoopExists
<1>4. Right(u)
    <2>1. u \in [0..Len(s) -> Seq(S)] /\ u[0] = <<>>
        BY <1>3 DEF IsLoop
    <2>2. ASSUME NEW i \in 0..Len(s), i # 0
          PROVE  u[i] = (IF s[i] \in kept THEN Append(u[i - 1], s[i]) ELSE u[i - 1])
        <3>1. i \in 1..Len(s) /\ u[i - 1] \in Seq(S)
            BY <1>0, <2>1, <2>2, Places
        <3> QED
            BY <1>2, <1>3, <3>1 DEF IsLoop
    <2> QED
        BY <2>1, <2>2
<1>5. Right(Until)
    <2> HIDE DEF Right
    <2> QED
        BY <1>4
<1>6. Kept(s, kept) = Until[Len(s)]
    BY DEF Kept
<1> HIDE DEF Until
<1>7. /\ Until = [i \in 0..Len(s) |-> Until[i]] /\ Until[0] = <<>>
      /\ \A i \in 1..Len(s) : Until[i] = (IF s[i] \in kept THEN Append(Until[i - 1], s[i]) ELSE Until[i - 1])
    BY <1>0, <1>5, Places
<1> HIDE DEF Right
<1>8. IsLoop(Until, Len(s), Seq(S), <<>>, turn)
    <2>1. \A i \in 1..Len(s) : Until[i - 1] \in Seq(S) => Until[i] = turn[i][Until[i - 1]]
        BY <1>2, <1>7
    <2> QED
        BY <1>0, <1>1, <1>7, <2>1, Places, LoopIs
<1> QED
    BY <1>6, <1>7, <1>8 DEF IsLoop, KeptTurns

\* What is kept are the elements of the set, and no two of them come from one.
LEMMA KeptFacts ==
    ASSUME NEW S, NEW s \in Seq(S), NEW kept
    PROVE  /\ Kept(s, kept) \in Seq(S)
           /\ ToSet(Kept(s, kept)) = ToSet(s) \cap kept
           /\ IsInjective(s) => IsInjective(Kept(s, kept))
<1>1. PICK u : KeptTurns(S, s, kept, u)
    BY KeptLoop
<1> USE DEF KeptTurns
<1> DEFINE First(i) == {s[j] : j \in 1..i}
           P == [i \in 0..Len(s) |-> {x \in Seq(S) :
                    /\ ToSet(x) = First(i) \cap kept
                    /\ IsInjective(s) => IsInjective(x)}]
<1>2. u[0] \in P[0]
    BY <1>1, Places DEF ToSet, IsInjective
<1>3. ASSUME NEW i \in 1..Len(s), u[i - 1] \in P[i - 1]
      PROVE  u[i] \in P[i]
    <2>0. i \in 0..Len(s) /\ i - 1 \in 0..Len(s) /\ s[i] \in S
        BY Places
    <2>1. PICK x \in Seq(S) : x = u[i - 1] /\ ToSet(x) = First(i - 1) \cap kept
                              /\ (IsInjective(s) => IsInjective(x))
        BY <1>3, <2>0
    <2>2. First(i) = First(i - 1) \cup {s[i]}
        <3>1. \A j \in 1..i : j = i \/ j \in 1..(i - 1)
            BY <2>0
        <3>2. \A j \in 1..(i - 1) : j \in 1..i
            BY <2>0
        <3> QED
            BY <2>0, <3>1, <3>2
    <2>3. CASE s[i] \in kept
        <3>1. u[i] = Append(x, s[i]) /\ u[i] \in Seq(S)
            BY <1>1, <2>0, <2>1, <2>3
        <3>2. ASSUME IsInjective(s) PROVE s[i] \notin First(i - 1)
            BY <2>0, <3>2 DEF IsInjective
        <3>3. IsInjective(s) => IsInjective(u[i])
            BY <2>0, <2>1, <3>1, <3>2, AppendSet
        <3>4. ToSet(u[i]) = First(i) \cap kept
            BY <2>0, <2>1, <2>2, <2>3, <3>1, AppendSet
        <3> QED
            BY <2>0, <3>1, <3>3, <3>4
    <2>4. CASE s[i] \notin kept
        BY <1>1, <2>0, <2>1, <2>2, <2>4
    <2> QED
        BY <2>3, <2>4
<1>4. \A i \in 0..Len(s) : u[i] \in P[i]
    <2> HIDE DEF P
    <2> QED
        BY <1>2, <1>3, Places, TurnByTurn
<1>5. First(Len(s)) = ToSet(s)
    BY Places DEF ToSet
<1> QED
    BY <1>1, <1>4, <1>5, Places

-----------------------------------------------------------------------------
(* Ordered dictionaries. *)

Entries == [key : Keys, raw : BOOLEAN, id : Nat]
Distinct(fields) ==
    \A i, j \in DOMAIN fields : fields[i].key = fields[j].key => i = j
Dicts == {fields \in Seq(Entries) : Distinct(fields)}

\* The entry of a key.
At(fields, k) == fields[IndexOf(fields, k)]

\* The keys of a sequence of entries, and the first entry of each.
LEMMA KeysFacts ==
    ASSUME NEW f \in Seq(Entries)
    PROVE  /\ ToSet(f) \in SUBSET Entries
           /\ KeysOf(f) = {x.key : x \in ToSet(f)}
           /\ KeysOf(f) \in SUBSET Keys
           /\ \A k \in KeysOf(f) : At(f, k) \in ToSet(f) /\ At(f, k).key = k
           /\ \A k \in KeysOf(f) : IndexOf(f, k) \in 1..Len(f)
           /\ \A i \in 1..Len(f) : f[i] \in ToSet(f)
<1>1. DOMAIN f = 1..Len(f) /\ \A i \in 1..Len(f) : f[i] \in Entries
    OBVIOUS
<1>2. ASSUME NEW k \in KeysOf(f)
      PROVE  IndexOf(f, k) \in DOMAIN f /\ f[IndexOf(f, k)].key = k
    <2>1. \E i \in DOMAIN f : f[i].key = k
        BY DEF KeysOf
    <2> QED
        BY <2>1 DEF IndexOf
<1>3. \A x \in Entries : x.key \in Keys
    BY DEF Entries
<1>4. ToSet(f) \in SUBSET Entries
    BY <1>1 DEF ToSet
<1>5. KeysOf(f) = {x.key : x \in ToSet(f)}
    BY <1>1 DEF ToSet, KeysOf
<1>6. KeysOf(f) \in SUBSET Keys
    BY <1>3, <1>4, <1>5
<1>7. \A k \in KeysOf(f) : At(f, k) \in ToSet(f) /\ At(f, k).key = k
    BY <1>2 DEF At, ToSet
<1> QED
    BY <1>1, <1>2, <1>4, <1>5, <1>6, <1>7 DEF ToSet

\* In a dictionary, a key leads to the one entry that has it.
LEMMA DictFacts ==
    ASSUME NEW f \in Dicts
    PROVE  /\ f \in Seq(Entries)
           /\ \A x, y \in ToSet(f) : x.key = y.key => x = y
           /\ \A x \in ToSet(f) : x.key \in KeysOf(f) /\ At(f, x.key) = x
<1>1. f \in Seq(Entries) /\ Distinct(f)
    BY DEF Dicts
<1>2. \A x, y \in ToSet(f) : x.key = y.key => x = y
    BY <1>1 DEF ToSet, Distinct
<1>3. \A x \in ToSet(f) : x.key \in KeysOf(f)
    BY <1>1, KeysFacts
<1> QED
    BY <1>1, <1>2, <1>3, KeysFacts

\* Put replaces the entry of its key.
LEMMA PutFacts ==
    ASSUME NEW f \in Seq(Entries), NEW e \in Entries
    PROVE  /\ Put(f, e) \in Seq(Entries)
           /\ f \in Dicts => /\ Put(f, e) \in Dicts
                             /\ ToSet(Put(f, e)) = {x \in ToSet(f) : x.key # e.key} \cup {e}
<1>0. DOMAIN f = 1..Len(f) /\ Len(f) \in Nat /\ \A i \in 1..Len(f) : f[i] \in Entries
    OBVIOUS
<1>1. CASE e.key \in KeysOf(f)
    <2> DEFINE n == IndexOf(f, e.key)
    <2>1. n \in 1..Len(f) /\ f[n].key = e.key
        BY <1>1, KeysFacts DEF At
    <2> HIDE DEF n
    <2>g. PICK g \in Seq(Entries) : g = [f EXCEPT ![n] = e]
        BY <2>1, ExceptSeq
    <2>2. /\ Len(g) = Len(f) /\ DOMAIN g = 1..Len(f)
          /\ \A i \in 1..Len(f) : g[i] = IF i = n THEN e ELSE f[i]
        BY <2>1, <2>g, ExceptSeq
    <2>3. Put(f, e) = g
        BY <1>1, <2>g DEF Put, n
    <2>4. ASSUME f \in Dicts
          PROVE  Distinct(g) /\ ToSet(g) = {x \in ToSet(f) : x.key # e.key} \cup {e}
        <3>1. \A i, j \in 1..Len(f) : f[i].key = f[j].key => i = j
            BY <1>0, <2>4 DEF Dicts, Distinct
        <3>2. \A i \in 1..Len(f) : f[i].key = e.key <=> i = n
            BY <2>1, <3>1
        <3>3. \A i \in 1..Len(f) : g[i].key = f[i].key
            BY <2>1, <2>2
        <3>4. Distinct(g)
            BY <2>2, <3>1, <3>3 DEF Distinct
        <3>5. ToSet(g) = {x \in ToSet(f) : x.key # e.key} \cup {e}
            BY <1>0, <2>1, <2>2, <3>2 DEF ToSet
        <3> QED
            BY <3>4, <3>5
    <2> QED
        BY <2>2, <2>3, <2>4 DEF Dicts
<1>2. CASE e.key \notin KeysOf(f)
    <2>g. PICK g \in Seq(Entries) : g = Append(f, e)
        BY AppendProperties
    <2>1. /\ Len(g) = Len(f) + 1 /\ DOMAIN g = 1..(Len(f) + 1)
          /\ \A i \in 1..Len(f) : g[i] = f[i]
          /\ g[Len(f) + 1] = e
        BY <2>g, AppendProperties
    <2>2. Put(f, e) = g
        BY <1>2, <2>g DEF Put
    <2>3. \A x \in ToSet(f) : x.key # e.key
        BY <1>2, KeysFacts
    <2>4. ASSUME f \in Dicts
          PROVE  Distinct(g)
        <3>1. \A i \in 1..(Len(f) + 1) : i \in 1..Len(f) \/ i = Len(f) + 1
            BY <1>0
        <3>2. \A i \in 1..Len(f) : f[i].key # e.key
            BY <1>0, <2>3 DEF ToSet
        <3> QED
            BY <1>0, <2>1, <2>4, <3>1, <3>2 DEF Distinct, Dicts
    <2>5. ToSet(g) = ToSet(f) \cup {e}
        BY <2>g, AppendSet
    <2> QED
        BY <2>1, <2>2, <2>3, <2>4, <2>5 DEF Dicts
<1> QED
    BY <1>1, <1>2

\* The turns of PutAll.
PutTurns(f, new, u) ==
    /\ u \in [0..Len(new) -> Seq(Entries)] /\ u[0] = f
    /\ \A i \in 1..Len(new) : u[i] = Put(u[i - 1], new[i])
    /\ PutAll(f, new) = u[Len(new)]

\* The recursive function of PutAll exists and takes its turns.
LEMMA PutAllLoop ==
    ASSUME NEW f \in Seq(Entries), NEW new \in Seq(Entries)
    PROVE  \E u : PutTurns(f, new, u)
<1> DEFINE turn == [i \in 1..Len(new) |-> [x \in Seq(Entries) |-> Put(x, new[i])]]
           Right(u) == u = [i \in 0..Len(new) |-> IF i = 0 THEN f ELSE Put(u[i - 1], new[i])]
           Until == CHOOSE u : Right(u)
<1>0. new \in Seq(Entries)
    OBVIOUS
<1>1. turn \in Turns(Len(new), Seq(Entries)) /\ f \in Seq(Entries)
    <2>1. \A i \in 1..Len(new), x \in Seq(Entries) : Put(x, new[i]) \in Seq(Entries)
        BY PutFacts
    <2> QED
        BY <2>1 DEF Turns
<1>2. \A i \in 1..Len(new), x \in Seq(Entries) : turn[i][x] = Put(x, new[i])
    OBVIOUS
<1> HIDE DEF turn
<1>3. PICK u : IsLoop(u, Len(new), Seq(Entries), f, turn)
    BY <1>0, <1>1, Places, LoopExists
<1>4. Right(u)
    <2>1. u \in [0..Len(new) -> Seq(Entries)] /\ u[0] = f
        BY <1>3 DEF IsLoop
    <2>2. ASSUME NEW i \in 0..Len(new), i # 0
          PROVE  u[i] = Put(u[i - 1], new[i])
        <3>1. i \in 1..Len(new) /\ u[i - 1] \in Seq(Entries)
            BY <1>0, <2>1, <2>2, Places
        <3> QED
            BY <1>2, <1>3, <3>1 DEF IsLoop
    <2> QED
        BY <2>1, <2>2
<1>5. Right(Until)
    <2> HIDE DEF Right
    <2> QED
        BY <1>4
<1>6. PutAll(f, new) = Until[Len(new)]
    BY DEF PutAll
<1> HIDE DEF Until
<1>7. /\ Until = [i \in 0..Len(new) |-> Until[i]] /\ Until[0] = f
      /\ \A i \in 1..Len(new) : Until[i] = Put(Until[i - 1], new[i])
    BY <1>0, <1>5, Places
<1> HIDE DEF Right
<1>8. IsLoop(Until, Len(new), Seq(Entries), f, turn)
    <2>1. \A i \in 1..Len(new) : Until[i - 1] \in Seq(Entries) => Until[i] = turn[i][Until[i - 1]]
        BY <1>2, <1>7
    <2> QED
        BY <1>0, <1>1, <1>7, <2>1, Places, LoopIs
<1> QED
    BY <1>6, <1>7, <1>8 DEF IsLoop, PutTurns

\* dict.update: the keys of both; an entry of the new ones takes the place of
\* the old one of its key, the others stay.
LEMMA PutAllFacts ==
    ASSUME NEW f \in Dicts, NEW new \in Seq(Entries)
    PROVE  /\ PutAll(f, new) \in Dicts
           /\ KeysOf(PutAll(f, new)) = KeysOf(f) \cup KeysOf(new)
           /\ \A x \in ToSet(f) : x.key \notin KeysOf(new) => x \in ToSet(PutAll(f, new))
           /\ \A x \in ToSet(PutAll(f, new)) :
                 x \in ToSet(new) \/ (x \in ToSet(f) /\ x.key \notin KeysOf(new))
           /\ new \in Dicts => \A x \in ToSet(new) : x \in ToSet(PutAll(f, new))
<1>0. f \in Seq(Entries)
    BY DEF Dicts
<1>1. PICK u : PutTurns(f, new, u)
    BY <1>0, PutAllLoop
<1> USE DEF PutTurns
<1> DEFINE First(i) == {new[j] : j \in 1..i}
           FirstKeys(i) == {new[j].key : j \in 1..i}
           P == [i \in 0..Len(new) |-> {x \in Dicts :
                    /\ \A k : (\E y \in ToSet(x) : y.key = k)
                                <=> (\E y \in ToSet(f) : y.key = k) \/ k \in FirstKeys(i)
                    /\ \A y \in ToSet(f) : y.key \notin FirstKeys(i) => y \in ToSet(x)
                    /\ \A y \in ToSet(x) :
                          y \in First(i) \/ (y \in ToSet(f) /\ y.key \notin FirstKeys(i))}]
<1>2. u[0] \in P[0]
    BY <1>1, Places
<1>3. ASSUME NEW i \in 1..Len(new), u[i - 1] \in P[i - 1]
      PROVE  u[i] \in P[i]
    <2>0. i \in 0..Len(new) /\ i - 1 \in 0..Len(new) /\ new[i] \in Entries
        BY Places
    <2>1. PICK x \in Dicts :
              /\ x = u[i - 1]
              /\ \A k : (\E y \in ToSet(x) : y.key = k)
                          <=> (\E y \in ToSet(f) : y.key = k) \/ k \in FirstKeys(i - 1)
              /\ \A y \in ToSet(f) : y.key \notin FirstKeys(i - 1) => y \in ToSet(x)
              /\ \A y \in ToSet(x) :
                    y \in First(i - 1) \/ (y \in ToSet(f) /\ y.key \notin FirstKeys(i - 1))
        BY <1>3, <2>0
    <2>2. /\ \A j \in 1..i : j = i \/ j \in 1..(i - 1)
          /\ \A j \in 1..(i - 1) : j \in 1..i
        BY <2>0
    <2>z. PICK e \in Entries : e = new[i]
        BY <2>0
    <2>y. x \in Seq(Entries) /\ u[i] = Put(x, e)
        BY <1>1, <2>0, <2>1, <2>z DEF Dicts
    <2>5. PICK z \in Dicts :
              z = u[i] /\ ToSet(z) = {y \in ToSet(x) : y.key # e.key} \cup {e}
        BY <2>y, PutFacts
    <2>3. First(i) = First(i - 1) \cup {e}
        BY <2>2, <2>z
    <2>4. FirstKeys(i) = FirstKeys(i - 1) \cup {e.key}
        BY <2>2, <2>z
    <2> HIDE DEF First, FirstKeys
    <2>6. \A k : (\E y \in ToSet(z) : y.key = k)
                   <=> (\E y \in ToSet(f) : y.key = k) \/ k \in FirstKeys(i)
        BY <2>1, <2>4, <2>5
    <2>7. \A y \in ToSet(f) : y.key \notin FirstKeys(i) => y \in ToSet(z)
        BY <2>1, <2>4, <2>5
    <2>8. ASSUME NEW y \in ToSet(z)
          PROVE  y \in First(i) \/ (y \in ToSet(f) /\ y.key \notin FirstKeys(i))
        <3>1. CASE y = e
            BY <2>3, <3>1
        <3>2. CASE y \in ToSet(x) /\ y.key # e.key
            BY <2>1, <2>3, <2>4, <3>2
        <3> QED
            BY <2>5, <3>1, <3>2
    <2> QED
        BY <2>0, <2>5, <2>6, <2>7, <2>8
<1>4. \A i \in 0..Len(new) : u[i] \in P[i]
    <2> HIDE DEF P
    <2> QED
        BY <1>2, <1>3, Places, TurnByTurn
<1>5. First(Len(new)) = ToSet(new) /\ FirstKeys(Len(new)) = KeysOf(new)
    BY Places DEF ToSet, KeysOf
<1>6. PICK x \in Dicts :
          /\ x = PutAll(f, new)
          /\ \A k : (\E y \in ToSet(x) : y.key = k)
                      <=> (\E y \in ToSet(f) : y.key = k) \/ k \in KeysOf(new)
          /\ \A y \in ToSet(f) : y.key \notin KeysOf(new) => y \in ToSet(x)
          /\ \A y \in ToSet(x) :
                y \in ToSet(new) \/ (y \in ToSet(f) /\ y.key \notin KeysOf(new))
    BY <1>1, <1>4, <1>5, Places
<1>7. KeysOf(x) = KeysOf(f) \cup KeysOf(new)
    <2>1. x \in Seq(Entries)
        BY DEF Dicts
    <2> QED
        BY <1>0, <1>6, <2>1, KeysFacts
<1>8. ASSUME new \in Dicts, NEW y \in ToSet(new)
      PROVE  y \in ToSet(x)
    <2>1. y.key \in KeysOf(x)
        BY <1>7, <1>8, DictFacts
    <2>2. At(x, y.key) \in ToSet(x) /\ At(x, y.key).key = y.key
        BY <2>1, KeysFacts, DictFacts
    <2>3. At(x, y.key) \in ToSet(new)
        BY <1>6, <1>8, <2>2, DictFacts
    <2> QED
        BY <1>8, <2>2, <2>3, DictFacts
<1> QED
    BY <1>6, <1>7, <1>8

\* Drop removes the entries of some keys.
LEMMA DropFacts ==
    ASSUME NEW f \in Dicts, NEW K
    PROVE  /\ Drop(f, K) \in Dicts
           /\ ToSet(Drop(f, K)) = {x \in ToSet(f) : x.key \notin K}
           /\ KeysOf(Drop(f, K)) = KeysOf(f) \ K
<1>1. f \in Seq(Entries) /\ Distinct(f)
    BY DEF Dicts
<1> DEFINE kept == {x \in ToSet(f) : x.key \notin K}
<1>2. PICK g \in Seq(Entries) : g = Drop(f, K) /\ ToSet(g) = ToSet(f) \cap kept
                                /\ (IsInjective(f) => IsInjective(g))
    <2>1. Drop(f, K) = Kept(f, kept)
        BY DEF Drop
    <2> HIDE DEF kept
    <2> QED
        BY <1>1, <2>1, KeptFacts
<1>3. IsInjective(f)
    BY <1>1 DEF Distinct, IsInjective
<1>4. \A x, y \in ToSet(f) : x.key = y.key => x = y
    BY DictFacts
<1>5. ToSet(g) = kept
    BY <1>2
<1>6. Distinct(g)
    <2>1. \A i \in DOMAIN g : g[i] \in ToSet(f)
        BY <1>5 DEF ToSet
    <2> QED
        BY <1>2, <1>3, <1>4, <2>1 DEF Distinct, IsInjective
<1>7. KeysOf(g) = KeysOf(f) \ K
    BY <1>1, <1>5, KeysFacts
<1> QED
    BY <1>2, <1>5, <1>6, <1>7 DEF Dicts

-----------------------------------------------------------------------------
(* Keys. *)

\* A key stands for variables; a variable for itself.
LEMMA ResolveFacts ==
    ASSUME NEW key \in Keys
    PROVE  /\ Resolve(key) \in Seq(Variables)
           /\ key \in Variables => ToSet(Resolve(key)) = {key}
<1> DEFINE Domains(fs) == [i \in DOMAIN fs |-> Domain[fs[i]]]
<1>1. ASSUME NEW fs \in Seq(Fields)
      PROVE  Domains(fs) \in Seq(Variables)
    <2>1. DOMAIN fs = 1..Len(fs) /\ Len(fs) \in Nat /\ \A i \in 1..Len(fs) : fs[i] \in Fields
        OBVIOUS
    <2>2. PICK n \in Nat, D \in [Fields -> Variables] : n = Len(fs) /\ D = Domain
        BY <2>1, PresetsAssumption
    <2>3. PICK d \in [1..n -> Variables] : d = [i \in 1..n |-> D[fs[i]]]
        BY <2>1, <2>2
    <2>4. d \in Seq(Variables)
        BY SeqDef
    <2> QED
        BY <2>1, <2>2, <2>3, <2>4
<1>2. CASE key \in Variables
    <2>1. Resolve(key) = <<key>>
        BY <1>2 DEF Resolve
    <2> QED
        BY <1>2, <2>1 DEF ToSet
<1>3. CASE key \notin Variables /\ key = Symbol
    <2>1. Resolve(key) = Domains(LeafFields)
        BY <1>3 DEF Resolve
    <2> QED
        BY <1>1, <1>3, <2>1, PresetsAssumption
<1>4. CASE key \notin Variables /\ key # Symbol
    <2>1. key \in Fields
        BY <1>4 DEF Keys
    <2>2. SubFields[key] \in Seq(Fields) /\ Domain[key] \in Variables
        BY <2>1, PresetsAssumption
    <2>3. Resolve(key) = IF SubFields[key] # <<>> THEN Domains(SubFields[key])
                         ELSE <<Domain[key]>>
        BY <1>4 DEF Resolve
    <2>4. <<Domain[key]>> \in Seq(Variables)
        BY <2>2
    <2> HIDE DEF Domains
    <2> QED
        BY <1>1, <1>4, <2>2, <2>3, <2>4
<1> QED
    BY <1>2, <1>3, <1>4

\* The key of the call is given to all that it stands for.
LEMMA TakenFacts ==
    ASSUME NEW fields, NEW key \in Keys, NEW newKey
    PROVE  /\ Taken(fields, key, newKey) \in Seq(Variables)
           /\ ToSet(Taken(fields, key, newKey)) \in SUBSET Variables
           /\ ToSet(Taken(fields, key, newKey)) \subseteq ToSet(Resolve(key))
           /\ newKey = key => ToSet(Taken(fields, key, newKey)) = ToSet(Resolve(key))
<1>1. Resolve(key) \in Seq(Variables)
    BY ResolveFacts
<1>2. ToSet(Resolve(key)) \in SUBSET Variables
    BY <1>1 DEF ToSet
<1> DEFINE kept == IF newKey = key \/ IsLeafField(key) THEN Variables
                   ELSE Variables \ KeysOf(fields)
<1>3. Taken(fields, key, newKey) = Kept(Resolve(key), kept)
    BY DEF Taken
<1>4. newKey = key => kept = Variables
    OBVIOUS
<1> HIDE DEF kept
<1>5. /\ Kept(Resolve(key), kept) \in Seq(Variables)
      /\ ToSet(Kept(Resolve(key), kept)) = ToSet(Resolve(key)) \cap kept
    BY <1>1, KeptFacts
<1> QED
    BY <1>2, <1>3, <1>4, <1>5

\* An entry given to variables.
LEMMA GivenFacts ==
    ASSUME NEW e \in Entries, NEW vs \in Seq(Variables)
    PROVE  /\ Given(e, vs) \in Seq(Entries)
           /\ ToSet(Given(e, vs)) = {Entry(v, e.raw, e.id) : v \in ToSet(vs)}
           /\ KeysOf(Given(e, vs)) = ToSet(vs)
<1>1. Len(vs) \in Nat /\ DOMAIN vs = 1..Len(vs) /\ \A i \in 1..Len(vs) : vs[i] \in Variables
    OBVIOUS
<1>2. \A v \in Variables : Entry(v, e.raw, e.id) \in Entries /\ Entry(v, e.raw, e.id).key = v
    BY DEF Entry, Entries, Keys
<1>3. Given(e, vs) = [i \in 1..Len(vs) |-> Entry(vs[i], e.raw, e.id)]
    BY DEF Given
<1> HIDE DEF Entry
<1>4. Given(e, vs) \in [1..Len(vs) -> Entries]
    BY <1>1, <1>2, <1>3
<1>5. Given(e, vs) \in Seq(Entries)
    BY <1>1, <1>4, SeqDef
<1>6. ToSet(Given(e, vs)) = {Entry(v, e.raw, e.id) : v \in ToSet(vs)}
    BY <1>1, <1>3 DEF ToSet
<1>7. KeysOf(Given(e, vs)) = ToSet(vs)
    BY <1>1, <1>2, <1>3 DEF KeysOf, ToSet
<1> QED
    BY <1>5, <1>6, <1>7

\* One turn of Rekeyed makes a dictionary.
LEMMA RekeyTyped ==
    ASSUME NEW fields, NEW newKey, NEW e \in Entries, NEW x \in Dicts
    PROVE  PutAll(x, Given(e, Taken(fields, e.key, newKey))) \in Dicts
<1>1. e.key \in Keys
    BY DEF Entries
<1>2. Taken(fields, e.key, newKey) \in Seq(Variables)
    BY <1>1, TakenFacts
<1>3. Given(e, Taken(fields, e.key, newKey)) \in Seq(Entries)
    BY <1>2, GivenFacts
<1> QED
    BY <1>3, PutAllFacts

\* The empty dictionary.
LEMMA EmptyDict ==
    <<>> \in Dicts /\ ToSet(<<>>) = {} /\ KeysOf(<<>>) = {}
BY DEF Dicts, Distinct, ToSet, KeysOf

\* The turns of Rekeyed.
RekeyTurns(fields, old, newKey, u) ==
    /\ u \in [0..Len(old) -> Dicts] /\ u[0] = <<>>
    /\ \A i \in 1..Len(old) : u[i] = PutAll(u[i - 1], Given(old[i], Taken(fields, old[i].key, newKey)))
    /\ Rekeyed(fields, old, newKey) = u[Len(old)]

\* The recursive function of Rekeyed exists and takes its turns.
LEMMA RekeyedLoop ==
    ASSUME NEW fields, NEW old \in Seq(Entries), NEW newKey
    PROVE  \E u : RekeyTurns(fields, old, newKey, u)
<1> DEFINE turn == [i \in 1..Len(old) |-> [x \in Dicts |-> PutAll(x, Given(old[i], Taken(fields, old[i].key, newKey)))]]
           Right(u) == u = [i \in 0..Len(old) |-> IF i = 0 THEN <<>> ELSE PutAll(u[i - 1], Given(old[i], Taken(fields, old[i].key, newKey)))]
           Until == CHOOSE u : Right(u)
<1>0. old \in Seq(Entries)
    OBVIOUS
<1>1. turn \in Turns(Len(old), Dicts) /\ <<>> \in Dicts
    <2>1. \A i \in 1..Len(old), x \in Dicts : PutAll(x, Given(old[i], Taken(fields, old[i].key, newKey))) \in Dicts
        BY Places, RekeyTyped
    <2> QED
        BY <2>1, EmptyDict DEF Turns
<1>2. \A i \in 1..Len(old), x \in Dicts : turn[i][x] = PutAll(x, Given(old[i], Taken(fields, old[i].key, newKey)))
    OBVIOUS
<1> HIDE DEF turn
<1>3. PICK u : IsLoop(u, Len(old), Dicts, <<>>, turn)
    BY <1>0, <1>1, Places, LoopExists
<1>4. Right(u)
    <2>1. u \in [0..Len(old) -> Dicts] /\ u[0] = <<>>
        BY <1>3 DEF IsLoop
    <2>2. ASSUME NEW i \in 0..Len(old), i # 0
          PROVE  u[i] = PutAll(u[i - 1], Given(old[i], Taken(fields, old[i].key, newKey)))
        <3>1. i \in 1..Len(old) /\ u[i - 1] \in Dicts
            BY <1>0, <2>1, <2>2, Places
        <3> QED
            BY <1>2, <1>3, <3>1 DEF IsLoop
    <2> QED
        BY <2>1, <2>2
<1>5. Right(Until)
    <2> HIDE DEF Right
    <2> QED
        BY <1>4
<1>6. Rekeyed(fields, old, newKey) = Until[Len(old)]
    BY DEF Rekeyed
<1> HIDE DEF Until
<1>7. /\ Until = [i \in 0..Len(old) |-> Until[i]] /\ Until[0] = <<>>
      /\ \A i \in 1..Len(old) : Until[i] = PutAll(Until[i - 1], Given(old[i], Taken(fields, old[i].key, newKey)))
    BY <1>0, <1>5, Places
<1> HIDE DEF Right
<1>8. IsLoop(Until, Len(old), Dicts, <<>>, turn)
    <2>1. \A i \in 1..Len(old) : Until[i - 1] \in Dicts => Until[i] = turn[i][Until[i - 1]]
        BY <1>2, <1>7
    <2> QED
        BY <1>0, <1>1, <1>7, <2>1, Places, LoopIs
<1> QED
    BY <1>6, <1>7, <1>8 DEF IsLoop, RekeyTurns

\* The entry of each variable is the one of a key that it was taken for.
LEMMA RekeyedFacts ==
    ASSUME NEW fields, NEW old \in Seq(Entries), NEW newKey
    PROVE  /\ Rekeyed(fields, old, newKey) \in Dicts
           /\ \A e \in ToSet(old) :
                 ToSet(Taken(fields, e.key, newKey)) \subseteq KeysOf(Rekeyed(fields, old, newKey))
           /\ \A x \in ToSet(Rekeyed(fields, old, newKey)) : \E e \in ToSet(old) :
                 /\ x.key \in ToSet(Taken(fields, e.key, newKey))
                 /\ x = Entry(x.key, e.raw, e.id)
<1>1. PICK u : RekeyTurns(fields, old, newKey, u)
    BY RekeyedLoop
<1> USE DEF RekeyTurns
<1> DEFINE From(x, e) == /\ x.key \in ToSet(Taken(fields, e.key, newKey))
                         /\ x = Entry(x.key, e.raw, e.id)
           P == [i \in 0..Len(old) |-> {x \in Dicts :
                    /\ \A j \in 1..i : ToSet(Taken(fields, old[j].key, newKey)) \subseteq KeysOf(x)
                    /\ \A y \in ToSet(x) : \E j \in 1..i : From(y, old[j])}]
<1>2. u[0] \in P[0]
    BY <1>1, Places, EmptyDict
<1>3. ASSUME NEW i \in 1..Len(old), u[i - 1] \in P[i - 1]
      PROVE  u[i] \in P[i]
    <2>0. i \in 0..Len(old) /\ i - 1 \in 0..Len(old) /\ old[i] \in Entries
        BY Places
    <2>1. PICK x \in Dicts :
              /\ x = u[i - 1]
              /\ \A j \in 1..(i - 1) :
                    ToSet(Taken(fields, old[j].key, newKey)) \subseteq KeysOf(x)
              /\ \A y \in ToSet(x) : \E j \in 1..(i - 1) : From(y, old[j])
        BY <1>3, <2>0
    <2>2. /\ \A j \in 1..i : j = i \/ j \in 1..(i - 1)
          /\ \A j \in 1..(i - 1) : j \in 1..i
          /\ i \in 1..i
        BY <2>0
    <2>3. PICK e \in Entries : e = old[i]
        BY <2>0
    <2>4. PICK vs \in Seq(Variables) : vs = Taken(fields, e.key, newKey)
        BY TakenFacts DEF Entries
    <2>5. PICK new \in Seq(Entries) :
              /\ new = Given(e, vs)
              /\ ToSet(new) = {Entry(v, e.raw, e.id) : v \in ToSet(vs)}
              /\ KeysOf(new) = ToSet(vs)
        BY GivenFacts
    <2>6. u[i] = PutAll(x, new)
        BY <1>1, <2>1, <2>3, <2>4, <2>5
    <2>7. PICK z \in Dicts :
              /\ z = u[i] /\ KeysOf(z) = KeysOf(x) \cup ToSet(vs)
              /\ \A y \in ToSet(z) : y \in ToSet(new) \/ y \in ToSet(x)
        <3>1. PutAll(x, new) \in Dicts
            BY PutAllFacts
        <3>2. KeysOf(PutAll(x, new)) = KeysOf(x) \cup ToSet(vs)
            BY <2>5, PutAllFacts
        <3>3. \A y \in ToSet(PutAll(x, new)) : y \in ToSet(new) \/ y \in ToSet(x)
            BY PutAllFacts
        <3> QED
            BY <2>6, <3>1, <3>2, <3>3
    <2>8. ASSUME NEW v \in ToSet(vs)
          PROVE  From(Entry(v, e.raw, e.id), e)
        BY <2>4 DEF Entry
    <2> HIDE DEF From
    <2>9. \A j \in 1..i : ToSet(Taken(fields, old[j].key, newKey)) \subseteq KeysOf(z)
        BY <2>1, <2>2, <2>3, <2>4, <2>7
    <2>10. \A y \in ToSet(z) : \E j \in 1..i : From(y, old[j])
        BY <2>1, <2>2, <2>3, <2>5, <2>7, <2>8
    <2> QED
        BY <2>0, <2>7, <2>9, <2>10
<1>4. \A i \in 0..Len(old) : u[i] \in P[i]
    <2> HIDE DEF P
    <2> QED
        BY <1>2, <1>3, Places, TurnByTurn
<1>5. PICK x \in Dicts :
          /\ x = Rekeyed(fields, old, newKey)
          /\ \A j \in 1..Len(old) : ToSet(Taken(fields, old[j].key, newKey)) \subseteq KeysOf(x)
          /\ \A y \in ToSet(x) : \E j \in 1..Len(old) : From(y, old[j])
    <2>1. u[Len(old)] \in P[Len(old)]
        BY <1>4, Places
    <2> QED
        BY <1>1, <2>1, Places
<1>6. ToSet(old) = {old[j] : j \in 1..Len(old)}
    BY Places DEF ToSet
<1> HIDE DEF From
<1>7. \A y \in ToSet(x) : \E e \in ToSet(old) : From(y, e)
    BY <1>5, <1>6
<1>8. \A e \in ToSet(old) : ToSet(Taken(fields, e.key, newKey)) \subseteq KeysOf(x)
    BY <1>5, <1>6
<1> QED
    BY <1>5, <1>7, <1>8 DEF From

\* The variables that keys of fields and symbols are given to.
TakenAt(fields, newKey) ==
    UNION {ToSet(Taken(fields, k, newKey)) : k \in KeysOf(fields) \ Variables}

\* What NormalizeKeys makes of the entries when it refuses none.
KeysGiveWay(fields, newKey, new) ==
    /\ new \in Dicts /\ KeysOf(new) \subseteq Variables
    /\ TakenAt(fields, newKey) \subseteq KeysOf(new)
    /\ \A x \in ToSet(fields) :
          x.key \in Variables /\ x.key \notin TakenAt(fields, newKey) => x \in ToSet(new)
    /\ \A x \in ToSet(new) :
          \/ x \in ToSet(fields) /\ x.key \in Variables /\ x.key \notin TakenAt(fields, newKey)
          \/ \E e \in ToSet(fields) :
                /\ e.key \notin Variables
                /\ x.key \in ToSet(Taken(fields, e.key, newKey))
                /\ x = Entry(x.key, e.raw, e.id)

\* _normalizeKeys refuses, or lets all keys but variables give way.
LEMMA NormalizeKeysFacts ==
    ASSUME NEW m, NEW fields \in Dicts, NEW newKey
    PROVE  \/ NormalizeKeys(m, fields, newKey) = [m |-> [m EXCEPT !.ok = FALSE], fields |-> fields]
           \/ /\ NormalizeKeys(m, fields, newKey).m = m
              /\ KeysGiveWay(fields, newKey, NormalizeKeys(m, fields, newKey).fields)
<1>1. PICK old \in Dicts :
          /\ old = Drop(fields, Variables)
          /\ ToSet(old) = {x \in ToSet(fields) : x.key \notin Variables}
          /\ KeysOf(old) = KeysOf(fields) \ Variables
    BY DropFacts
<1>2. PICK rest \in Dicts :
          /\ rest = Drop(fields, KeysOf(old))
          /\ ToSet(rest) = {x \in ToSet(fields) : x.key \notin KeysOf(old)}
          /\ KeysOf(rest) = KeysOf(fields) \ KeysOf(old)
    BY DropFacts
<1>3. old \in Seq(Entries) /\ fields \in Seq(Entries)
    BY DEF Dicts
<1>4. PICK re \in Dicts :
          /\ re = Rekeyed(fields, old, newKey)
          /\ \A e \in ToSet(old) : ToSet(Taken(fields, e.key, newKey)) \subseteq KeysOf(re)
          /\ \A x \in ToSet(re) : \E e \in ToSet(old) :
                x.key \in ToSet(Taken(fields, e.key, newKey)) /\ x = Entry(x.key, e.raw, e.id)
    <2>1. Rekeyed(fields, old, newKey) \in Dicts
        BY <1>3, RekeyedFacts
    <2>2. \A e \in ToSet(old) : ToSet(Taken(fields, e.key, newKey))
                                    \subseteq KeysOf(Rekeyed(fields, old, newKey))
        BY <1>3, RekeyedFacts
    <2>3. \A x \in ToSet(Rekeyed(fields, old, newKey)) : \E e \in ToSet(old) :
              x.key \in ToSet(Taken(fields, e.key, newKey)) /\ x = Entry(x.key, e.raw, e.id)
        <3> HIDE DEF Entry
        <3> QED
            BY <1>3, RekeyedFacts
    <2> QED
        BY <2>1, <2>2, <2>3
<1>5. PICK new \in Dicts :
          /\ new = PutAll(rest, re)
          /\ KeysOf(new) = KeysOf(rest) \cup KeysOf(re)
          /\ \A x \in ToSet(rest) : x.key \notin KeysOf(re) => x \in ToSet(new)
          /\ \A x \in ToSet(new) :
                x \in ToSet(re) \/ (x \in ToSet(rest) /\ x.key \notin KeysOf(re))
    <2>1. re \in Seq(Entries)
        BY DEF Dicts
    <2> QED
        BY <2>1, PutAllFacts
<1>6. \/ NormalizeKeys(m, fields, newKey) = [m |-> [m EXCEPT !.ok = FALSE], fields |-> fields]
      \/ NormalizeKeys(m, fields, newKey) = [m |-> m, fields |-> new]
    BY <1>1, <1>2, <1>4, <1>5 DEF NormalizeKeys
<1>7. \A k \in KeysOf(old) : \E e \in ToSet(old) : e.key = k
    BY <1>3, KeysFacts
<1>8. \A e \in ToSet(old) : e.key \in KeysOf(old) /\ e.key \in Keys
    BY <1>3, KeysFacts
<1>9. \A x \in ToSet(re) : x.key \in KeysOf(re)
    BY DictFacts
<1>10. \A k \in KeysOf(re) : \E x \in ToSet(re) : x.key = k
    BY DictFacts, KeysFacts
<1>11. KeysOf(re) = TakenAt(fields, newKey)
    <2>1. ASSUME NEW k \in KeysOf(re) PROVE k \in TakenAt(fields, newKey)
        BY <1>1, <1>4, <1>8, <1>10, <2>1 DEF TakenAt
    <2>2. ASSUME NEW k \in TakenAt(fields, newKey) PROVE k \in KeysOf(re)
        <3>1. PICK q \in KeysOf(old) : k \in ToSet(Taken(fields, q, newKey))
            BY <1>1 DEF TakenAt
        <3> QED
            BY <1>4, <1>7, <3>1
    <2> QED
        BY <2>1, <2>2
<1>12. \A e \in ToSet(old) : ToSet(Taken(fields, e.key, newKey)) \in SUBSET Variables
    BY <1>8, TakenFacts
<1>13. KeysOf(re) \subseteq Variables
    BY <1>4, <1>10, <1>12
<1>14. KeysOf(new) \subseteq Variables
    BY <1>1, <1>2, <1>5, <1>13
<1>15. ASSUME NEW x \in ToSet(fields), x.key \in Variables, x.key \notin TakenAt(fields, newKey)
       PROVE  x \in ToSet(new)
    BY <1>1, <1>2, <1>5, <1>11, <1>15
<1>16. ASSUME NEW x \in ToSet(new)
       PROVE  \/ x \in ToSet(fields) /\ x.key \in Variables /\ x.key \notin TakenAt(fields, newKey)
              \/ \E e \in ToSet(fields) :
                    /\ e.key \notin Variables
                    /\ x.key \in ToSet(Taken(fields, e.key, newKey))
                    /\ x = Entry(x.key, e.raw, e.id)
    <2>1. CASE x \in ToSet(re)
        BY <1>1, <1>4, <2>1
    <2>2. CASE x \in ToSet(rest) /\ x.key \notin KeysOf(re)
        <3>1. x \in ToSet(fields) /\ x.key \in KeysOf(fields) /\ x.key \notin KeysOf(old)
            BY <1>2, <2>2, DictFacts
        <3> QED
            BY <1>1, <1>11, <2>2, <3>1
    <2> QED
        BY <1>5, <2>1, <2>2
<1>17. KeysGiveWay(fields, newKey, new)
    BY <1>5, <1>11, <1>14, <1>15, <1>16 DEF KeysGiveWay
<1> QED
    BY <1>6, <1>17

-----------------------------------------------------------------------------
(* Parameters and mutators. *)

ValuesOf(r) == {r[k] : k \in DOMAIN r}
Asked == UNION {ValuesOf(r) : r \in Requests}
ParamValues == Asked \cup {"GENERATE", "FIXED", "xorshift"} \cup Nat
Settings ==
    {s \in UNION {[K -> ParamValues] : K \in SUBSET Params} :
        "counterMax" \in DOMAIN s => s["counterMax"] \in Nat}
Complete == {s \in Settings : {"mode", "generator", "counterMax"} \subseteq DOMAIN s}

\* A mutator has not generated more than its own maximum.
Mutators(n) ==
    {x \in [params : Complete, table : [Types -> 1..n], count : Nat, depth : Nat] :
        x.count <= x.params["counterMax"]}
Machines(n) ==
    {m \in [defaults : Seq([Types -> Settings]), confs : Seq(Complete),
            mutators : Seq(Mutators(n)), ok : BOOLEAN] :
        Len(m.defaults) = n}

\* The mode that a mutator made from the parameters c has.
ConfMode(c) == IF "value" \in DOMAIN c THEN "FIXED" ELSE c["mode"]

\* What parameters are.
LEMMA SettingsFacts ==
    ASSUME NEW s \in Settings
    PROVE  /\ s = [k \in DOMAIN s |-> s[k]]
           /\ DOMAIN s \in SUBSET Params
           /\ \A k \in DOMAIN s : s[k] \in ParamValues
           /\ "counterMax" \in DOMAIN s => s["counterMax"] \in Nat
BY DEF Settings

\* A function from parameters to values is a setting.
LEMMA SettingsAre ==
    ASSUME NEW K \in SUBSET Params, NEW s \in [K -> ParamValues],
           "counterMax" \in K => s["counterMax"] \in Nat
    PROVE  s \in Settings
BY DEF Settings

\* dict.update: the new values win, the others stay.
LEMMA WrittenFacts ==
    ASSUME NEW new \in Settings, NEW old \in Settings
    PROVE  /\ Written(new, old) \in Settings
           /\ DOMAIN Written(new, old) = DOMAIN new \cup DOMAIN old
           /\ \A k \in DOMAIN new : Written(new, old)[k] = new[k]
           /\ \A k \in DOMAIN old : k \notin DOMAIN new => Written(new, old)[k] = old[k]
<1> DEFINE K == DOMAIN new \cup DOMAIN old
<1>1. K \in SUBSET Params
    BY SettingsFacts
<1>2. Written(new, old) = [k \in K |-> IF k \in DOMAIN new THEN new[k] ELSE old[k]]
    BY DEF Written
<1>3. Written(new, old) \in [K -> ParamValues]
    BY <1>2, SettingsFacts
<1>4. "counterMax" \in K => Written(new, old)["counterMax"] \in Nat
    BY <1>2, SettingsFacts
<1> QED
    BY <1>1, <1>2, <1>3, <1>4, SettingsAre

\* The values that the code writes itself are values of parameters.
LEMMA ConstantValues ==
    /\ {"GENERATE", "FIXED", "xorshift"} \subseteq ParamValues
    /\ Nat \subseteq ParamValues
BY DEF ParamValues

\* The parameters that Defaulted assumes.
Assumed == [mode |-> "GENERATE", generator |-> "xorshift", counterMax |-> DefaultMax]

\* The parameters that a call assumes.
LEMMA AssumedFacts ==
    /\ Assumed \in Settings
    /\ DOMAIN Assumed = {"mode", "generator", "counterMax"}
    /\ Assumed["mode"] = "GENERATE"
<1>1. DefaultMax \in Nat
    BY PresetsAssumption
<1>2. /\ DOMAIN Assumed = {"mode", "generator", "counterMax"}
      /\ Assumed["mode"] = "GENERATE" /\ Assumed["generator"] = "xorshift"
      /\ Assumed["counterMax"] = DefaultMax
    BY DEF Assumed
<1>3. Assumed = [k \in {"mode", "generator", "counterMax"} |-> Assumed[k]]
    BY DEF Assumed
<1>4. \A k \in {"mode", "generator", "counterMax"} : Assumed[k] \in ParamValues
    BY <1>1, <1>2, ConstantValues
<1>5. {"mode", "generator", "counterMax"} \in SUBSET Params
    BY DEF Params
<1>6. Assumed \in [{"mode", "generator", "counterMax"} -> ParamValues]
    BY <1>3, <1>4
<1> QED
    BY <1>1, <1>2, <1>5, <1>6, SettingsAre

\* A call's parameters are complete once the assumed ones are added.
LEMMA DefaultedFacts ==
    ASSUME NEW s \in Settings
    PROVE  /\ Defaulted(s) \in Complete
           /\ \A k \in DOMAIN s : k \in DOMAIN Defaulted(s) /\ Defaulted(s)[k] = s[k]
           /\ "value" \in DOMAIN Defaulted(s) <=> "value" \in DOMAIN s
<1>1. PICK d : d = Defaulted(s) /\ d = Written(s, Assumed)
    BY DEF Defaulted, Assumed
<1>2. /\ d \in Settings
      /\ DOMAIN d = DOMAIN s \cup {"mode", "generator", "counterMax"}
      /\ \A k \in DOMAIN s : d[k] = s[k]
    BY <1>1, AssumedFacts, WrittenFacts
<1>3. d \in Complete
    BY <1>2 DEF Complete
<1> QED
    BY <1>1, <1>2, <1>3

\* Complete parameters have a mode, a generator and a maximum.
LEMMA CompleteFacts ==
    ASSUME NEW s \in Complete
    PROVE  /\ s \in Settings /\ "counterMax" \in DOMAIN s /\ s["counterMax"] \in Nat
           /\ "mode" \in DOMAIN s /\ "generator" \in DOMAIN s
           /\ s["mode"] \in ParamValues
BY SettingsFacts DEF Complete

\* The arguments of a call are settings.
LEMMA RequestFacts ==
    ASSUME NEW r \in Requests
    PROVE  r \in Settings
<1>1. /\ r = [k \in DOMAIN r |-> r[k]] /\ DOMAIN r \in SUBSET Params
      /\ "counterMax" \in DOMAIN r => r["counterMax"] \in Nat
    BY PresetsAssumption
<1>2. \A k \in DOMAIN r : r[k] \in ParamValues
    <2>1. \A k \in DOMAIN r : r[k] \in ValuesOf(r)
        BY DEF ValuesOf
    <2>2. ValuesOf(r) \subseteq Asked
        BY DEF Asked
    <2> QED
        BY <2>1, <2>2 DEF ParamValues
<1>3. r \in [DOMAIN r -> ParamValues]
    BY <1>1, <1>2
<1> QED
    BY <1>1, <1>3, SettingsAre

\* A mode alone is a setting.
LEMMA ModeFacts ==
    ASSUME NEW x \in {"GENERATE", "FIXED"} \cup ParamValues
    PROVE  /\ [mode |-> x] \in Settings
           /\ DOMAIN [mode |-> x] = {"mode"} /\ [mode |-> x]["mode"] = x
<1>1. x \in ParamValues
    BY ConstantValues
<1>2. /\ [mode |-> x] \in [{"mode"} -> ParamValues]
      /\ DOMAIN [mode |-> x] = {"mode"} /\ [mode |-> x]["mode"] = x
    BY <1>1
<1>3. {"mode"} \in SUBSET Params /\ "counterMax" \notin {"mode"}
    BY DEF Params
<1> QED
    BY <1>2, <1>3, SettingsAre

-----------------------------------------------------------------------------
(* What the operators on the heap may do: add parameters and mutators, and   *)
(* turn fixed values into generators.                                        *)

Extends(m, w) ==
    /\ Len(m.confs) <= Len(w.confs)
    /\ \A c \in 1..Len(m.confs) : ConfMode(w.confs[c]) = ConfMode(m.confs[c])
    /\ Len(m.mutators) <= Len(w.mutators)
    /\ \A i \in 1..Len(m.mutators) : w.mutators[i] = m.mutators[i]

\* What a heap is made of.
LEMMA MachineFacts ==
    ASSUME NEW n \in Nat, NEW m \in Machines(n)
    PROVE  /\ m.defaults \in Seq([Types -> Settings]) /\ Len(m.defaults) = n
           /\ m.confs \in Seq(Complete) /\ m.mutators \in Seq(Mutators(n))
           /\ m.ok \in BOOLEAN
           /\ Len(m.confs) \in Nat /\ Len(m.mutators) \in Nat
           /\ m = [defaults |-> m.defaults, confs |-> m.confs,
                   mutators |-> m.mutators, ok |-> m.ok]
<1>1. /\ m.defaults \in Seq([Types -> Settings]) /\ Len(m.defaults) = n
      /\ m.confs \in Seq(Complete) /\ m.mutators \in Seq(Mutators(n))
      /\ m.ok \in BOOLEAN
    BY DEF Machines
<1>2. m = [defaults |-> m.defaults, confs |-> m.confs, mutators |-> m.mutators, ok |-> m.ok]
    BY DEF Machines
<1> QED
    BY <1>1, <1>2, LenProperties

\* The parts of a heap make a heap.
LEMMA MachineIs ==
    ASSUME NEW n \in Nat, NEW d \in Seq([Types -> Settings]), Len(d) = n,
           NEW c \in Seq(Complete), NEW x \in Seq(Mutators(n)), NEW ok \in BOOLEAN
    PROVE  [defaults |-> d, confs |-> c, mutators |-> x, ok |-> ok] \in Machines(n)
BY DEF Machines

\* What extends an extension extends.
LEMMA ExtendsTransitive ==
    ASSUME NEW n \in Nat, NEW a \in Machines(n), NEW b \in Machines(n), NEW c \in Machines(n),
           Extends(a, b), Extends(b, c)
    PROVE  Extends(a, c)
<1>1. /\ Len(a.confs) \in Nat /\ Len(a.mutators) \in Nat
      /\ Len(b.confs) \in Nat /\ Len(b.mutators) \in Nat
      /\ Len(c.confs) \in Nat /\ Len(c.mutators) \in Nat
    BY MachineFacts
<1>2. \A i \in 1..Len(a.confs) : i \in 1..Len(b.confs)
    BY <1>1 DEF Extends
<1>3. \A i \in 1..Len(a.mutators) : i \in 1..Len(b.mutators)
    BY <1>1 DEF Extends
<1> HIDE DEF ConfMode
<1>4. Len(a.confs) <= Len(c.confs) /\ Len(a.mutators) <= Len(c.mutators)
    BY <1>1 DEF Extends
<1>5. ASSUME NEW i \in 1..Len(a.confs) PROVE ConfMode(c.confs[i]) = ConfMode(a.confs[i])
    BY <1>2 DEF Extends
<1>6. ASSUME NEW i \in 1..Len(a.mutators) PROVE c.mutators[i] = a.mutators[i]
    BY <1>3 DEF Extends
<1> QED
    BY <1>4, <1>5, <1>6 DEF Extends

\* A heap extends itself.
LEMMA ExtendsReflexive ==
    ASSUME NEW n \in Nat, NEW m \in Machines(n)
    PROVE  Extends(m, m)
BY MachineFacts DEF Extends

\* _normalizeValues turns a fixed value into a generator and keeps the mode.
LEMMA ConvertFacts ==
    ASSUME NEW n \in Nat, NEW m \in Machines(n), NEW id \in 1..Len(m.confs), NEW v
    PROVE  LET w == ConvertFixedValue(m, id, v)
           IN  /\ w \in Machines(n)
               /\ w.mutators = m.mutators /\ Len(w.confs) = Len(m.confs)
               /\ Extends(m, w)
               /\ w.ok => m.ok
               /\ w.confs[id]["mode"] = ConfMode(m.confs[id])
<1> DEFINE conf == m.confs[id]
           K == DOMAIN conf \ {"value"}
           bare == [p \in K |-> conf[p]]
           mode == [mode |-> "FIXED"]
           fixed == Written(mode, bare)
           given == [generator |-> conf["value"]]
           all == Written(given, fixed)
           w == ConvertFixedValue(m, id, v)
<1>1. /\ conf \in Complete /\ m.confs \in Seq(Complete) /\ Len(m.confs) \in Nat
      /\ m.mutators \in Seq(Mutators(n)) /\ Len(m.mutators) \in Nat
    BY MachineFacts, ElementOfSeq
<1>2. CASE "value" \notin DOMAIN conf
    <2>1. w = m
        BY <1>2 DEF ConvertFixedValue
    <2>2. w.confs[id]["mode"] = ConfMode(m.confs[id])
        BY <1>2, <2>1 DEF ConfMode
    <2> HIDE DEF w, conf
    <2> QED
        BY <2>1, <2>2, ExtendsReflexive DEF w
<1>3. CASE "value" \in DOMAIN conf
    <2>1. conf \in Settings /\ {"mode", "generator", "counterMax"} \subseteq DOMAIN conf
        BY <1>1 DEF Complete
    <2>2. K \in SUBSET Params /\ {"mode", "generator", "counterMax"} \subseteq K
        BY <2>1, SettingsFacts
    <2>3. bare \in Settings /\ DOMAIN bare = K
        <3>1. bare \in [K -> ParamValues]
            BY <2>1, SettingsFacts
        <3>2. "counterMax" \in K => bare["counterMax"] \in Nat
            BY <2>1, SettingsFacts
        <3> QED
            BY <2>2, <3>1, <3>2, SettingsAre
    <2>4. mode \in Settings /\ DOMAIN mode = {"mode"} /\ mode["mode"] = "FIXED"
        BY ModeFacts
    <2>5. given \in Settings /\ DOMAIN given = {"generator"}
        <3>1. conf["value"] \in ParamValues
            BY <1>3, <2>1, SettingsFacts
        <3>2. given \in [{"generator"} -> ParamValues] /\ DOMAIN given = {"generator"}
            BY <3>1
        <3>3. {"generator"} \in SUBSET Params /\ "counterMax" \notin {"generator"}
            BY DEF Params
        <3> QED
            BY <3>2, <3>3, SettingsAre
    <2> HIDE DEF bare, mode, given
    <2>6. fixed \in Settings /\ DOMAIN fixed = {"mode"} \cup K /\ fixed["mode"] = "FIXED"
        BY <2>3, <2>4, WrittenFacts
    <2> HIDE DEF fixed
    <2>7. all \in Settings /\ DOMAIN all = {"generator", "mode"} \cup K /\ all["mode"] = "FIXED"
        <3>1. all \in Settings /\ DOMAIN all = {"generator"} \cup DOMAIN fixed
            BY <2>5, <2>6, WrittenFacts
        <3>2. "mode" \in DOMAIN fixed /\ "mode" \notin DOMAIN given
            BY <2>5, <2>6
        <3>3. all["mode"] = "FIXED"
            <4>1. \A k \in DOMAIN fixed : k \notin DOMAIN given => all[k] = fixed[k]
                BY <2>5, <2>6, WrittenFacts
            <4> HIDE DEF all
            <4> QED
                BY <2>6, <3>2, <4>1
        <3>4. DOMAIN all = {"generator", "mode"} \cup K
            BY <2>6, <3>1
        <3> QED
            BY <3>1, <3>3, <3>4
    <2> HIDE DEF all
    <2>8. PICK new \in {fixed, all} : \E ok \in {m.ok, FALSE} :
              w = [m EXCEPT !.confs[id] = new, !.ok = ok]
        BY <1>3 DEF ConvertFixedValue, all, fixed, bare, mode, given
    <2>9. new \in Complete /\ "value" \notin DOMAIN new /\ new["mode"] = "FIXED"
        BY <2>2, <2>6, <2>7 DEF Complete
    <2>10. PICK c \in Seq(Complete) : c = [m.confs EXCEPT ![id] = new]
        BY <1>1, <2>9, ExceptSeq
    <2>11. /\ Len(c) = Len(m.confs)
           /\ \A j \in 1..Len(m.confs) : c[j] = IF j = id THEN new ELSE m.confs[j]
        BY <1>1, <2>9, <2>10, ExceptSeq
    <2>12. PICK ok \in BOOLEAN : /\ ok => m.ok
                                 /\ w = [m EXCEPT !.confs = c, !.ok = ok]
        <3>1. PICK ok \in {m.ok, FALSE} : w = [m EXCEPT !.confs[id] = new, !.ok = ok]
            BY <2>8
        <3>2. w = [m EXCEPT !.confs = c, !.ok = ok]
            BY <2>10, <3>1
        <3>3. ok \in BOOLEAN /\ (ok => m.ok)
            BY MachineFacts
        <3> QED
            BY <3>2, <3>3
    <2>13. w = [defaults |-> m.defaults, confs |-> c, mutators |-> m.mutators, ok |-> ok]
        BY <2>12, MachineFacts
    <2>14. w \in Machines(n)
        BY <2>13, MachineFacts, MachineIs
    <2>15. ConfMode(new) = "FIXED" /\ ConfMode(conf) = "FIXED"
        BY <1>3, <2>9 DEF ConfMode
    <2>16. Extends(m, w)
        <3>1. \A j \in 1..Len(m.confs) : ConfMode(c[j]) = ConfMode(m.confs[j])
            BY <2>11, <2>15
        <3> HIDE DEF w
        <3> QED
            BY <1>1, <2>11, <2>13, <3>1 DEF Extends
    <2> HIDE DEF w
    <2> QED
        BY <2>9, <2>11, <2>12, <2>13, <2>14, <2>15, <2>16 DEF w
<1> QED
    BY <1>2, <1>3

\* The table of the class, which new mutators know, leads to n epochs.
CurrentTable(n) == n \in Nat /\ tables[Len(tables)] \in [Types -> 1..n]

\* w is m with one more mutator, of some mode, unless the constructor refused.
Made(m, w, n, mode) ==
    /\ w \in Machines(n) /\ Extends(m, w) /\ w.confs = m.confs
    /\ w.ok => /\ m.ok /\ Len(w.mutators) = Len(m.mutators) + 1
               /\ w.mutators[Len(w.mutators)].params["mode"] = mode

\* _retrieveDefaultMutator makes one mutator, of the mode of its arguments.
LEMMA RetrieveFacts ==
    ASSUME NEW n, CurrentTable(n), NEW m \in Machines(n), NEW v \in Variables,
           NEW table \in [Types -> 1..n], NEW kwargs \in Settings, "mode" \in DOMAIN kwargs
    PROVE  Made(m, RetrieveDefaultMutator(m, v, table, kwargs), n, kwargs["mode"])
<1> DEFINE w == RetrieveDefaultMutator(m, v, table, kwargs)
<1>1. n \in Nat
    BY DEF CurrentTable
<1>m. /\ m.confs \in Seq(Complete) /\ m.mutators \in Seq(Mutators(n)) /\ m.ok \in BOOLEAN
      /\ m = [defaults |-> m.defaults, confs |-> m.confs, mutators |-> m.mutators, ok |-> m.ok]
    BY <1>1, MachineFacts
<1>2. PICK t \in Types : t = TypeOf[v]
    BY PresetsAssumption
<1>3. PICK at \in 1..n : at = table[t]
    BY <1>2
<1>4. /\ m.defaults \in Seq([Types -> Settings]) /\ Len(m.defaults) = n
      /\ m.defaults[at] \in [Types -> Settings]
    BY <1>1, <1>3, MachineFacts, ElementOfSeq
<1>5. PICK params \in Settings : /\ params = Written(kwargs, m.defaults[at][t])
                                 /\ params["mode"] = kwargs["mode"]
                                 /\ "mode" \in DOMAIN params
    <2>1. m.defaults[at][t] \in Settings
        BY <1>2, <1>4
    <2> QED
        BY <2>1, WrittenFacts
<1>6. PICK full \in Complete : full = Defaulted(params) /\ full["mode"] = kwargs["mode"]
    BY <1>5, DefaultedFacts
<1>7. PICK d \in Seq([Types -> Settings]) :
          d = [m.defaults EXCEPT ![at] = [m.defaults[at] EXCEPT ![t] = params]] /\ Len(d) = n
    <2>1. PICK e \in [Types -> Settings] : e = [m.defaults[at] EXCEPT ![t] = params]
        BY <1>2, <1>4, <1>5
    <2>2. at \in 1..Len(m.defaults) /\ m.defaults \in Seq([Types -> Settings])
        BY <1>3, <1>4
    <2>3. /\ [m.defaults EXCEPT ![at] = e] \in Seq([Types -> Settings])
          /\ Len([m.defaults EXCEPT ![at] = e]) = Len(m.defaults)
        BY <2>2, ExceptSeq
    <2> QED
        BY <1>4, <2>1, <2>3
<1>8. PICK new \in Mutators(n) :
          new = [params |-> full, table |-> tables[Len(tables)], count |-> 0, depth |-> 0]
    <2>1. full["counterMax"] \in Nat
        BY CompleteFacts
    <2>2. PICK cur \in [Types -> 1..n] : cur = tables[Len(tables)]
        BY DEF CurrentTable
    <2>3. [params |-> full, table |-> cur, count |-> 0, depth |-> 0] \in Mutators(n)
        BY <2>1 DEF Mutators
    <2> QED
        BY <2>2, <2>3
<1>9. PICK all \in Seq(Mutators(n)) : all = Append(m.mutators, new)
    BY <1>1, MachineFacts, AppendProperties
<1>10. /\ Len(all) = Len(m.mutators) + 1 /\ all[Len(all)] = new
       /\ \A i \in 1..Len(m.mutators) : all[i] = m.mutators[i]
    BY <1>1, <1>9, MachineFacts, AppendProperties
<1>11. \/ w = [m EXCEPT !.defaults[at][t] = params, !.mutators = Append(@, new)]
       \/ w = [m EXCEPT !.defaults[at][t] = params, !.ok = FALSE]
    <2>1. w = LET updated == [m EXCEPT !.defaults[at][t] = params]
              IN  IF DOMAIN params \subseteq Accepts(t)
                  THEN [updated EXCEPT !.mutators = Append(@, new)]
                  ELSE [updated EXCEPT !.ok = FALSE]
        BY <1>2, <1>3, <1>5, <1>6, <1>8 DEF RetrieveDefaultMutator
    <2> HIDE DEF w
    <2> QED
        BY <2>1, <1>1, MachineFacts
<1>12. \/ w = [defaults |-> d, confs |-> m.confs, mutators |-> all, ok |-> m.ok]
       \/ w = [defaults |-> d, confs |-> m.confs, mutators |-> m.mutators, ok |-> FALSE]
    <2> HIDE DEF w
    <2>1. \/ w = [m EXCEPT !.defaults = d, !.mutators = all]
          \/ w = [m EXCEPT !.defaults = d, !.ok = FALSE]
        BY <1>7, <1>9, <1>11
    <2>2. CASE w = [m EXCEPT !.defaults = d, !.mutators = all]
        BY <1>m, <2>2
    <2>3. CASE w = [m EXCEPT !.defaults = d, !.ok = FALSE]
        BY <1>m, <2>3
    <2> QED
        BY <2>1, <2>2, <2>3
<1> HIDE DEF w
<1>13. w \in Machines(n)
    <2>1. CASE w = [defaults |-> d, confs |-> m.confs, mutators |-> all, ok |-> m.ok]
        BY <1>1, <1>m, <1>7, <2>1, MachineIs
    <2>2. CASE w = [defaults |-> d, confs |-> m.confs, mutators |-> m.mutators, ok |-> FALSE]
        BY <1>1, <1>m, <1>7, <2>2, MachineIs
    <2> QED
        BY <1>12, <2>1, <2>2
<1>14. /\ w.confs = m.confs
       /\ \/ w.mutators = all /\ w.ok = m.ok
          \/ w.mutators = m.mutators /\ w.ok = FALSE
    BY <1>12
<1>15. Extends(m, w)
    <2>1. Len(m.confs) \in Nat /\ Len(m.mutators) \in Nat
        BY <1>1, MachineFacts
    <2> QED
        BY <1>10, <1>14, <2>1 DEF Extends
<1>16. new.params["mode"] = kwargs["mode"]
    BY <1>6, <1>8
<1> QED
    BY <1>10, <1>13, <1>14, <1>15, <1>16 DEF Made, w

-----------------------------------------------------------------------------
(* Entries, and what the loops of a call of fuzz make of them. *)

\* An entry leads to the parameters or the mutator that there are.
EntryOK(m, e) ==
    /\ e \in Entries
    /\ e.raw => e.id \in 1..Len(m.confs)
    /\ ~e.raw => e.key \in Variables /\ e.id \in 1..Len(m.mutators)
DictOK(m, fields) == fields \in Dicts /\ \A e \in ToSet(fields) : EntryOK(m, e)

ModeIn(m, e) ==
    IF e.raw THEN ConfMode(m.confs[e.id]) ELSE m.mutators[e.id].params["mode"]

\* An entry of a heap leads to the same in what extends the heap.
LEMMA ExtendsEntry ==
    ASSUME NEW n \in Nat, NEW m \in Machines(n), NEW k \in Nat, NEW w \in Machines(k),
           Extends(m, w), NEW e, EntryOK(m, e)
    PROVE  /\ EntryOK(w, e) /\ ModeIn(w, e) = ModeIn(m, e)
           /\ ~e.raw => w.mutators[e.id] = m.mutators[e.id]
<1>1. /\ Len(m.confs) \in Nat /\ Len(m.mutators) \in Nat
      /\ Len(w.confs) \in Nat /\ Len(w.mutators) \in Nat
    BY MachineFacts
<1>2. e \in Entries /\ e.raw \in BOOLEAN
    BY DEF EntryOK, Entries
<1> HIDE DEF ConfMode
<1>3. EntryOK(w, e)
    BY <1>1 DEF EntryOK, Extends
<1>4. ~e.raw => w.mutators[e.id] = m.mutators[e.id]
    BY DEF EntryOK, Extends
<1>5. e.raw => ConfMode(w.confs[e.id]) = ConfMode(m.confs[e.id])
    BY DEF EntryOK, Extends
<1>6. ModeIn(w, e) = ModeIn(m, e)
    BY <1>2, <1>4, <1>5 DEF ModeIn
<1> QED
    BY <1>3, <1>4, <1>6

\* What a loop that began with b has made: new entries with mutators.
Accs(n, b) ==
    {acc \in [m : Machines(n), new : Seq(Entries)] :
        /\ Extends(b, acc.m) /\ Len(acc.m.confs) = Len(b.confs)
        /\ acc.m.ok => \A x \in ToSet(acc.new) : ~x.raw /\ EntryOK(acc.m, x)}

\* What a loop over the entries has made.
LEMMA AccFacts ==
    ASSUME NEW n \in Nat, NEW b, NEW acc \in Accs(n, b)
    PROVE  /\ acc.m \in Machines(n) /\ acc.new \in Seq(Entries)
           /\ Extends(b, acc.m) /\ Len(acc.m.confs) = Len(b.confs)
           /\ acc.m.ok => \A x \in ToSet(acc.new) : ~x.raw /\ EntryOK(acc.m, x)
           /\ acc = [m |-> acc.m, new |-> acc.new]
BY DEF Accs

\* A heap with some new entries is what such a loop makes.
LEMMA AccIs ==
    ASSUME NEW n \in Nat, NEW b, NEW m \in Machines(n), NEW new \in Seq(Entries),
           Extends(b, m), Len(m.confs) = Len(b.confs),
           m.ok => \A x \in ToSet(new) : ~x.raw /\ EntryOK(m, x)
    PROVE  [m |-> m, new |-> new] \in Accs(n, b)
BY DEF Accs

\* A turn that goes on has added an entry for v, with a mutator of this mode.
Added(acc, w, n, b, v, mode) ==
    /\ w \in Accs(n, b) /\ Extends(acc.m, w.m)
    /\ w.m.ok => /\ acc.m.ok
                 /\ \E x \in Entries : /\ w.new = Append(acc.new, x)
                                       /\ x.key = v /\ ~x.raw /\ ModeIn(w.m, x) = mode

\* The mutator that was just made is given to a variable.
LEMMA MadeForFacts ==
    ASSUME NEW n \in Nat, NEW b \in Machines(n), NEW acc \in Accs(n, b), acc.m.ok,
           NEW c \in Machines(n), Extends(acc.m, c), Len(c.confs) = Len(acc.m.confs),
           NEW mode, NEW w, Made(c, w, n, mode), NEW v \in Variables
    PROVE  Added(acc, MadeFor(acc, v, w), n, b, v, mode)
<1>1. w \in Machines(n) /\ Extends(c, w) /\ w.confs = c.confs
    BY DEF Made
<1>2. acc.m \in Machines(n) /\ acc.new \in Seq(Entries) /\ Extends(b, acc.m)
    BY AccFacts
<1>3. Extends(acc.m, w)
    BY <1>1, <1>2, ExtendsTransitive
<1>4. Extends(b, w)
    BY <1>1, <1>2, <1>3, ExtendsTransitive
<1>5. Len(w.mutators) \in Nat /\ Len(c.mutators) \in Nat
    BY <1>1, MachineFacts
<1>6. PICK x \in Entries : /\ x = Entry(v, FALSE, Len(w.mutators))
                           /\ x.key = v /\ ~x.raw /\ x.id = Len(w.mutators)
    <2>1. PICK k \in Nat : k = Len(w.mutators)
        BY <1>5
    <2>2. v \in Keys
        BY DEF Keys
    <2>3. [key |-> v, raw |-> FALSE, id |-> k] \in Entries
        BY <2>2 DEF Entries
    <2> QED
        BY <2>1, <2>3 DEF Entry
<1>7. PICK new \in Seq(Entries) : /\ new = Append(acc.new, x)
                                  /\ ToSet(new) = ToSet(acc.new) \cup {x}
    BY <1>2, AppendSet
<1>8. MadeFor(acc, v, w) = [m |-> w, new |-> new]
    BY <1>6, <1>7 DEF MadeFor
<1>9. ASSUME w.ok
      PROVE  EntryOK(w, x) /\ ModeIn(w, x) = mode
    <2>1. Len(w.mutators) = Len(c.mutators) + 1 /\ w.mutators[Len(w.mutators)].params["mode"] = mode
        BY <1>9 DEF Made
    <2>2. Len(w.mutators) \in 1..Len(w.mutators)
        BY <1>5, <2>1
    <2> QED
        BY <1>6, <2>1, <2>2 DEF EntryOK, ModeIn
<1>10. ASSUME w.ok, NEW y \in ToSet(new)
       PROVE  ~y.raw /\ EntryOK(w, y)
    <2>1. CASE y = x
        BY <1>6, <1>9, <1>10, <2>1
    <2>2. CASE y \in ToSet(acc.new)
        <3>1. ~y.raw /\ EntryOK(acc.m, y)
            BY <2>2, AccFacts
        <3> QED
            BY <1>1, <1>2, <1>3, <3>1, ExtendsEntry
    <2> QED
        BY <1>7, <1>10, <2>1, <2>2
<1>11. Len(w.confs) = Len(b.confs)
    BY <1>1, AccFacts
<1>12. [m |-> w, new |-> new] \in Accs(n, b)
    BY <1>1, <1>4, <1>10, <1>11, AccIs
<1>13. ASSUME w.ok
       PROVE  \E y \in Entries : /\ new = Append(acc.new, y)
                                 /\ y.key = v /\ ~y.raw /\ ModeIn(w, y) = mode
    BY <1>6, <1>7, <1>9, <1>13
<1> QED
    BY <1>3, <1>8, <1>12, <1>13 DEF Added

\* One turn of the normalization of the values.
LEMMA NormalizeValueFacts ==
    ASSUME NEW n, CurrentTable(n), NEW b \in Machines(n), NEW acc \in Accs(n, b),
           NEW e, EntryOK(b, e), e.key \in Variables
    PROVE  LET w == NormalizeValue(acc, e)
           IN  /\ w \in Accs(n, b) /\ Extends(acc.m, w.m)
               /\ ~e.raw => w = acc
               /\ w.m.ok /\ e.raw => Added(acc, w, n, b, e.key, ModeIn(b, e))
<1> DEFINE w == NormalizeValue(acc, e)
           c == ConvertFixedValue(acc.m, e.id, e.key)
           r == RetrieveDefaultMutator(c, e.key, tables[Len(tables)], c.confs[e.id])
<1>1. n \in Nat /\ tables[Len(tables)] \in [Types -> 1..n]
    BY DEF CurrentTable
<1>2. /\ acc.m \in Machines(n) /\ Extends(b, acc.m) /\ Len(acc.m.confs) = Len(b.confs)
      /\ acc.new \in Seq(Entries) /\ acc = [m |-> acc.m, new |-> acc.new]
    BY <1>1, AccFacts
<1>3. CASE ~acc.m.ok \/ ~e.raw
    <2>1. w = acc
        BY <1>3 DEF NormalizeValue
    <2> HIDE DEF w
    <2> QED
        BY <1>1, <1>2, <1>3, <2>1, ExtendsReflexive DEF w
<1>4. CASE acc.m.ok /\ e.raw
    <2>1. EntryOK(acc.m, e) /\ ModeIn(acc.m, e) = ModeIn(b, e)
        BY <1>1, <1>2, ExtendsEntry
    <2>2. e.id \in 1..Len(acc.m.confs) /\ ConfMode(acc.m.confs[e.id]) = ModeIn(b, e)
        BY <1>4, <2>1 DEF EntryOK, ModeIn
    <2>3. /\ c \in Machines(n) /\ Len(c.confs) = Len(acc.m.confs) /\ Extends(acc.m, c)
          /\ c.confs[e.id]["mode"] = ModeIn(b, e)
        BY <1>1, <1>2, <2>2, ConvertFacts
    <2> HIDE DEF c
    <2>4. CASE ~c.ok
        <3>1. w = [acc EXCEPT !.m = c]
            BY <1>4, <2>4 DEF NormalizeValue, c
        <3>2. w = [m |-> c, new |-> acc.new]
            BY <1>2, <3>1
        <3>3. Extends(b, c) /\ Len(c.confs) = Len(b.confs)
            BY <1>1, <1>2, <2>3, ExtendsTransitive
        <3>4. [m |-> c, new |-> acc.new] \in Accs(n, b)
            BY <1>1, <1>2, <2>3, <2>4, <3>3, AccIs
        <3> HIDE DEF w
        <3> QED
            BY <1>4, <2>3, <2>4, <3>2, <3>4 DEF w
    <2>5. CASE c.ok
        <3>1. w = MadeFor(acc, e.key, r)
            BY <1>4, <2>5 DEF NormalizeValue, c
        <3>2. c.confs[e.id] \in Settings /\ "mode" \in DOMAIN c.confs[e.id]
            <4>1. c.confs \in Seq(Complete) /\ e.id \in 1..Len(c.confs)
                BY <1>1, <2>2, <2>3, MachineFacts
            <4>2. c.confs[e.id] \in Complete
                BY <4>1, ElementOfSeq
            <4> QED
                BY <4>2, CompleteFacts
        <3>3. Made(c, r, n, ModeIn(b, e))
            BY <1>1, <2>3, <3>2, RetrieveFacts
        <3> HIDE DEF r, w
        <3>4. Added(acc, w, n, b, e.key, ModeIn(b, e))
            BY <1>1, <1>4, <2>3, <3>1, <3>3, MadeForFacts
        <3> QED
            BY <1>4, <3>4 DEF Added, w
    <2> QED
        BY <2>4, <2>5
<1> QED
    BY <1>3, <1>4 DEF EntryOK, Entries

\* r keeps the entries and the modes that there were: the variables have the
\* mutators that they had, or one of the mode that was given for them.
Keeps(m, fields, r, n) ==
    /\ r.m \in Machines(n) /\ Extends(m, r.m)
    /\ DictOK(r.m, r.fields) /\ KeysOf(r.fields) \subseteq Variables
    /\ \A e \in ToSet(fields) : \E x \in ToSet(r.fields) :
          x.key = e.key /\ ModeIn(r.m, x) = ModeIn(m, e) /\ (~e.raw => x = e)

\* A new entry only takes the place of one without a mutator, of its mode.
Replaces(m, fields, r) ==
    \A x \in ToSet(r.new), e \in ToSet(fields) :
        e.key = x.key => e.raw /\ ModeIn(r.m, x) = ModeIn(m, e)

\* The new entries are put into the dictionary, unless an exception was raised.
LEMMA UpdatedFacts ==
    ASSUME NEW n \in Nat, NEW m \in Machines(n), m.ok, NEW fields, DictOK(m, fields),
           KeysOf(fields) \subseteq Variables, NEW r \in Accs(n, m),
           r.m.ok => Replaces(m, fields, r)
    PROVE  LET w == Updated(m, fields, r)
           IN  /\ Keeps(m, fields, w, n) /\ w.m.ok = r.m.ok
               /\ ~r.m.ok => w.fields = fields
               /\ r.m.ok => w.m = r.m /\ w.fields = PutAll(fields, r.new)
               /\ (\A e \in ToSet(fields) : e.raw => e.key \in KeysOf(r.new))
                     => (w.m.ok => \A x \in ToSet(w.fields) : ~x.raw)
<1> DEFINE w == Updated(m, fields, r)
<1>1. /\ r.m \in Machines(n) /\ r.new \in Seq(Entries) /\ Extends(m, r.m)
      /\ Len(r.m.confs) = Len(m.confs)
      /\ r.m.ok => \A x \in ToSet(r.new) : ~x.raw /\ EntryOK(r.m, x)
    BY AccFacts
<1>2. fields \in Dicts /\ \A e \in ToSet(fields) : EntryOK(m, e)
    BY DEF DictOK
<1>3. CASE ~r.m.ok
    <2>1. PICK k : /\ k = [r.m EXCEPT !.mutators = m.mutators]
                   /\ w = [m |-> k, fields |-> fields]
        BY <1>3 DEF Updated
    <2>2. k = [defaults |-> r.m.defaults, confs |-> r.m.confs,
               mutators |-> m.mutators, ok |-> r.m.ok]
        BY <1>1, <2>1, MachineFacts
    <2>3. k \in Machines(n)
        <3>1. /\ r.m.defaults \in Seq([Types -> Settings]) /\ Len(r.m.defaults) = n
              /\ r.m.confs \in Seq(Complete) /\ r.m.ok \in BOOLEAN
              /\ m.mutators \in Seq(Mutators(n))
            BY <1>1, MachineFacts
        <3> QED
            BY <2>2, <3>1, MachineIs
    <2>4. Extends(m, k)
        <3>1. Len(m.mutators) \in Nat
            BY MachineFacts
        <3> QED
            BY <1>1, <2>2, <3>1 DEF Extends
    <2>5. DictOK(k, fields) /\ \A e \in ToSet(fields) : ModeIn(k, e) = ModeIn(m, e)
        BY <1>2, <2>3, <2>4, ExtendsEntry DEF DictOK
    <2>6. Keeps(m, fields, w, n)
        BY <2>1, <2>3, <2>4, <2>5 DEF Keeps
    <2> HIDE DEF w
    <2> QED
        BY <1>3, <2>1, <2>2, <2>6 DEF w
<1>4. CASE r.m.ok
    <2>1. w = [m |-> r.m, fields |-> PutAll(fields, r.new)]
        BY <1>4 DEF Updated
    <2> DEFINE new == PutAll(fields, r.new)
    <2>2. /\ new \in Dicts /\ KeysOf(new) = KeysOf(fields) \cup KeysOf(r.new)
          /\ \A x \in ToSet(fields) : x.key \notin KeysOf(r.new) => x \in ToSet(new)
          /\ \A x \in ToSet(new) :
                x \in ToSet(r.new) \/ (x \in ToSet(fields) /\ x.key \notin KeysOf(r.new))
        BY <1>1, <1>2, PutAllFacts
    <2> HIDE DEF new
    <2>3. \A x \in ToSet(new) : EntryOK(r.m, x)
        BY <1>1, <1>2, <1>4, <2>2, ExtendsEntry
    <2>4. KeysOf(r.new) \subseteq Variables
        BY <1>1, <1>4, KeysFacts DEF EntryOK
    <2>5. ASSUME NEW e \in ToSet(fields)
          PROVE  \E x \in ToSet(new) :
                     x.key = e.key /\ ModeIn(r.m, x) = ModeIn(m, e) /\ (~e.raw => x = e)
        <3>1. CASE e.key \notin KeysOf(r.new)
            BY <1>1, <1>2, <2>2, <3>1, ExtendsEntry
        <3>2. CASE e.key \in KeysOf(r.new)
            <4>1. PICK x \in ToSet(new) : x.key = e.key
                BY <2>2, <3>2, DictFacts, KeysFacts
            <4>2. x \in ToSet(r.new)
                BY <2>2, <3>2, <4>1
            <4> QED
                BY <1>4, <4>1, <4>2 DEF Replaces
        <3> QED
            BY <3>1, <3>2
    <2>6. Keeps(m, fields, w, n)
        BY <1>1, <2>1, <2>2, <2>3, <2>4, <2>5 DEF Keeps, DictOK, new
    <2>7. ASSUME \A e \in ToSet(fields) : e.raw => e.key \in KeysOf(r.new),
                 NEW x \in ToSet(new)
          PROVE  ~x.raw
        BY <1>1, <1>4, <2>2, <2>7
    <2>8. w.m = r.m /\ w.fields = new /\ new = PutAll(fields, r.new)
        BY <2>1 DEF new
    <2> HIDE DEF w
    <2> QED
        BY <1>4, <2>6, <2>7, <2>8 DEF w
<1> QED
    BY <1>3, <1>4

\* Before the first turn, nothing is made.
LEMMA AccStart ==
    ASSUME NEW n \in Nat, NEW m \in Machines(n)
    PROVE  [m |-> m, new |-> <<>>] \in Accs(n, m)
<1>1. ToSet(<<>>) = {} /\ <<>> \in Seq(Entries)
    BY EmptyDict DEF Dicts
<1> QED
    BY <1>1, ExtendsReflexive, AccIs

\* The turns of NormalizeValues.
ValueTurns(m, fields, n, u) ==
    /\ u \in [0..Len(fields) -> Accs(n, m)] /\ u[0] = [m |-> m, new |-> <<>>]
    /\ \A i \in 1..Len(fields) : u[i] = NormalizeValue(u[i - 1], fields[i])
    /\ NormalizeValues(m, fields) = Updated(m, fields, u[Len(fields)])

\* The recursive function of NormalizeValues exists and takes its turns.
LEMMA NormalizeLoop ==
    ASSUME NEW n \in Nat, CurrentTable(n), NEW m \in Machines(n), NEW fields,
           DictOK(m, fields), KeysOf(fields) \subseteq Variables
    PROVE  \E u : ValueTurns(m, fields, n, u)
<1> DEFINE turn == [i \in 1..Len(fields) |-> [x \in Accs(n, m) |-> NormalizeValue(x, fields[i])]]
           Right(u) == u = [i \in 0..Len(fields) |-> IF i = 0 THEN [m |-> m, new |-> <<>>] ELSE NormalizeValue(u[i - 1], fields[i])]
           Until == CHOOSE u : Right(u)
<1>0. fields \in Seq(Entries)
    BY DEF DictOK, Dicts
<1>e. \A i \in 1..Len(fields) : EntryOK(m, fields[i]) /\ fields[i].key \in Variables
    BY <1>0, KeysFacts, DictFacts DEF DictOK
<1>1. turn \in Turns(Len(fields), Accs(n, m)) /\ [m |-> m, new |-> <<>>] \in Accs(n, m)
    <2>1. \A i \in 1..Len(fields), x \in Accs(n, m) : NormalizeValue(x, fields[i]) \in Accs(n, m)
        BY <1>0, <1>e, NormalizeValueFacts
    <2> QED
        BY <2>1, AccStart DEF Turns
<1>2. \A i \in 1..Len(fields), x \in Accs(n, m) : turn[i][x] = NormalizeValue(x, fields[i])
    OBVIOUS
<1> HIDE DEF turn
<1>3. PICK u : IsLoop(u, Len(fields), Accs(n, m), [m |-> m, new |-> <<>>], turn)
    BY <1>0, <1>1, Places, LoopExists
<1>4. Right(u)
    <2>1. u \in [0..Len(fields) -> Accs(n, m)] /\ u[0] = [m |-> m, new |-> <<>>]
        BY <1>3 DEF IsLoop
    <2>2. ASSUME NEW i \in 0..Len(fields), i # 0
          PROVE  u[i] = NormalizeValue(u[i - 1], fields[i])
        <3>1. i \in 1..Len(fields) /\ u[i - 1] \in Accs(n, m)
            BY <1>0, <2>1, <2>2, Places
        <3> QED
            BY <1>2, <1>3, <3>1 DEF IsLoop
    <2> QED
        BY <2>1, <2>2
<1>5. Right(Until)
    <2> HIDE DEF Right
    <2> QED
        BY <1>4
<1>6. NormalizeValues(m, fields) = Updated(m, fields, Until[Len(fields)])
    BY DEF NormalizeValues
<1> HIDE DEF Until
<1>7. /\ Until = [i \in 0..Len(fields) |-> Until[i]] /\ Until[0] = [m |-> m, new |-> <<>>]
      /\ \A i \in 1..Len(fields) : Until[i] = NormalizeValue(Until[i - 1], fields[i])
    BY <1>0, <1>5, Places
<1> HIDE DEF Right
<1>8. IsLoop(Until, Len(fields), Accs(n, m), [m |-> m, new |-> <<>>], turn)
    <2>1. \A i \in 1..Len(fields) : Until[i - 1] \in Accs(n, m) => Until[i] = turn[i][Until[i - 1]]
        BY <1>2, <1>7
    <2> QED
        BY <1>0, <1>1, <1>7, <2>1, Places, LoopIs
<1> QED
    BY <1>6, <1>7, <1>8 DEF IsLoop, ValueTurns

\* A call of NormalizeValues that ends well leaves no value behind.
LEMMA NormalizeValuesFacts ==
    ASSUME NEW n \in Nat, CurrentTable(n), NEW m \in Machines(n), m.ok, NEW fields,
           DictOK(m, fields), KeysOf(fields) \subseteq Variables
    PROVE  LET w == NormalizeValues(m, fields)
           IN  /\ Keeps(m, fields, w, n)
               /\ w.m.ok => \A x \in ToSet(w.fields) : ~x.raw
               /\ ~w.m.ok => w.fields = fields
<1>0. fields \in Dicts /\ fields \in Seq(Entries)
    BY DEF DictOK, Dicts
<1>e. \A i \in 1..Len(fields) : EntryOK(m, fields[i]) /\ fields[i].key \in Variables
    BY <1>0, KeysFacts, DictFacts DEF DictOK
<1>1. PICK u : ValueTurns(m, fields, n, u)
    BY NormalizeLoop
<1> USE DEF ValueTurns
<1> DEFINE From(acc, x, e) == e.raw /\ e.key = x.key /\ ModeIn(acc.m, x) = ModeIn(m, e)
           P == [i \in 0..Len(fields) |-> {acc \in Accs(n, m) :
                    acc.m.ok =>
                        /\ \A x \in ToSet(acc.new) : \E j \in 1..i : From(acc, x, fields[j])
                        /\ \A j \in 1..i : fields[j].raw =>
                              \E x \in ToSet(acc.new) : x.key = fields[j].key}]
<1>2. u[0] \in P[0]
    <2>1. u[0] = [m |-> m, new |-> <<>>] /\ 0 \in 0..Len(fields)
        BY <1>0, <1>1, Places
    <2>2. u[0] \in Accs(n, m) /\ ToSet(u[0].new) = {}
        BY <2>1, AccStart, EmptyDict
    <2> QED
        BY <2>1, <2>2
<1>3. ASSUME NEW i \in 1..Len(fields), u[i - 1] \in P[i - 1]
      PROVE  u[i] \in P[i]
    <2>0. i \in 0..Len(fields) /\ i - 1 \in 0..Len(fields)
        BY <1>0, Places
    <2>1. PICK acc \in Accs(n, m) :
              /\ acc = u[i - 1]
              /\ acc.m.ok =>
                    /\ \A x \in ToSet(acc.new) : \E j \in 1..(i - 1) : From(acc, x, fields[j])
                    /\ \A j \in 1..(i - 1) : fields[j].raw =>
                          \E x \in ToSet(acc.new) : x.key = fields[j].key
        BY <1>3, <2>0
    <2>2. PICK e : e = fields[i] /\ EntryOK(m, e) /\ e.key \in Variables
        BY <1>e
    <2>3. PICK w : w = NormalizeValue(acc, e) /\ w = u[i]
        BY <1>1, <2>1, <2>2
    <2>4. /\ w \in Accs(n, m) /\ Extends(acc.m, w.m)
          /\ ~e.raw => w = acc
          /\ w.m.ok /\ e.raw => Added(acc, w, n, m, e.key, ModeIn(m, e))
        <3>1. LET z == NormalizeValue(acc, e)
              IN  /\ z \in Accs(n, m) /\ Extends(acc.m, z.m)
                  /\ ~e.raw => z = acc
                  /\ z.m.ok /\ e.raw => Added(acc, z, n, m, e.key, ModeIn(m, e))
            BY <2>2, NormalizeValueFacts
        <3> QED
            BY <2>3, <3>1
    <2>5. /\ \A j \in 1..i : j = i \/ j \in 1..(i - 1)
          /\ \A j \in 1..(i - 1) : j \in 1..i
          /\ i \in 1..i
        BY <2>0
    <2>6. acc.m \in Machines(n) /\ w.m \in Machines(n) /\ acc.new \in Seq(Entries)
        BY <2>4, AccFacts
    <2>7. ASSUME w.m.ok
          PROVE  /\ \A x \in ToSet(w.new) : \E j \in 1..i : From(w, x, fields[j])
                 /\ \A j \in 1..i : fields[j].raw =>
                       \E x \in ToSet(w.new) : x.key = fields[j].key
        <3>1. CASE ~e.raw
            BY <2>1, <2>2, <2>4, <2>5, <2>7, <3>1
        <3>2. CASE e.raw
            <4>1. acc.m.ok
                BY <2>4, <2>7, <3>2 DEF Added
            <4>2. PICK x \in Entries : /\ w.new = Append(acc.new, x)
                                       /\ x.key = e.key /\ ~x.raw /\ ModeIn(w.m, x) = ModeIn(m, e)
                BY <2>4, <2>7, <3>2 DEF Added
            <4>3. ToSet(w.new) = ToSet(acc.new) \cup {x}
                BY <2>6, <4>2, AppendSet
            <4>4. \A y \in ToSet(acc.new) : EntryOK(acc.m, y)
                BY <4>1, AccFacts
            <4>5. \A y \in ToSet(acc.new) : ModeIn(w.m, y) = ModeIn(acc.m, y)
                BY <2>4, <2>6, <4>4, ExtendsEntry
            <4>6. From(w, x, fields[i])
                BY <2>2, <3>2, <4>2
            <4>7. ASSUME NEW y \in ToSet(w.new)
                  PROVE  \E j \in 1..i : From(w, y, fields[j])
                <5>1. CASE y = x
                    BY <2>5, <4>6, <5>1
                <5>2. CASE y \in ToSet(acc.new)
                    <6>1. PICK j \in 1..(i - 1) : From(acc, y, fields[j])
                        BY <2>1, <4>1, <5>2
                    <6>2. From(w, y, fields[j])
                        BY <4>5, <5>2, <6>1
                    <6> QED
                        BY <2>5, <6>2
                <5> QED
                    BY <4>3, <5>1, <5>2
            <4>8. ASSUME NEW j \in 1..i, fields[j].raw
                  PROVE  \E y \in ToSet(w.new) : y.key = fields[j].key
                <5>1. CASE j = i
                    BY <2>2, <4>2, <4>3, <5>1
                <5>2. CASE j \in 1..(i - 1)
                    BY <2>1, <4>1, <4>3, <4>8, <5>2
                <5> QED
                    BY <2>5, <5>1, <5>2
            <4> QED
                BY <4>7, <4>8
        <3> QED
            BY <2>2, <3>1, <3>2 DEF EntryOK, Entries
    <2> HIDE DEF From
    <2> QED
        BY <2>0, <2>3, <2>4, <2>7
<1>4. \A i \in 0..Len(fields) : u[i] \in P[i]
    <2> HIDE DEF P
    <2> QED
        BY <1>0, <1>2, <1>3, Places, TurnByTurn
<1>5. PICK r \in Accs(n, m) :
          /\ r = u[Len(fields)]
          /\ r.m.ok =>
                /\ \A x \in ToSet(r.new) : \E j \in 1..Len(fields) : From(r, x, fields[j])
                /\ \A j \in 1..Len(fields) : fields[j].raw =>
                      \E x \in ToSet(r.new) : x.key = fields[j].key
    <2>1. u[Len(fields)] \in P[Len(fields)]
        BY <1>0, <1>4, Places
    <2> QED
        BY <1>0, <2>1, Places
<1>6. ToSet(fields) = {fields[j] : j \in 1..Len(fields)} /\ r.new \in Seq(Entries)
    BY <1>0, Places, AccFacts DEF ToSet
<1>7. r.m.ok => Replaces(m, fields, r)
    <2>1. ASSUME r.m.ok, NEW x \in ToSet(r.new), NEW e \in ToSet(fields), e.key = x.key
          PROVE  e.raw /\ ModeIn(r.m, x) = ModeIn(m, e)
        <3>1. PICK f \in ToSet(fields) : From(r, x, f)
            BY <1>5, <1>6, <2>1
        <3>2. e = f
            BY <1>0, <2>1, <3>1, DictFacts
        <3> QED
            BY <3>1, <3>2
    <2> QED
        BY <2>1 DEF Replaces
<1>8. ASSUME r.m.ok, NEW e \in ToSet(fields), e.raw
      PROVE  e.key \in KeysOf(r.new)
    <2>1. \E x \in ToSet(r.new) : x.key = e.key
        BY <1>5, <1>6, <1>8
    <2> QED
        BY <1>6, <2>1, KeysFacts
<1>9. PICK w : w = NormalizeValues(m, fields) /\ w = Updated(m, fields, r)
    BY <1>1, <1>5
<1>10. /\ Keeps(m, fields, w, n) /\ w.m.ok = r.m.ok
       /\ ~r.m.ok => w.fields = fields
    BY <1>7, <1>9, UpdatedFacts
<1>11. ASSUME r.m.ok PROVE \A x \in ToSet(w.fields) : ~x.raw
    BY <1>7, <1>8, <1>9, <1>10, <1>11, UpdatedFacts
<1> QED
    BY <1>9, <1>10, <1>11

-----------------------------------------------------------------------------
(* Recursion over the tree of the variables. *)

\* The children of a variable are lower than it.
IsHeight(h) ==
    /\ h \in [Variables -> 0..Cardinality(Variables)]
    /\ \A v \in Variables : \A i \in DOMAIN Children[v] : h[Children[v][i]] < h[v]

\* There are heights, for the variables are a tree.
LEMMA HeightExists ==
    /\ Cardinality(Variables) \in Nat
    /\ \E h : IsHeight(h)
<1>1. Cardinality(Variables) \in Nat
    BY PresetsAssumption, FS_CardinalityType
<1>2. \E h : IsHeight(h)
    BY PresetsAssumption DEF IsHeight
<1> QED
    BY <1>1, <1>2

\* The children of a variable are variables, and lower.
LEMMA ChildrenFacts ==
    ASSUME NEW v \in Variables
    PROVE  /\ Children[v] \in Seq(Variables) /\ DOMAIN Children[v] = 1..Len(Children[v])
           /\ \A i \in DOMAIN Children[v] : Children[v][i] \in Variables
<1>1. Children[v] \in Seq(Variables)
    BY PresetsAssumption
<1>2. PICK c \in Seq(Variables) : c = Children[v]
    BY <1>1
<1>3. DOMAIN c = 1..Len(c) /\ \A i \in 1..Len(c) : c[i] \in Variables
    OBVIOUS
<1> QED
    BY <1>2, <1>3

\* What holds of a variable when it holds of the lower ones holds of all.
LEMMA HeightInduction ==
    ASSUME NEW h, IsHeight(h), NEW G,
           \A v \in Variables :
                (\A w \in Variables : h[w] < h[v] => w \in G) => v \in G
    PROVE  \A v \in Variables : v \in G
<1> DEFINE R == {h[v] : v \in {u \in Variables : u \notin G}}
<1>0. PICK n : n = Cardinality(Variables) /\ n \in Nat /\ h \in [Variables -> 0..n]
    BY HeightExists DEF IsHeight
<1>1. SUFFICES ASSUME R # {}
               PROVE  FALSE
    OBVIOUS
<1>2. R \in SUBSET Nat
    BY <1>0
<1>3. PICK a \in R : \A b \in R : a <= b
    BY <1>1, <1>2, LeastElement
<1>4. PICK v \in Variables : v \notin G /\ h[v] = a
    BY <1>3
<1>5. PICK w \in Variables : h[w] < h[v] /\ w \notin G
    BY <1>4
<1>6. h[w] \in R
    BY <1>5
<1>7. h[v] <= h[w]
    BY <1>3, <1>4, <1>6
<1> QED
    BY <1>0, <1>5, <1>7

\* A step of a recursion: the value at v, of a function x, from lower values.
IsRecursion(h, T, step) ==
    /\ step \in [Variables -> [[Variables -> T] -> T]]
    /\ \A v \in Variables : \A x, y \in [Variables -> T] :
          (\A w \in Variables : h[w] < h[v] => x[w] = y[w]) => step[v][x] = step[v][y]

\* Applied as often as the tree is high, it reaches a fixed point.
LEMMA RecursionExists ==
    ASSUME NEW h, IsHeight(h), NEW T, NEW a \in T, NEW step, IsRecursion(h, T, step)
    PROVE  \E x \in [Variables -> T] : \A v \in Variables : x[v] = step[v][x]
<1> DEFINE S == [Variables -> T]
           f == [i \in 1..(Cardinality(Variables) + 2) |->
                    [x \in S |-> [v \in Variables |-> step[v][x]]]]
<1>0. PICK n : n = Cardinality(Variables) /\ n \in Nat /\ h \in [Variables -> 0..n]
    BY HeightExists DEF IsHeight
<1>1. /\ step \in [Variables -> [S -> T]]
      /\ \A v \in Variables : \A x, y \in S :
            (\A w \in Variables : h[w] < h[v] => x[w] = y[w]) => step[v][x] = step[v][y]
    BY DEF IsRecursion
<1>2. PICK s0 \in S : TRUE
    <2>1. [v \in Variables |-> a] \in S
        OBVIOUS
    <2> QED
        BY <2>1
<1>3. f \in Turns(n + 2, S)
    BY <1>0, <1>1 DEF Turns
<1>4. \A i \in 1..(n + 2), x \in S : f[i][x] = [v \in Variables |-> step[v][x]]
    BY <1>0
<1> HIDE DEF f, S
<1>5. PICK u : IsLoop(u, n + 2, S, s0, f)
    <2>1. n + 2 \in Nat
        BY <1>0
    <2> QED
        BY <1>2, <1>3, <2>1, LoopExists
<1>6. /\ u \in [0..(n + 2) -> S]
      /\ \A i \in 1..(n + 2) : u[i] = [v \in Variables |-> step[v][u[i - 1]]]
    <2>1. \A i \in 1..(n + 2) : i - 1 \in 0..(n + 2)
        BY <1>0
    <2> QED
        BY <1>4, <1>5, <2>1 DEF IsLoop
<1> DEFINE P == [i \in 0..(n + 1) |->
                    {j \in {i} : \A v \in Variables : h[v] < j => u[j + 1][v] = u[j][v]}]
           id == [i \in 0..(n + 1) |-> i]
<1>7. id[0] \in P[0]
    BY <1>0
<1>8. ASSUME NEW i \in 1..(n + 1), id[i - 1] \in P[i - 1]
      PROVE  id[i] \in P[i]
    <2>1. PICK k \in 0..n : k = i - 1 /\ i = k + 1 /\ i + 1 = k + 2
        BY <1>0
    <2>2. k \in 0..(n + 1) /\ k + 1 \in 0..(n + 1)
        BY <1>0
    <2>3. \A v \in Variables : h[v] < k => u[k + 1][v] = u[k][v]
        BY <1>8, <2>1, <2>2
    <2>4. ASSUME NEW v \in Variables, h[v] < k + 1
          PROVE  u[k + 2][v] = u[k + 1][v]
        <3>1. /\ k + 2 \in 1..(n + 2) /\ k + 2 - 1 = k + 1 /\ k + 1 \in 1..(n + 2)
              /\ k + 1 - 1 = k /\ k \in 0..(n + 2) /\ k + 1 \in 0..(n + 2)
            BY <1>0
        <3>2. u[k + 1] \in S /\ u[k] \in S
            BY <1>6, <3>1
        <3>3. u[k + 2][v] = step[v][u[k + 1]] /\ u[k + 1][v] = step[v][u[k]]
            <4>1. u[k + 2] = [w \in Variables |-> step[w][u[k + 2 - 1]]]
                BY <1>6, <3>1
            <4>2. u[k + 1] = [w \in Variables |-> step[w][u[k + 1 - 1]]]
                BY <1>6, <3>1
            <4> QED
                BY <3>1, <4>1, <4>2
        <3>4. \A w \in Variables : h[w] < h[v] => h[w] < k
            BY <1>0, <2>4
        <3> QED
            BY <1>1, <2>3, <3>2, <3>3, <3>4
    <2>5. \A v \in Variables : h[v] < i => u[i + 1][v] = u[i][v]
        BY <2>1, <2>4
    <2> QED
        BY <2>1, <2>2, <2>5
<1>9. \A i \in 0..(n + 1) : id[i] \in P[i]
    <2>1. n + 1 \in Nat
        BY <1>0
    <2> HIDE DEF id, P
    <2> QED
        BY <1>7, <1>8, <2>1, TurnByTurn
<1>10. ASSUME NEW v \in Variables
       PROVE  u[n + 1][v] = step[v][u[n + 1]]
    <2>1. n + 1 \in 0..(n + 1) /\ n + 2 \in 1..(n + 2) /\ n + 2 - 1 = n + 1 /\ n + 1 + 1 = n + 2
        BY <1>0
    <2>2. \A x \in Variables : h[x] < n + 1 => u[n + 2][x] = u[n + 1][x]
        BY <1>9, <2>1
    <2>3. h[v] < n + 1
        BY <1>0
    <2>4. u[n + 2][v] = step[v][u[n + 1]]
        <3>1. u[n + 2] = [w \in Variables |-> step[w][u[n + 2 - 1]]]
            BY <1>6, <2>1
        <3> QED
            BY <2>1, <3>1
    <2> QED
        BY <2>2, <2>3, <2>4
<1>11. u[n + 1] \in [Variables -> T]
    <2>1. n + 1 \in 0..(n + 2)
        BY <1>0
    <2> QED
        BY <1>6, <2>1 DEF S
<1> QED
    BY <1>10, <1>11

-----------------------------------------------------------------------------
(* Sequences of sequences, one after the other. *)

\* The empty sequence.
LEMMA EmptyFacts ==
    ASSUME NEW S, NEW f, f = <<>>
    PROVE  /\ f \in Seq(S) /\ Len(f) = 0 /\ DOMAIN f = {}
           /\ ToSet(f) = {} /\ IsInjective(f)
<1>1. f \in Seq(S) /\ Len(f) = 0
    OBVIOUS
<1>2. DOMAIN f = {}
    <2>1. DOMAIN f = 1..Len(f)
        BY <1>1
    <2> QED
        BY <1>1, <2>1
<1> QED
    BY <1>1, <1>2 DEF ToSet, IsInjective

\* Nothing before a sequence is that sequence.
LEMMA NothingBefore ==
    ASSUME NEW S, NEW s \in Seq(S)
    PROVE  <<>> \o s = s
<1>1. PICK f : f = <<>> /\ f \in Seq(S) /\ Len(f) = 0
    BY EmptyFacts
<1>2. PICK n \in Nat : n = Len(s)
    OBVIOUS
<1>3. PICK t \in Seq(S) :
          /\ t = f \o s
          /\ Len(t) = n /\ \A i \in 1..n : t[i] = s[i]
    <2>1. /\ f \o s \in Seq(S) /\ Len(f \o s) = Len(f) + Len(s)
          /\ \A i \in 1..(Len(f) + Len(s)) :
                (f \o s)[i] = IF i <= Len(f) THEN f[i] ELSE s[i - Len(f)]
        BY <1>1, ConcatProperties
    <2>2. Len(f \o s) = n /\ \A i \in 1..n : (f \o s)[i] = s[i]
        <3>1. \A i \in 1..n : (f \o s)[i] = IF i <= 0 THEN f[i] ELSE s[i - 0]
            BY <1>1, <1>2, <2>1
        <3>2. \A i \in 1..n : ~(i <= 0) /\ i - 0 = i
            OBVIOUS
        <3> QED
            BY <1>1, <1>2, <2>1, <3>1, <3>2
    <2> QED
        BY <2>1, <2>2
<1>4. t = s
    BY <1>2, <1>3, SeqEqual
<1> QED
    BY <1>1, <1>3, <1>4

FlattenTurns(S, s, u) ==
    /\ u \in [0..Len(s) -> Seq(S)] /\ u[0] = <<>>
    /\ \A i \in 1..Len(s) : u[i] = u[i - 1] \o s[i]
    /\ FlattenSeq(s) = u[Len(s)]

\* FlattenSeq, as the turns of a loop.
LEMMA FlattenLoop ==
    ASSUME NEW S, NEW s \in Seq(Seq(S))
    PROVE  \E u : FlattenTurns(S, s, u)
<1> DEFINE turn == [i \in 1..Len(s) |-> [x \in Seq(S) |-> x \o s[i]]]
           Right(f) == f = [i \in 1..Len(s) |-> IF i = 1 THEN s[i] ELSE f[i - 1] \o s[i]]
           F == CHOOSE f : Right(f)
           w == [i \in 0..Len(s) |-> IF i = 0 THEN <<>> ELSE F[i]]
<1>0. \A i \in 1..Len(s) : s[i] \in Seq(S)
    OBVIOUS
<1>1. turn \in Turns(Len(s), Seq(S)) /\ <<>> \in Seq(S)
    <2>1. \A i \in 1..Len(s), x \in Seq(S) : x \o s[i] \in Seq(S)
        BY <1>0, ConcatProperties
    <2> QED
        BY <2>1 DEF Turns
<1>2. \A i \in 1..Len(s), x \in Seq(S) : turn[i][x] = x \o s[i]
    OBVIOUS
<1> HIDE DEF turn
<1>3. PICK u : IsLoop(u, Len(s), Seq(S), <<>>, turn)
    BY <1>1, Places, LoopExists
<1>4. Right([i \in 1..Len(s) |-> u[i]])
    <2> DEFINE f == [i \in 1..Len(s) |-> u[i]]
    <2>1. ASSUME NEW i \in 1..Len(s)
          PROVE  u[i] = IF i = 1 THEN s[i] ELSE f[i - 1] \o s[i]
        <3>1. i - 1 \in 0..Len(s) /\ u[i - 1] \in Seq(S)
            BY <1>3, Places DEF IsLoop
        <3>2. u[i] = u[i - 1] \o s[i]
            BY <1>2, <1>3, <3>1 DEF IsLoop
        <3>3. CASE i = 1
            <4>1. u[i - 1] = <<>>
                BY <1>3, <3>3 DEF IsLoop
            <4>2. <<>> \o s[i] = s[i]
                BY <1>0, NothingBefore
            <4> QED
                BY <3>2, <3>3, <4>1, <4>2
        <3>4. CASE i # 1
            <4>1. i - 1 \in 1..Len(s)
                BY <3>4
            <4> QED
                BY <3>2, <3>4, <4>1
        <3> QED
            BY <3>3, <3>4
    <2> QED
        BY <2>1
<1>5. Right(F)
    <2> HIDE DEF Right
    <2> QED
        BY <1>4
<1>6. \A i \in 1..Len(s) : F[i] = IF i = 1 THEN s[i] ELSE F[i - 1] \o s[i]
    BY <1>5
<1>7. FlattenSeq(s) = w[Len(s)]
    <2>1. CASE Len(s) = 0
        <3>1. FlattenSeq(s) = s /\ s = <<>>
            BY <2>1, EmptySeq DEF FlattenSeq
        <3> QED
            BY <2>1, <3>1
    <2>2. CASE Len(s) # 0
        <3>1. FlattenSeq(s) = F[Len(s)]
            BY <2>2 DEF FlattenSeq
        <3>2. Len(s) \in 0..Len(s)
            OBVIOUS
        <3> HIDE DEF F
        <3> QED
            BY <2>2, <3>1, <3>2
    <2> QED
        BY <2>1, <2>2
<1> HIDE DEF F, Right
<1>8. /\ w = [i \in 0..Len(s) |-> w[i]] /\ w[0] = <<>>
      /\ \A i \in 1..Len(s) : w[i] = w[i - 1] \o s[i]
    <2>1. w[0] = <<>>
        BY Places
    <2>2. ASSUME NEW i \in 1..Len(s)
          PROVE  w[i] = w[i - 1] \o s[i]
        <3>1. i \in 0..Len(s) /\ i - 1 \in 0..Len(s) /\ i # 0
            BY Places
        <3>2. w[i] = F[i]
            BY <3>1
        <3>3. CASE i = 1
            <4>1. w[i - 1] = <<>> /\ F[i] = s[i]
                BY <1>6, <2>1, <3>3
            <4>2. <<>> \o s[i] = s[i]
                BY <1>0, NothingBefore
            <4> HIDE DEF w
            <4> QED
                BY <3>2, <4>1, <4>2
        <3>4. CASE i # 1
            <4>1. i - 1 # 0
                BY <3>4
            <4>2. w[i - 1] = F[i - 1]
                BY <3>1, <4>1
            <4>3. F[i] = F[i - 1] \o s[i]
                BY <1>6, <3>4
            <4> HIDE DEF w
            <4> QED
                BY <3>2, <4>2, <4>3
        <3> QED
            BY <3>3, <3>4
    <2> QED
        BY <2>1, <2>2
<1> HIDE DEF w
<1>9. IsLoop(w, Len(s), Seq(S), <<>>, turn)
    <2>1. \A i \in 1..Len(s) : w[i - 1] \in Seq(S) => w[i] = turn[i][w[i - 1]]
        BY <1>2, <1>8
    <2> QED
        BY <1>1, <1>8, <2>1, Places, LoopIs
<1>10. FlattenTurns(S, s, w)
    BY <1>7, <1>8, <1>9 DEF IsLoop, FlattenTurns
<1> QED
    BY <1>10

\* What two sequences, one after the other, hold.
LEMMA ConcatSet ==
    ASSUME NEW S, NEW s \in Seq(S), NEW t \in Seq(S)
    PROVE  /\ s \o t \in Seq(S)
           /\ ToSet(s \o t) = ToSet(s) \cup ToSet(t)
           /\ (IsInjective(s) /\ IsInjective(t) /\ ToSet(s) \cap ToSet(t) = {})
                => IsInjective(s \o t)
<1>1. PICK m \in Nat, n \in Nat : m = Len(s) /\ n = Len(t)
    OBVIOUS
<1>2. PICK w \in Seq(S) :
          /\ w = s \o t /\ Len(w) = m + n
          /\ \A i \in 1..(m + n) : w[i] = IF i <= m THEN s[i] ELSE t[i - m]
    <2>1. /\ s \o t \in Seq(S) /\ Len(s \o t) = Len(s) + Len(t)
          /\ \A i \in 1..(Len(s) + Len(t)) :
                (s \o t)[i] = IF i <= Len(s) THEN s[i] ELSE t[i - Len(s)]
        BY ConcatProperties
    <2> QED
        BY <1>1, <2>1
<1>3. DOMAIN w = 1..(m + n) /\ DOMAIN s = 1..m /\ DOMAIN t = 1..n
    BY <1>1, <1>2
<1>4. /\ \A i \in 1..m : i \in 1..(m + n) /\ w[i] = s[i]
      /\ \A i \in 1..n : m + i \in 1..(m + n) /\ w[m + i] = t[i]
    <2>1. \A i \in 1..m : i \in 1..(m + n) /\ i <= m
        OBVIOUS
    <2>2. \A i \in 1..n : m + i \in 1..(m + n) /\ ~(m + i <= m) /\ m + i - m = i
        OBVIOUS
    <2> QED
        BY <1>2, <2>1, <2>2
<1>5. \A i \in 1..(m + n) : i \in 1..m \/ (i - m \in 1..n /\ i = m + (i - m))
    OBVIOUS
<1>6. ToSet(w) = ToSet(s) \cup ToSet(t)
    <2>1. ToSet(w) \subseteq ToSet(s) \cup ToSet(t)
        <3>1. \A i \in 1..(m + n) : \/ \E j \in 1..m : w[i] = s[j]
                                    \/ \E j \in 1..n : w[i] = t[j]
            BY <1>4, <1>5
        <3> QED
            BY <1>3, <3>1 DEF ToSet
    <2>2. ToSet(s) \cup ToSet(t) \subseteq ToSet(w)
        BY <1>3, <1>4 DEF ToSet
    <2> QED
        BY <2>1, <2>2
<1>7. ASSUME IsInjective(s), IsInjective(t), ToSet(s) \cap ToSet(t) = {}
      PROVE  IsInjective(w)
    <2>1. /\ \A i, j \in 1..m : s[i] = s[j] => i = j
          /\ \A i, j \in 1..n : t[i] = t[j] => i = j
          /\ \A i \in 1..m, j \in 1..n : s[i] # t[j]
        <3>1. /\ \A i, j \in 1..m : s[i] = s[j] => i = j
              /\ \A i, j \in 1..n : t[i] = t[j] => i = j
            BY <1>3, <1>7 DEF IsInjective
        <3>2. ASSUME NEW i \in 1..m, NEW j \in 1..n
              PROVE  s[i] # t[j]
            <4>1. s[i] \in ToSet(s) /\ t[j] \in ToSet(t)
                BY <1>3 DEF ToSet
            <4> QED
                BY <1>7, <4>1
        <3> QED
            BY <3>1, <3>2
    <2>2. ASSUME NEW i \in 1..(m + n), NEW j \in 1..(m + n), w[i] = w[j]
          PROVE  i = j
        <3>1. CASE i \in 1..m /\ j \in 1..m
            BY <1>4, <2>1, <2>2, <3>1
        <3>2. CASE i \in 1..m /\ j \notin 1..m
            <4>1. w[i] = s[i] /\ w[j] = t[j - m] /\ j - m \in 1..n
                BY <1>4, <1>5, <3>2
            <4> QED
                BY <2>1, <2>2, <3>2, <4>1
        <3>3. CASE i \notin 1..m /\ j \in 1..m
            <4>1. w[j] = s[j] /\ w[i] = t[i - m] /\ i - m \in 1..n
                BY <1>4, <1>5, <3>3
            <4> QED
                BY <2>1, <2>2, <3>3, <4>1
        <3>4. CASE i \notin 1..m /\ j \notin 1..m
            <4>1. w[i] = t[i - m] /\ i - m \in 1..n /\ w[j] = t[j - m] /\ j - m \in 1..n
                BY <1>4, <1>5, <3>4
            <4>2. i - m = j - m
                BY <2>1, <2>2, <4>1
            <4> QED
                BY <4>2
        <3> QED
            BY <3>1, <3>2, <3>3, <3>4
    <2> QED
        BY <1>3, <2>2 DEF IsInjective
<1> QED
    BY <1>2, <1>6, <1>7

\* What FlattenSeq keeps: the elements, that they are different, and what
\* holds of sequences put together when it holds of each.
LEMMA FlattenFacts ==
    ASSUME NEW S, NEW s \in Seq(Seq(S))
    PROVE  /\ FlattenSeq(s) \in Seq(S)
           /\ ToSet(FlattenSeq(s)) = UNION {ToSet(s[i]) : i \in 1..Len(s)}
           /\ (/\ \A i \in 1..Len(s) : IsInjective(s[i])
               /\ \A i, j \in 1..Len(s) : i # j => ToSet(s[i]) \cap ToSet(s[j]) = {})
                => IsInjective(FlattenSeq(s))
           /\ \A G \in SUBSET Seq(S) :
                (/\ <<>> \in G /\ \A a, b \in G : a \o b \in G
                 /\ \A i \in 1..Len(s) : s[i] \in G)
                => FlattenSeq(s) \in G
<1>1. PICK u : FlattenTurns(S, s, u)
    BY FlattenLoop
<1>2. PICK n \in Nat : n = Len(s)
    OBVIOUS
<1>3. /\ u \in [0..n -> Seq(S)] /\ u[0] = <<>> /\ FlattenSeq(s) = u[n]
      /\ \A i \in 1..n : u[i] = u[i - 1] \o s[i] /\ s[i] \in Seq(S)
    <2>1. /\ u \in [0..Len(s) -> Seq(S)] /\ u[0] = <<>> /\ FlattenSeq(s) = u[Len(s)]
          /\ \A i \in 1..Len(s) : u[i] = u[i - 1] \o s[i]
        BY <1>1 DEF FlattenTurns
    <2>2. \A i \in 1..Len(s) : s[i] \in Seq(S)
        OBVIOUS
    <2> QED
        BY <1>2, <2>1, <2>2
<1>4. \A i \in 1..n : i - 1 \in 0..n /\ i - 1 \in Nat
    OBVIOUS
<1> DEFINE First(i) == UNION {ToSet(s[j]) : j \in 1..i}
<1>5. \A i \in 1..n : First(i) = First(i - 1) \cup ToSet(s[i])
    <2>1. \A i \in 1..n : \A j : j \in 1..i <=> (j \in 1..(i - 1) \/ j = i)
        OBVIOUS
    <2> QED
        BY <2>1
<1>6. n \in 0..n /\ 0 \in 0..n /\ First(0) = {}
    OBVIOUS
<1>7. ToSet(u[0]) = {}
    BY <1>3, EmptyFacts
<1> HIDE DEF First
<1>8. \A i \in 0..n : ToSet(u[i]) = First(i)
    <2> DEFINE P == [i \in 0..n |-> {x \in Seq(S) : ToSet(x) = First(i)}]
    <2>1. u[0] \in P[0]
        BY <1>3, <1>6, <1>7
    <2>2. ASSUME NEW i \in 1..n, u[i - 1] \in P[i - 1]
          PROVE  u[i] \in P[i]
        <3>1. u[i - 1] \in Seq(S) /\ ToSet(u[i - 1]) = First(i - 1)
            BY <1>4, <2>2
        <3>2. u[i] \in Seq(S) /\ ToSet(u[i]) = First(i)
            <4>1. PICK a \in Seq(S), b \in Seq(S) : a = u[i - 1] /\ b = s[i] /\ u[i] = a \o b
                BY <1>3, <3>1
            <4>2. a \o b \in Seq(S) /\ ToSet(a \o b) = ToSet(a) \cup ToSet(b)
                BY ConcatSet
            <4> QED
                BY <1>5, <3>1, <4>1, <4>2
        <3> QED
            BY <3>2
    <2>3. \A i \in 0..n : u[i] \in P[i]
        <3> HIDE DEF P
        <3> QED
            BY <2>1, <2>2, TurnByTurn
    <2> QED
        BY <2>3
<1>9. ASSUME \A i \in 1..n : IsInjective(s[i]),
             \A i, j \in 1..n : i # j => ToSet(s[i]) \cap ToSet(s[j]) = {}
      PROVE  IsInjective(u[n])
    <2> DEFINE P == [i \in 0..n |-> {x \in Seq(S) : IsInjective(x)}]
    <2>1. u[0] \in P[0]
        BY <1>3, <1>6, EmptyFacts
    <2>2. ASSUME NEW i \in 1..n, u[i - 1] \in P[i - 1]
          PROVE  u[i] \in P[i]
        <3>1. u[i - 1] \in Seq(S) /\ IsInjective(u[i - 1])
            BY <1>4, <2>2
        <3>2. First(i - 1) \cap ToSet(s[i]) = {}
            <4>1. \A j \in 1..(i - 1) : j \in 1..n /\ j # i
                OBVIOUS
            <4> QED
                BY <1>9, <4>1 DEF First
        <3>3. ToSet(u[i - 1]) \cap ToSet(s[i]) = {}
            BY <1>4, <1>8, <3>2
        <3>4. u[i] \in Seq(S) /\ IsInjective(u[i])
            <4>1. PICK a \in Seq(S), b \in Seq(S) : a = u[i - 1] /\ b = s[i] /\ u[i] = a \o b
                BY <1>3, <3>1
            <4>2. IsInjective(a) /\ IsInjective(b) /\ ToSet(a) \cap ToSet(b) = {}
                BY <1>9, <3>1, <3>3, <4>1
            <4>3. a \o b \in Seq(S) /\ IsInjective(a \o b)
                BY <4>2, ConcatSet
            <4> QED
                BY <4>1, <4>3
        <3> QED
            BY <3>4
    <2>3. \A i \in 0..n : u[i] \in P[i]
        <3> HIDE DEF P
        <3> QED
            BY <2>1, <2>2, TurnByTurn
    <2> QED
        BY <1>6, <2>3
<1>10. ASSUME NEW G \in SUBSET Seq(S), <<>> \in G, \A a, b \in G : a \o b \in G,
              \A i \in 1..n : s[i] \in G
       PROVE  u[n] \in G
    <2> DEFINE P == [i \in 0..n |-> G]
    <2>1. u[0] \in P[0]
        BY <1>3, <1>6, <1>10
    <2>2. ASSUME NEW i \in 1..n, u[i - 1] \in P[i - 1]
          PROVE  u[i] \in P[i]
        <3>1. i \in 0..n /\ i - 1 \in 0..n
            OBVIOUS
        <3>2. u[i - 1] \in G /\ s[i] \in G /\ u[i] = u[i - 1] \o s[i]
            BY <1>3, <1>10, <2>2, <3>1
        <3>3. u[i] \in G
            BY <1>10, <3>2
        <3> QED
            BY <3>1, <3>3
    <2>3. \A i \in 0..n : u[i] \in P[i]
        <3> HIDE DEF P
        <3> QED
            BY <2>1, <2>2, TurnByTurn
    <2> QED
        BY <1>6, <2>3
<1>11. u[n] \in Seq(S) /\ ToSet(u[n]) = First(n)
    BY <1>3, <1>6, <1>8
<1> QED
    BY <1>2, <1>3, <1>9, <1>10, <1>11 DEF First

\* The subtrees of the children of v, as a function x gives what is below each.
Below(v, x) ==
    [i \in DOMAIN Children[v] |-> <<Children[v][i]>> \o x[Children[v][i]]]

\* The subtrees of the children are sequences of variables.
LEMMA BelowTyped ==
    ASSUME NEW v \in Variables, NEW x,
           \A i \in DOMAIN Children[v] : x[Children[v][i]] \in Seq(Variables)
    PROVE  /\ Below(v, x) \in Seq(Seq(Variables)) /\ Len(Below(v, x)) = Len(Children[v])
           /\ \A i \in 1..Len(Children[v]) :
                 Below(v, x)[i] = <<Children[v][i]>> \o x[Children[v][i]]
<1>1. PICK c \in Seq(Variables) : c = Children[v] /\ DOMAIN c = 1..Len(c)
    BY ChildrenFacts
<1>2. \A i \in 1..Len(c) : c[i] \in Variables /\ x[c[i]] \in Seq(Variables)
    BY <1>1
<1>3. \A i \in 1..Len(c) : <<c[i]>> \in Seq(Variables)
    BY <1>2
<1>4. \A i \in 1..Len(c) : <<c[i]>> \o x[c[i]] \in Seq(Variables)
    BY <1>2, <1>3, ConcatProperties
<1>5. PICK y : y = [i \in 1..Len(c) |-> <<c[i]>> \o x[c[i]]]
    OBVIOUS
<1>6. y \in [1..Len(c) -> Seq(Variables)]
    BY <1>4, <1>5
<1>7. Len(c) \in Nat
    OBVIOUS
<1>8. y \in Seq(Seq(Variables)) /\ Len(y) = Len(c)
    BY <1>6, <1>7, SeqDef, LenProperties
<1>9. \A i \in 1..Len(c) : y[i] = <<c[i]>> \o x[c[i]]
    BY <1>5
<1> QED
    BY <1>1, <1>5, <1>8, <1>9 DEF Below

\* The recursion by which Descendants is defined has a solution, and gives
\* every variable a sequence of variables.
LEMMA DescendantsAre ==
    \A v \in Variables :
        /\ Descendants[v] \in Seq(Variables)
        /\ Descendants[v] = FlattenSeq(Below(v, Descendants))
<1> DEFINE T == Seq(Variables)
           S == [Variables -> T]
           step == [v \in Variables |-> [x \in S |-> FlattenSeq(Below(v, x))]]
           Right(D) == D = [v \in Variables |-> FlattenSeq(Below(v, D))]
           D0 == CHOOSE D : Right(D)
<1>1. PICK h : IsHeight(h)
    BY HeightExists
<1>2. ASSUME NEW v \in Variables, NEW x \in S
      PROVE  FlattenSeq(Below(v, x)) \in T
    <2>1. \A i \in DOMAIN Children[v] : x[Children[v][i]] \in Seq(Variables)
        BY ChildrenFacts
    <2>2. Below(v, x) \in Seq(Seq(Variables))
        BY <2>1, BelowTyped
    <2> QED
        BY <2>2, FlattenFacts
<1>3. ASSUME NEW v \in Variables, NEW x \in S, NEW y \in S,
             \A w \in Variables : h[w] < h[v] => x[w] = y[w]
      PROVE  Below(v, x) = Below(v, y)
    <2>1. \A i \in DOMAIN Children[v] : x[Children[v][i]] = y[Children[v][i]]
        BY <1>1, <1>3, ChildrenFacts DEF IsHeight
    <2> QED
        BY <2>1 DEF Below
<1>4. step \in [Variables -> [S -> T]]
    BY <1>2
<1>5. \A v \in Variables, x \in S : step[v][x] = FlattenSeq(Below(v, x))
    OBVIOUS
<1> HIDE DEF step
<1>6. IsRecursion(h, T, step)
    <2>1. ASSUME NEW v \in Variables, NEW x \in S, NEW y \in S,
                 \A w \in Variables : h[w] < h[v] => x[w] = y[w]
          PROVE  step[v][x] = step[v][y]
        <3>1. Below(v, x) = Below(v, y)
            BY <1>3, <2>1
        <3>2. step[v][x] = FlattenSeq(Below(v, x)) /\ step[v][y] = FlattenSeq(Below(v, y))
            BY <1>5
        <3> QED
            BY <3>1, <3>2
    <2> QED
        BY <1>4, <2>1 DEF IsRecursion
<1>7. PICK x \in S : \A v \in Variables : x[v] = step[v][x]
    <2>1. <<>> \in T
        OBVIOUS
    <2> HIDE DEF T
    <2> QED
        BY <1>1, <1>6, <2>1, RecursionExists
<1>8. Right(x)
    <2>1. x = [v \in Variables |-> x[v]]
        OBVIOUS
    <2>2. \A v \in Variables : x[v] = FlattenSeq(Below(v, x))
        BY <1>5, <1>7
    <2> QED
        BY <2>1, <2>2
<1>9. Right(D0)
    <2> HIDE DEF Right
    <2> QED
        BY <1>8
<1>10. Descendants = D0
    BY DEF Descendants, Below
<1> HIDE DEF D0
<1>11. \A v \in Variables : Descendants[v] = FlattenSeq(Below(v, Descendants))
    BY <1>9, <1>10
<1>12. \A v \in Variables : v \in {w \in Variables : Descendants[w] \in T}
    <2> DEFINE G == {w \in Variables : Descendants[w] \in T}
    <2>1. ASSUME NEW v \in Variables, \A w \in Variables : h[w] < h[v] => w \in G
          PROVE  v \in G
        <3>1. \A i \in DOMAIN Children[v] : Descendants[Children[v][i]] \in Seq(Variables)
            BY <1>1, <2>1, ChildrenFacts DEF IsHeight
        <3>2. Below(v, Descendants) \in Seq(Seq(Variables))
            BY <3>1, BelowTyped
        <3>3. FlattenSeq(Below(v, Descendants)) \in Seq(Variables)
            BY <3>2, FlattenFacts
        <3> QED
            BY <1>11, <3>3
    <2> HIDE DEF G
    <2>2. \A v \in Variables : v \in G
        BY <1>1, <2>1, HeightInduction
    <2> QED
        BY <2>2 DEF G
<1> QED
    BY <1>11, <1>12

\* The descendants of a variable are variables.
LEMMA DescendantsTyped ==
    ASSUME NEW v \in Variables
    PROVE  Descendants[v] \in Seq(Variables)
BY DescendantsAre

-----------------------------------------------------------------------------
(* The variables that are visited. *)

\* One step of the recursion by which Visited is defined.
Visit(fixed, picked, v, x) ==
    IF v \in fixed \/ ~IsNode(v) THEN <<v>>
    ELSE IF TypeOf[v] = "Alt" THEN <<v>> \o x[Children[v][picked[v]]]
    ELSE FlattenSeq([i \in DOMAIN Children[v] |-> x[Children[v][i]]]) \o <<v>>

\* What is visited below a variable is variables.
LEMMA VisitTyped ==
    ASSUME NEW fixed, NEW picked \in Picks, NEW v \in Variables, NEW x,
           \A i \in DOMAIN Children[v] : x[Children[v][i]] \in Seq(Variables)
    PROVE  Visit(fixed, picked, v, x) \in Seq(Variables)
<1>1. <<v>> \in Seq(Variables)
    OBVIOUS
<1>2. CASE v \in fixed \/ ~IsNode(v)
    BY <1>1, <1>2 DEF Visit
<1>3. CASE ~(v \in fixed \/ ~IsNode(v)) /\ TypeOf[v] = "Alt"
    <2>1. picked[v] \in DOMAIN Children[v]
        BY <1>3 DEF Picks, Alts
    <2>2. x[Children[v][picked[v]]] \in Seq(Variables)
        BY <2>1
    <2>3. <<v>> \o x[Children[v][picked[v]]] \in Seq(Variables)
        BY <1>1, <2>2, ConcatProperties
    <2> QED
        BY <1>3, <2>3 DEF Visit
<1>4. CASE ~(v \in fixed \/ ~IsNode(v)) /\ TypeOf[v] # "Alt"
    <2>1. PICK y : y = [i \in DOMAIN Children[v] |-> x[Children[v][i]]]
        OBVIOUS
    <2>2. PICK n \in Nat : DOMAIN Children[v] = 1..n
        BY ChildrenFacts
    <2>3. y \in [1..n -> Seq(Variables)]
        BY <2>1, <2>2
    <2>4. y \in Seq(Seq(Variables))
        BY <2>3, SeqDef
    <2>5. FlattenSeq(y) \in Seq(Variables)
        BY <2>4, FlattenFacts
    <2>6. FlattenSeq(y) \o <<v>> \in Seq(Variables)
        BY <1>1, <2>5, ConcatProperties
    <2> QED
        BY <1>4, <2>1, <2>6 DEF Visit
<1> QED
    BY <1>2, <1>3, <1>4

\* What is visited when a symbol is specialized is variables.
LEMMA VisitedTyped ==
    ASSUME NEW fixed, NEW picked \in Picks
    PROVE  Visited(fixed, picked) \in Seq(Variables)
<1> DEFINE T == Seq(Variables)
           S == [Variables -> T]
           step == [v \in Variables |-> [x \in S |-> Visit(fixed, picked, v, x)]]
           Right(W) == W = [v \in Variables |-> Visit(fixed, picked, v, W)]
           W0 == CHOOSE W : Right(W)
<1>1. PICK h : IsHeight(h)
    BY HeightExists
<1>2. ASSUME NEW v \in Variables, NEW x \in S
      PROVE  Visit(fixed, picked, v, x) \in T
    <2>1. \A i \in DOMAIN Children[v] : x[Children[v][i]] \in Seq(Variables)
        BY ChildrenFacts
    <2> QED
        BY <2>1, VisitTyped
<1>3. ASSUME NEW v \in Variables, NEW x \in S, NEW y \in S,
             \A w \in Variables : h[w] < h[v] => x[w] = y[w]
      PROVE  Visit(fixed, picked, v, x) = Visit(fixed, picked, v, y)
    <2>1. \A i \in DOMAIN Children[v] : x[Children[v][i]] = y[Children[v][i]]
        BY <1>1, <1>3, ChildrenFacts DEF IsHeight
    <2>2. [i \in DOMAIN Children[v] |-> x[Children[v][i]]]
                = [i \in DOMAIN Children[v] |-> y[Children[v][i]]]
        BY <2>1
    <2>3. TypeOf[v] = "Alt" => picked[v] \in DOMAIN Children[v]
        BY DEF Picks, Alts
    <2> QED
        BY <2>1, <2>2, <2>3 DEF Visit
<1>4. step \in [Variables -> [S -> T]]
    BY <1>2
<1>5. \A v \in Variables, x \in S : step[v][x] = Visit(fixed, picked, v, x)
    OBVIOUS
<1> HIDE DEF step
<1>6. IsRecursion(h, T, step)
    <2>1. ASSUME NEW v \in Variables, NEW x \in S, NEW y \in S,
                 \A w \in Variables : h[w] < h[v] => x[w] = y[w]
          PROVE  step[v][x] = step[v][y]
        <3>1. Visit(fixed, picked, v, x) = Visit(fixed, picked, v, y)
            BY <1>3, <2>1
        <3> QED
            BY <1>5, <3>1
    <2> QED
        BY <1>4, <2>1 DEF IsRecursion
<1>7. PICK x \in S : \A v \in Variables : x[v] = step[v][x]
    <2>1. <<>> \in T
        OBVIOUS
    <2> HIDE DEF T
    <2> QED
        BY <1>1, <1>6, <2>1, RecursionExists
<1>8. Right(x)
    <2>1. x = [v \in Variables |-> x[v]]
        OBVIOUS
    <2>2. \A v \in Variables : x[v] = Visit(fixed, picked, v, x)
        BY <1>5, <1>7
    <2> QED
        BY <2>1, <2>2
<1>9. Right(W0)
    <2> HIDE DEF Right
    <2> QED
        BY <1>8
<1>10. Visited(fixed, picked) = FlattenSeq([i \in DOMAIN LeafFields |-> W0[Domain[LeafFields[i]]]])
    BY DEF Visited, Visit
<1> HIDE DEF W0
<1>11. \A v \in Variables : W0[v] = Visit(fixed, picked, v, W0)
    BY <1>9
<1>12. \A v \in Variables : W0[v] \in T
    <2> DEFINE G == {w \in Variables : W0[w] \in T}
    <2>1. ASSUME NEW v \in Variables, \A w \in Variables : h[w] < h[v] => w \in G
          PROVE  v \in G
        <3>1. \A i \in DOMAIN Children[v] : W0[Children[v][i]] \in Seq(Variables)
            BY <1>1, <2>1, ChildrenFacts DEF IsHeight
        <3>2. Visit(fixed, picked, v, W0) \in Seq(Variables)
            BY <3>1, VisitTyped
        <3> QED
            BY <1>11, <3>2
    <2> HIDE DEF G
    <2>2. \A v \in Variables : v \in G
        BY <1>1, <2>1, HeightInduction
    <2> QED
        BY <2>2 DEF G
<1>13. PICK y : y = [i \in DOMAIN LeafFields |-> W0[Domain[LeafFields[i]]]]
    OBVIOUS
<1>14. y \in Seq(Seq(Variables))
    <2>1. PICK l \in Seq(Fields) : l = LeafFields
        BY PresetsAssumption
    <2>2. DOMAIN l = 1..Len(l) /\ Len(l) \in Nat /\ \A i \in 1..Len(l) : l[i] \in Fields
        OBVIOUS
    <2>3. \A i \in 1..Len(l) : W0[Domain[l[i]]] \in Seq(Variables)
        BY <1>12, <2>2, PresetsAssumption
    <2>4. y \in [1..Len(l) -> Seq(Variables)]
        BY <1>13, <2>1, <2>2, <2>3
    <2> QED
        BY <2>2, <2>4, SeqDef
<1> QED
    BY <1>10, <1>13, <1>14, FlattenFacts

-----------------------------------------------------------------------------
(* What is below a variable. *)

\* A child has one parent.
LEMMA OneParent ==
    ASSUME NEW u \in Variables, NEW c \in ToSet(Children[u])
    PROVE  c \in Variables /\ Parent(c) = u
<1>1. PICK i \in DOMAIN Children[u] : Children[u][i] = c
    BY DEF ToSet
<1>2. IsChild(u, c)
    BY <1>1 DEF IsChild
<1>3. \A v \in Variables : IsChild(v, c) => v = u
    BY <1>1, PresetsAssumption DEF IsChild
<1>4. Parent(c) = u
    BY <1>2, <1>3 DEF Parent
<1> QED
    BY <1>1, <1>4, ChildrenFacts

\* A sequence of one element.
LEMMA Single ==
    ASSUME NEW S, NEW e \in S
    PROVE  /\ <<e>> \in Seq(S) /\ Len(<<e>>) = 1 /\ <<e>>[1] = e
           /\ ToSet(<<e>>) = {e} /\ IsInjective(<<e>>)
<1>1. PICK s : s = <<e>> /\ s \in Seq(S) /\ Len(s) = 1 /\ s[1] = e
    <2>1. <<e>> \in Seq(S) /\ Len(<<e>>) = 1 /\ <<e>>[1] = e
        OBVIOUS
    <2> QED
        BY <2>1
<1>2. DOMAIN s = {1}
    <2>1. DOMAIN s = 1..1
        BY <1>1
    <2> QED
        BY <2>1
<1> QED
    BY <1>1, <1>2 DEF ToSet, IsInjective

\* A child and what is below it.
LEMMA SubtreeFacts ==
    ASSUME NEW c \in Variables
    PROVE  /\ <<c>> \o Descendants[c] \in Seq(Variables)
           /\ ToSet(<<c>> \o Descendants[c]) = {c} \cup ToSet(Descendants[c])
           /\ (IsInjective(Descendants[c]) /\ c \notin ToSet(Descendants[c]))
                => IsInjective(<<c>> \o Descendants[c])
<1>1. PICK s, d : /\ s = <<c>> /\ d = Descendants[c]
                  /\ s \in Seq(Variables) /\ d \in Seq(Variables)
                  /\ ToSet(s) = {c} /\ IsInjective(s)
    BY Single, DescendantsTyped
<1>2. /\ s \o d \in Seq(Variables) /\ ToSet(s \o d) = ToSet(s) \cup ToSet(d)
      /\ (IsInjective(s) /\ IsInjective(d) /\ ToSet(s) \cap ToSet(d) = {}) => IsInjective(s \o d)
    BY <1>1, ConcatSet
<1> QED
    BY <1>1, <1>2

\* The descendants of v are its children and their descendants.
LEMMA DescendantsSet ==
    ASSUME NEW v \in Variables
    PROVE  ToSet(Descendants[v]) =
               UNION {{c} \cup ToSet(Descendants[c]) : c \in ToSet(Children[v])}
<1>1. PICK b : /\ b = Below(v, Descendants) /\ b \in Seq(Seq(Variables))
               /\ Len(b) = Len(Children[v])
               /\ \A i \in 1..Len(Children[v]) :
                    b[i] = <<Children[v][i]>> \o Descendants[Children[v][i]]
    <2>1. PICK d : d = Descendants
        OBVIOUS
    <2>2. \A i \in DOMAIN Children[v] : d[Children[v][i]] \in Seq(Variables)
        BY <2>1, ChildrenFacts, DescendantsTyped
    <2>3. /\ Below(v, d) \in Seq(Seq(Variables)) /\ Len(Below(v, d)) = Len(Children[v])
          /\ \A i \in 1..Len(Children[v]) :
                Below(v, d)[i] = <<Children[v][i]>> \o d[Children[v][i]]
        BY <2>2, BelowTyped
    <2> QED
        BY <2>1, <2>3
<1>2. ToSet(Descendants[v]) = UNION {ToSet(b[i]) : i \in 1..Len(b)}
    BY <1>1, DescendantsAre, FlattenFacts
<1>3. \A i \in 1..Len(b) : ToSet(b[i]) = {Children[v][i]} \cup ToSet(Descendants[Children[v][i]])
    BY <1>1, ChildrenFacts, SubtreeFacts
<1>4. ToSet(Children[v]) = {Children[v][i] : i \in 1..Len(b)}
    BY <1>1, ChildrenFacts DEF ToSet
<1>5. \A i \in 1..Len(b) : Children[v][i] \in ToSet(Children[v])
    BY <1>4
<1>6. \A c \in ToSet(Children[v]) : \E i \in 1..Len(b) : c = Children[v][i]
    BY <1>4
<1> DEFINE Tree(c) == {c} \cup ToSet(Descendants[c])
<1>7. \A i \in 1..Len(b) : ToSet(b[i]) = Tree(Children[v][i])
    BY <1>3
<1> HIDE DEF Tree
<1>8. UNION {ToSet(b[i]) : i \in 1..Len(b)} = UNION {Tree(c) : c \in ToSet(Children[v])}
    BY <1>5, <1>6, <1>7
<1> QED
    BY <1>2, <1>8 DEF Tree

\* They are lower than v, and each has its parent there.
LEMMA DescendantsLower ==
    ASSUME NEW h, IsHeight(h)
    PROVE  \A v \in Variables : \A x \in ToSet(Descendants[v]) :
               /\ x \in Variables /\ h[x] < h[v] /\ x # v
               /\ Parent(x) \in {v} \cup ToSet(Descendants[v]) /\ h[x] < h[Parent(x)]
<1>1. PICK n \in Nat : h \in [Variables -> 0..n]
    BY HeightExists DEF IsHeight
<1> DEFINE G == {v \in Variables : \A x \in ToSet(Descendants[v]) :
                    /\ x \in Variables /\ h[x] < h[v]
                    /\ Parent(x) \in {v} \cup ToSet(Descendants[v]) /\ h[x] < h[Parent(x)]}
<1>2. ASSUME NEW v \in Variables, \A w \in Variables : h[w] < h[v] => w \in G
      PROVE  v \in G
    <2>1. ASSUME NEW x \in ToSet(Descendants[v])
          PROVE  /\ x \in Variables /\ h[x] < h[v]
                 /\ Parent(x) \in {v} \cup ToSet(Descendants[v]) /\ h[x] < h[Parent(x)]
        <3>1. PICK c \in ToSet(Children[v]) : x = c \/ x \in ToSet(Descendants[c])
            BY DescendantsSet
        <3>2. c \in Variables /\ Parent(c) = v
            BY OneParent
        <3>3. h[c] < h[v]
            BY DEF IsHeight, ToSet
        <3>4. {c} \cup ToSet(Descendants[c]) \subseteq ToSet(Descendants[v])
            BY DescendantsSet
        <3>5. CASE x = c
            BY <3>2, <3>3, <3>5
        <3>6. CASE x \in ToSet(Descendants[c])
            <4>1. c \in G
                BY <1>2, <3>2, <3>3
            <4>2. x \in Variables /\ h[x] < h[c] /\ Parent(x) \in {c} \cup ToSet(Descendants[c])
                  /\ h[x] < h[Parent(x)]
                BY <3>6, <4>1
            <4>3. h[x] < h[v]
                <5>1. h[x] \in Nat /\ h[c] \in Nat /\ h[v] \in Nat
                    BY <1>1, <3>2, <4>2
                <5> QED
                    BY <3>3, <4>2, <5>1
            <4> QED
                BY <3>4, <4>2, <4>3
        <3> QED
            BY <3>1, <3>5, <3>6
    <2> QED
        BY <2>1
<1> HIDE DEF G
<1>3. \A v \in Variables : v \in G
    BY <1>2, HeightInduction
<1>4. \A v \in Variables : ~(h[v] < h[v])
    BY <1>1
<1> QED
    BY <1>3, <1>4 DEF G

\* The subtrees of two children have nothing in common.
LEMMA SubtreesDiffer ==
    ASSUME NEW v \in Variables, NEW a \in ToSet(Children[v]), NEW b \in ToSet(Children[v]), a # b
    PROVE  ({a} \cup ToSet(Descendants[a])) \cap ({b} \cup ToSet(Descendants[b])) = {}
<1>1. PICK h : IsHeight(h)
    BY HeightExists
<1>2. PICK n \in Nat : h \in [Variables -> 0..n]
    BY <1>1, HeightExists DEF IsHeight
<1>3. /\ a \in Variables /\ Parent(a) = v /\ b \in Variables /\ Parent(b) = v
      /\ h[a] < h[v] /\ h[b] < h[v]
    BY <1>1, OneParent DEF IsHeight, ToSet
<1> DEFINE A == {a} \cup ToSet(Descendants[a])
           B == {b} \cup ToSet(Descendants[b])
           R == {n - h[x] : x \in A \cap B}
<1>4. \A x \in A \cup B : x \in Variables /\ h[x] < h[v]
    <2>1. \A x \in ToSet(Descendants[a]) : x \in Variables /\ h[x] < h[a]
        BY <1>1, <1>3, DescendantsLower
    <2>2. \A x \in ToSet(Descendants[b]) : x \in Variables /\ h[x] < h[b]
        BY <1>1, <1>3, DescendantsLower
    <2>3. \A x, y, z \in Variables : h[x] < h[y] /\ h[y] < h[z] => h[x] < h[z]
        <3>1. \A x \in Variables : h[x] \in Nat
            BY <1>2
        <3> QED
            BY <3>1
    <2> QED
        BY <1>3, <2>1, <2>2, <2>3
<1>5. v \notin A /\ v \notin B
    <2>1. h[v] \in Nat
        BY <1>2
    <2>2. ~(h[v] < h[v])
        BY <2>1
    <2> HIDE DEF A, B
    <2> QED
        BY <1>4, <2>2
<1>6. ASSUME NEW x \in A \cap B
      PROVE  Parent(x) \in A \cap B
    <2>1. x # a
        <3>1. CASE x = a
            <4>1. a \in ToSet(Descendants[b])
                BY <1>6, <3>1
            <4>2. v \in B
                BY <1>1, <1>3, <4>1, DescendantsLower
            <4> QED
                BY <1>5, <4>2
        <3> QED
            BY <3>1
    <2>2. x # b
        <3>1. CASE x = b
            <4>1. b \in ToSet(Descendants[a])
                BY <1>6, <3>1
            <4>2. v \in A
                BY <1>1, <1>3, <4>1, DescendantsLower
            <4> QED
                BY <1>5, <4>2
        <3> QED
            BY <3>1
    <2>3. x \in ToSet(Descendants[a]) /\ x \in ToSet(Descendants[b])
        BY <1>6, <2>1, <2>2
    <2> QED
        BY <1>1, <1>3, <2>3, DescendantsLower
<1>7. ASSUME NEW x \in A \cap B
      PROVE  h[x] < h[Parent(x)]
    <2>1. CASE x = a
        BY <1>3, <2>1
    <2>2. CASE x \in ToSet(Descendants[a])
        BY <1>1, <1>3, <2>2, DescendantsLower
    <2> QED
        BY <2>1, <2>2
<1>8. SUFFICES ASSUME A \cap B # {}
               PROVE  FALSE
    OBVIOUS
<1>9. PICK r \in R : \A s \in R : r <= s
    <2>1. R # {}
        BY <1>8
    <2>2. R \in SUBSET Nat
        <3>1. \A x \in A \cap B : h[x] \in 0..n
            BY <1>2, <1>4
        <3>2. \A x \in A \cap B : n - h[x] \in Nat
            BY <3>1
        <3> QED
            BY <3>2
    <2> HIDE DEF R
    <2> QED
        BY <2>1, <2>2, LeastElement
<1>10. PICK x \in A \cap B : r = n - h[x]
    BY <1>9
<1>11. n - h[Parent(x)] \in R
    BY <1>6
<1>12. /\ h[x] \in 0..n /\ h[Parent(x)] \in 0..n /\ h[x] < h[Parent(x)]
    BY <1>2, <1>4, <1>6, <1>7
<1>13. n - h[x] <= n - h[Parent(x)]
    BY <1>9, <1>10, <1>11
<1> QED
    BY <1>12, <1>13

\* The children of a variable come after it.
Ordered(s) ==
    \A k \in 1..Len(s) : \A c \in ToSet(Children[s[k]]) :
        \E l \in (k + 1)..Len(s) : s[l] = c

\* Two sequences in which children come later, one after the other.
LEMMA OrderedConcat ==
    ASSUME NEW s \in Seq(Variables), NEW t \in Seq(Variables), Ordered(s), Ordered(t)
    PROVE  Ordered(s \o t)
<1>1. PICK m \in Nat, n \in Nat : m = Len(s) /\ n = Len(t)
    OBVIOUS
<1>2. PICK w \in Seq(Variables) :
          /\ w = s \o t /\ Len(w) = m + n
          /\ \A i \in 1..(m + n) : w[i] = IF i <= m THEN s[i] ELSE t[i - m]
    <2>1. /\ s \o t \in Seq(Variables) /\ Len(s \o t) = Len(s) + Len(t)
          /\ \A i \in 1..(Len(s) + Len(t)) :
                (s \o t)[i] = IF i <= Len(s) THEN s[i] ELSE t[i - Len(s)]
        BY ConcatProperties
    <2> QED
        BY <1>1, <2>1
<1>3. /\ \A i \in 1..m : i \in 1..(m + n) /\ w[i] = s[i]
      /\ \A i \in 1..n : m + i \in 1..(m + n) /\ w[m + i] = t[i]
    <2>1. \A i \in 1..m : i \in 1..(m + n) /\ i <= m
        OBVIOUS
    <2>2. \A i \in 1..n : m + i \in 1..(m + n) /\ ~(m + i <= m) /\ m + i - m = i
        OBVIOUS
    <2> QED
        BY <1>2, <2>1, <2>2
<1>4. ASSUME NEW k \in 1..(m + n), NEW c \in ToSet(Children[w[k]])
      PROVE  \E l \in (k + 1)..(m + n) : w[l] = c
    <2>1. CASE k \in 1..m
        <3>1. c \in ToSet(Children[s[k]])
            BY <1>3, <2>1
        <3>2. PICK l \in (k + 1)..m : s[l] = c
            BY <1>1, <2>1, <3>1 DEF Ordered
        <3>3. l \in 1..m /\ l \in (k + 1)..(m + n)
            BY <2>1
        <3> QED
            BY <1>3, <3>2, <3>3
    <2>2. CASE k \notin 1..m
        <3>1. PICK i \in 1..n : k = m + i
            <4>1. k - m \in 1..n /\ k = m + (k - m)
                BY <2>2
            <4> QED
                BY <4>1
        <3>2. c \in ToSet(Children[t[i]])
            BY <1>3, <3>1
        <3>3. PICK l \in (i + 1)..n : t[l] = c
            BY <1>1, <3>2 DEF Ordered
        <3>4. l \in 1..n /\ m + l \in (k + 1)..(m + n)
            BY <3>1
        <3> QED
            BY <1>3, <3>3, <3>4
    <2> QED
        BY <2>1, <2>2
<1>5. Ordered(w)
    <2>1. Len(w) = m + n
        BY <1>2
    <2>2. \A k \in 1..Len(w) : \A x \in ToSet(Children[w[k]]) :
              \E l \in (k + 1)..Len(w) : w[l] = x
        BY <1>4, <2>1
    <2> QED
        BY <2>2 DEF Ordered
<1> QED
    BY <1>2, <1>5

\* A child and what is below it, when what is below starts with its children.
LEMMA OrderedSubtree ==
    ASSUME NEW c \in Variables, NEW d \in Seq(Variables), Ordered(d),
           ToSet(Children[c]) \subseteq ToSet(d)
    PROVE  Ordered(<<c>> \o d)
<1>1. PICK n \in Nat : n = Len(d) /\ DOMAIN d = 1..n
    OBVIOUS
<1>2. PICK s : /\ s = <<c>> /\ s \in Seq(Variables) /\ Len(s) = 1 /\ s[1] = c
    BY Single
<1>3. PICK w \in Seq(Variables) :
          /\ w = s \o d /\ Len(w) = n + 1
          /\ \A i \in 1..(n + 1) : w[i] = IF i <= 1 THEN s[i] ELSE d[i - 1]
    <2>1. /\ s \o d \in Seq(Variables) /\ Len(s \o d) = Len(s) + Len(d)
          /\ \A i \in 1..(Len(s) + Len(d)) :
                (s \o d)[i] = IF i <= Len(s) THEN s[i] ELSE d[i - Len(s)]
        BY <1>2, ConcatProperties
    <2>2. 1 + n = n + 1
        OBVIOUS
    <2> QED
        BY <1>1, <1>2, <2>1, <2>2
<1>4. /\ w[1] = c
      /\ \A i \in 1..n : i + 1 \in 1..(n + 1) /\ w[i + 1] = d[i]
    <2>1. \A i \in 1..n : i + 1 \in 1..(n + 1) /\ ~(i + 1 <= 1) /\ i + 1 - 1 = i
        OBVIOUS
    <2>2. 1 \in 1..(n + 1) /\ 1 <= 1
        OBVIOUS
    <2> QED
        BY <1>2, <1>3, <2>1, <2>2
<1>5. ASSUME NEW k \in 1..(n + 1), NEW x \in ToSet(Children[w[k]])
      PROVE  \E l \in (k + 1)..(n + 1) : w[l] = x
    <2>1. CASE k = 1
        <3>1. x \in ToSet(d)
            BY <1>4, <2>1
        <3>2. PICK i \in 1..n : d[i] = x
            BY <1>1, <3>1 DEF ToSet
        <3>3. i + 1 \in (k + 1)..(n + 1)
            BY <2>1
        <3> QED
            BY <1>4, <3>2, <3>3
    <2>2. CASE k # 1
        <3>1. PICK i \in 1..n : k = i + 1
            <4>1. k - 1 \in 1..n /\ k = (k - 1) + 1
                BY <2>2
            <4> QED
                BY <4>1
        <3>2. x \in ToSet(Children[d[i]])
            BY <1>4, <3>1
        <3>3. PICK l \in (i + 1)..n : d[l] = x
            BY <1>1, <3>2 DEF Ordered
        <3>4. l \in 1..n /\ l + 1 \in (k + 1)..(n + 1)
            BY <3>1
        <3> QED
            BY <1>4, <3>3, <3>4
    <2> QED
        BY <2>1, <2>2
<1>6. Ordered(w)
    <2>1. Len(w) = n + 1
        BY <1>3
    <2>2. \A k \in 1..Len(w) : \A x \in ToSet(Children[w[k]]) :
              \E l \in (k + 1)..Len(w) : w[l] = x
        BY <1>5, <2>1
    <2> QED
        BY <2>2 DEF Ordered
<1> QED
    BY <1>2, <1>3, <1>6

\* The descendants of a variable: each once, without itself, after its parent.
LEMMA DescendantsFacts ==
    ASSUME NEW v \in Variables
    PROVE  /\ Descendants[v] \in Seq(Variables) /\ IsInjective(Descendants[v])
           /\ v \notin ToSet(Descendants[v]) /\ Ordered(Descendants[v])
           /\ ToSet(Children[v]) \subseteq ToSet(Descendants[v])
<1>1. PICK h : IsHeight(h)
    BY HeightExists
<1> DEFINE G == {u \in Variables : IsInjective(Descendants[u]) /\ Ordered(Descendants[u])}
<1>2. \A u \in Variables : /\ u \notin ToSet(Descendants[u])
                           /\ ToSet(Children[u]) \subseteq ToSet(Descendants[u])
    <2>1. \A u \in Variables : u \notin ToSet(Descendants[u])
        BY <1>1, DescendantsLower
    <2>2. \A u \in Variables : ToSet(Children[u]) \subseteq ToSet(Descendants[u])
        BY DescendantsSet
    <2> QED
        BY <2>1, <2>2
<1>3. ASSUME NEW u \in Variables, \A w \in Variables : h[w] < h[u] => w \in G
      PROVE  u \in G
    <2>1. PICK b : /\ b = Below(u, Descendants) /\ b \in Seq(Seq(Variables))
                   /\ Len(b) = Len(Children[u])
                   /\ \A i \in 1..Len(Children[u]) :
                        b[i] = <<Children[u][i]>> \o Descendants[Children[u][i]]
        <3>1. PICK d : d = Descendants
            OBVIOUS
        <3>2. \A i \in DOMAIN Children[u] : d[Children[u][i]] \in Seq(Variables)
            BY <3>1, ChildrenFacts, DescendantsTyped
        <3>3. /\ Below(u, d) \in Seq(Seq(Variables)) /\ Len(Below(u, d)) = Len(Children[u])
              /\ \A i \in 1..Len(Children[u]) :
                    Below(u, d)[i] = <<Children[u][i]>> \o d[Children[u][i]]
            BY <3>2, BelowTyped
        <3> QED
            BY <3>1, <3>3
    <2>2. ASSUME NEW i \in 1..Len(b)
          PROVE  /\ Children[u][i] \in Variables /\ Children[u][i] \in ToSet(Children[u])
                 /\ Children[u][i] \in G
        <3>1. i \in DOMAIN Children[u]
            BY <2>1, ChildrenFacts
        <3>2. Children[u][i] \in Variables /\ h[Children[u][i]] < h[u]
            BY <1>1, <3>1, ChildrenFacts DEF IsHeight
        <3>3. Children[u][i] \in ToSet(Children[u])
            BY <3>1 DEF ToSet
        <3> HIDE DEF G
        <3> QED
            BY <1>3, <3>2, <3>3
    <2>3. \A i \in 1..Len(b) : IsInjective(b[i])
        <3>1. ASSUME NEW i \in 1..Len(b)
              PROVE  IsInjective(b[i])
            <4>1. PICK c \in Variables : c = Children[u][i] /\ c \in G
                BY <2>2
            <4>2. IsInjective(<<c>> \o Descendants[c])
                BY <1>2, <4>1, SubtreeFacts
            <4> QED
                BY <2>1, <4>1, <4>2
        <3> QED
            BY <3>1
    <2>4. \A i, j \in 1..Len(b) : i # j => ToSet(b[i]) \cap ToSet(b[j]) = {}
        <3>1. ASSUME NEW i \in 1..Len(b), NEW j \in 1..Len(b), i # j
              PROVE  ToSet(b[i]) \cap ToSet(b[j]) = {}
            <4>1. PICK c \in Variables, d \in Variables :
                      /\ c = Children[u][i] /\ c \in ToSet(Children[u])
                      /\ d = Children[u][j] /\ d \in ToSet(Children[u])
                BY <2>2
            <4>2. c # d
                <5>1. i \in DOMAIN Children[u] /\ j \in DOMAIN Children[u]
                    BY <2>1, ChildrenFacts
                <5> QED
                    BY <3>1, <4>1, <5>1, PresetsAssumption
            <4>3. ({c} \cup ToSet(Descendants[c])) \cap ({d} \cup ToSet(Descendants[d])) = {}
                BY <4>1, <4>2, SubtreesDiffer
            <4>4. /\ ToSet(b[i]) = {c} \cup ToSet(Descendants[c])
                  /\ ToSet(b[j]) = {d} \cup ToSet(Descendants[d])
                BY <2>1, <4>1, SubtreeFacts
            <4> QED
                BY <4>3, <4>4
        <3> QED
            BY <3>1
    <2>5. \A i \in 1..Len(b) : b[i] \in Seq(Variables) /\ Ordered(b[i])
        <3>1. ASSUME NEW i \in 1..Len(b)
              PROVE  Ordered(b[i]) /\ b[i] \in Seq(Variables)
            <4>1. PICK c \in Variables : c = Children[u][i] /\ c \in G
                BY <2>2
            <4>2. PICK d \in Seq(Variables) :
                      d = Descendants[c] /\ Ordered(d) /\ ToSet(Children[c]) \subseteq ToSet(d)
                BY <1>2, <4>1, DescendantsTyped
            <4>3. Ordered(<<c>> \o d) /\ <<c>> \o d \in Seq(Variables)
                BY <4>2, OrderedSubtree, SubtreeFacts
            <4> QED
                BY <2>1, <4>1, <4>2, <4>3
        <3> QED
            BY <3>1
    <2>6. IsInjective(FlattenSeq(b))
        BY <2>1, <2>3, <2>4, FlattenFacts
    <2>7. Ordered(FlattenSeq(b))
        <3> DEFINE O == {s \in Seq(Variables) : Ordered(s)}
        <3>1. <<>> \in O
            <4>1. PICK z : z = <<>> /\ z \in Seq(Variables) /\ Len(z) = 0
                BY EmptyFacts
            <4>2. Ordered(z)
                BY <4>1 DEF Ordered
            <4> QED
                BY <4>1, <4>2
        <3>2. \A s, t \in O : s \o t \in O
            BY OrderedConcat, ConcatProperties
        <3>3. \A i \in 1..Len(b) : b[i] \in O
            BY <2>5
        <3>4. O \in SUBSET Seq(Variables)
            OBVIOUS
        <3> HIDE DEF O
        <3>5. FlattenSeq(b) \in O
            BY <2>1, <3>1, <3>2, <3>3, <3>4, FlattenFacts
        <3> QED
            BY <3>5 DEF O
    <2>8. Descendants[u] = FlattenSeq(b)
        BY <2>1, DescendantsAre
    <2> QED
        BY <2>6, <2>7, <2>8
<1> HIDE DEF G
<1>4. \A u \in Variables : u \in G
    BY <1>1, <1>3, HeightInduction
<1> QED
    BY <1>2, <1>4, DescendantsTyped DEF G

-----------------------------------------------------------------------------
(* The propagation of the mutations. *)

\* PropagateTo gives a child its mutator if its parent mutates its children.
LEMMA PropagateToFacts ==
    ASSUME NEW n, CurrentTable(n), NEW b \in Machines(n), NEW acc \in Accs(n, b), acc.m.ok,
           NEW v \in Variables, NEW mutator \in Mutators(n)
    PROVE  LET w == PropagateTo(acc, v, mutator)
           IN  IF MutatesChildren(mutator)
               THEN Added(acc, w, n, b, v, mutator.params["mode"])
               ELSE w = acc
<1>1. n \in Nat
    BY DEF CurrentTable
<1>2. CASE ~MutatesChildren(mutator)
    BY <1>2 DEF PropagateTo
<1>3. CASE MutatesChildren(mutator)
    <2>1. PICK mode \in ParamValues : mode = mutator.params["mode"]
        BY CompleteFacts DEF Mutators
    <2>2. PICK kwargs \in Settings : /\ kwargs = [mode |-> mutator.params["mode"]]
                                     /\ "mode" \in DOMAIN kwargs /\ kwargs["mode"] = mode
        BY <2>1, ModeFacts
    <2>3. PICK table \in [Types -> 1..n] : table = mutator.table
        BY DEF Mutators
    <2>4. PICK r : /\ r = RetrieveDefaultMutator(acc.m, v, table, kwargs)
                   /\ PropagateTo(acc, v, mutator) = MadeFor(acc, v, r)
        BY <1>3, <2>2, <2>3 DEF PropagateTo
    <2>5. acc.m \in Machines(n)
        BY <1>1, AccFacts
    <2>6. Made(acc.m, r, n, mode)
        BY <2>2, <2>4, <2>5, RetrieveFacts
    <2>7. Extends(acc.m, acc.m)
        BY <1>1, <2>5, ExtendsReflexive
    <2>8. Added(acc, MadeFor(acc, v, r), n, b, v, mode)
        BY <1>1, <2>5, <2>6, <2>7, MadeForFacts
    <2> QED
        BY <1>3, <2>1, <2>4, <2>8
<1> QED
    BY <1>2, <1>3

\* One turn of the propagation from root: a variable that is configured, or
\* whose parent the mutation has not reached, is passed over.
LEMMA PropagateFacts ==
    ASSUME NEW n, CurrentTable(n), NEW b \in Machines(n), NEW acc \in Accs(n, b),
           NEW v \in Variables, NEW fields, NEW root, EntryOK(b, root), ~root.raw
    PROVE  LET w == Propagate(acc, v, fields, root)
           IN  /\ w \in Accs(n, b) /\ Extends(acc.m, w.m)
               /\ \/ w = acc
                  \/ acc.m.ok /\ v \notin KeysOf(fields) /\ \E mode : Added(acc, w, n, b, v, mode)
<1> DEFINE w == Propagate(acc, v, fields, root)
           known == Append(acc.new, root)
<1>1. n \in Nat
    BY DEF CurrentTable
<1>2. acc.m \in Machines(n) /\ Extends(b, acc.m) /\ acc.new \in Seq(Entries) /\ root \in Entries
    BY <1>1, AccFacts DEF EntryOK
<1>3. CASE ~acc.m.ok \/ v \in KeysOf(fields) \/ Parent(v) \notin KeysOf(known)
    <2>1. w = acc
        BY <1>3 DEF Propagate
    <2> HIDE DEF w
    <2> QED
        BY <1>1, <1>2, <2>1, ExtendsReflexive DEF w
<1>4. CASE acc.m.ok /\ v \notin KeysOf(fields) /\ Parent(v) \in KeysOf(known)
    <2>1. /\ known \in Seq(Entries)
          /\ ToSet(known) = ToSet(acc.new) \cup {root}
        BY <1>2, AppendSet
    <2>2. PICK x \in ToSet(known) : x = known[IndexOf(known, Parent(v))]
        BY <1>4, <2>1, KeysFacts DEF At
    <2>3. ~x.raw /\ EntryOK(acc.m, x)
        <3>1. EntryOK(acc.m, root)
            BY <1>1, <1>2, ExtendsEntry
        <3>2. \A y \in ToSet(acc.new) : ~y.raw /\ EntryOK(acc.m, y)
            BY <1>1, <1>4, AccFacts
        <3> QED
            BY <2>1, <2>2, <3>1, <3>2
    <2>4. PICK from \in Mutators(n) : from = acc.m.mutators[x.id]
        <3>1. acc.m.mutators \in Seq(Mutators(n)) /\ x.id \in 1..Len(acc.m.mutators)
            BY <1>1, <1>2, <2>3, MachineFacts DEF EntryOK
        <3> QED
            BY <3>1, ElementOfSeq
    <2>5. w = PropagateTo(acc, v, from)
        BY <1>4, <2>2, <2>4 DEF Propagate
    <2> HIDE DEF w, known
    <2>6. w = acc \/ Added(acc, w, n, b, v, from.params["mode"])
        BY <1>4, <2>5, PropagateToFacts
    <2>7. CASE w = acc
        BY <1>1, <1>2, <2>7, ExtendsReflexive DEF w
    <2>8. CASE Added(acc, w, n, b, v, from.params["mode"])
        <3>1. w \in Accs(n, b) /\ Extends(acc.m, w.m)
            BY <2>8 DEF Added
        <3> QED
            BY <1>4, <2>8, <3>1 DEF w
    <2> QED
        BY <2>6, <2>7, <2>8
<1> QED
    BY <1>3, <1>4

\* The turns of PropagateMutation.
MutationTurns(m, fields, root, n, u) ==
    /\ u \in [0..Len(Descendants[root.key]) -> Accs(n, m)] /\ u[0] = [m |-> m, new |-> <<>>]
    /\ \A i \in 1..Len(Descendants[root.key]) : u[i] = Propagate(u[i - 1], Descendants[root.key][i], fields, root)
    /\ PropagateMutation(m, fields, root) = u[Len(Descendants[root.key])]

\* The recursive function of PropagateMutation exists and takes its turns.
LEMMA MutationLoop ==
    ASSUME NEW n \in Nat, CurrentTable(n), NEW m \in Machines(n), NEW fields,
           NEW root, EntryOK(m, root), ~root.raw
    PROVE  \E u : MutationTurns(m, fields, root, n, u)
<1> DEFINE turn == [i \in 1..Len(Descendants[root.key]) |-> [x \in Accs(n, m) |-> Propagate(x, Descendants[root.key][i], fields, root)]]
           Right(u) == u = [i \in 0..Len(Descendants[root.key]) |-> IF i = 0 THEN [m |-> m, new |-> <<>>] ELSE Propagate(u[i - 1], Descendants[root.key][i], fields, root)]
           Until == CHOOSE u : Right(u)
<1>0. Descendants[root.key] \in Seq(Variables)
    BY DescendantsTyped DEF EntryOK
<1>1. turn \in Turns(Len(Descendants[root.key]), Accs(n, m)) /\ [m |-> m, new |-> <<>>] \in Accs(n, m)
    <2>1. \A i \in 1..Len(Descendants[root.key]), x \in Accs(n, m) : Propagate(x, Descendants[root.key][i], fields, root) \in Accs(n, m)
        BY <1>0, Places, PropagateFacts
    <2> QED
        BY <2>1, AccStart DEF Turns
<1>2. \A i \in 1..Len(Descendants[root.key]), x \in Accs(n, m) : turn[i][x] = Propagate(x, Descendants[root.key][i], fields, root)
    OBVIOUS
<1> HIDE DEF turn
<1>3. PICK u : IsLoop(u, Len(Descendants[root.key]), Accs(n, m), [m |-> m, new |-> <<>>], turn)
    BY <1>0, <1>1, Places, LoopExists
<1>4. Right(u)
    <2>1. u \in [0..Len(Descendants[root.key]) -> Accs(n, m)] /\ u[0] = [m |-> m, new |-> <<>>]
        BY <1>3 DEF IsLoop
    <2>2. ASSUME NEW i \in 0..Len(Descendants[root.key]), i # 0
          PROVE  u[i] = Propagate(u[i - 1], Descendants[root.key][i], fields, root)
        <3>1. i \in 1..Len(Descendants[root.key]) /\ u[i - 1] \in Accs(n, m)
            BY <1>0, <2>1, <2>2, Places
        <3> QED
            BY <1>2, <1>3, <3>1 DEF IsLoop
    <2> QED
        BY <2>1, <2>2
<1>5. Right(Until)
    <2> HIDE DEF Right
    <2> QED
        BY <1>4
<1>6. PropagateMutation(m, fields, root) = Until[Len(Descendants[root.key])]
    BY DEF PropagateMutation
<1> HIDE DEF Until
<1>7. /\ Until = [i \in 0..Len(Descendants[root.key]) |-> Until[i]] /\ Until[0] = [m |-> m, new |-> <<>>]
      /\ \A i \in 1..Len(Descendants[root.key]) : Until[i] = Propagate(Until[i - 1], Descendants[root.key][i], fields, root)
    BY <1>0, <1>5, Places
<1> HIDE DEF Right
<1>8. IsLoop(Until, Len(Descendants[root.key]), Accs(n, m), [m |-> m, new |-> <<>>], turn)
    <2>1. \A i \in 1..Len(Descendants[root.key]) : Until[i - 1] \in Accs(n, m) => Until[i] = turn[i][Until[i - 1]]
        BY <1>2, <1>7
    <2> QED
        BY <1>0, <1>1, <1>7, <2>1, Places, LoopIs
<1> QED
    BY <1>6, <1>7, <1>8 DEF IsLoop, MutationTurns

\* What the propagation from an entry adds is new.
LEMMA MutationFacts ==
    ASSUME NEW n \in Nat, CurrentTable(n), NEW m \in Machines(n), NEW fields,
           NEW root, EntryOK(m, root), ~root.raw
    PROVE  /\ PropagateMutation(m, fields, root) \in Accs(n, m)
           /\ PropagateMutation(m, fields, root).m.ok =>
                 \A x \in ToSet(PropagateMutation(m, fields, root).new) : x.key \notin KeysOf(fields)
<1> DEFINE below == Descendants[root.key]
<1>0. below \in Seq(Variables)
    BY DescendantsTyped DEF EntryOK
<1>1. PICK u : MutationTurns(m, fields, root, n, u)
    BY MutationLoop
<1> USE DEF MutationTurns
<1> DEFINE P == [i \in 0..Len(below) |-> {acc \in Accs(n, m) :
                    acc.m.ok => \A x \in ToSet(acc.new) : x.key \notin KeysOf(fields)}]
<1>2. u[0] \in P[0]
    <2>1. u[0] = [m |-> m, new |-> <<>>] /\ 0 \in 0..Len(below)
        BY <1>0, <1>1, Places
    <2>2. u[0] \in Accs(n, m) /\ ToSet(u[0].new) = {}
        BY <2>1, AccStart, EmptyDict
    <2> QED
        BY <2>1, <2>2
<1>3. ASSUME NEW i \in 1..Len(below), u[i - 1] \in P[i - 1]
      PROVE  u[i] \in P[i]
    <2>0. i \in 0..Len(below) /\ i - 1 \in 0..Len(below) /\ below[i] \in Variables
        BY <1>0, Places
    <2>1. PICK acc \in Accs(n, m) :
              /\ acc = u[i - 1]
              /\ acc.m.ok => \A x \in ToSet(acc.new) : x.key \notin KeysOf(fields)
        BY <1>3, <2>0
    <2>2. PICK v \in Variables : v = below[i]
        BY <2>0
    <2>3. PICK w : w = Propagate(acc, v, fields, root) /\ w = u[i]
        BY <1>1, <2>1, <2>2
    <2>4. /\ w \in Accs(n, m)
          /\ \/ w = acc
             \/ acc.m.ok /\ v \notin KeysOf(fields) /\ \E mode : Added(acc, w, n, m, v, mode)
        <3>1. LET z == Propagate(acc, v, fields, root)
              IN  /\ z \in Accs(n, m) /\ Extends(acc.m, z.m)
                  /\ \/ z = acc
                     \/ acc.m.ok /\ v \notin KeysOf(fields) /\ \E mode : Added(acc, z, n, m, v, mode)
            BY PropagateFacts
        <3> QED
            BY <2>3, <3>1
    <2>5. ASSUME w.m.ok, NEW y \in ToSet(w.new) PROVE y.key \notin KeysOf(fields)
        <3>1. CASE w = acc
            BY <2>1, <2>5, <3>1
        <3>2. CASE acc.m.ok /\ v \notin KeysOf(fields) /\ \E mode : Added(acc, w, n, m, v, mode)
            <4>1. PICK x \in Entries : w.new = Append(acc.new, x) /\ x.key = v
                BY <2>5, <3>2 DEF Added
            <4>2. acc.new \in Seq(Entries)
                BY AccFacts
            <4>3. ToSet(w.new) = ToSet(acc.new) \cup {x}
                BY <4>1, <4>2, AppendSet
            <4> QED
                BY <2>1, <2>5, <3>2, <4>1, <4>3
        <3> QED
            BY <2>4, <3>1, <3>2
    <2> QED
        BY <2>0, <2>3, <2>4, <2>5
<1>4. \A i \in 0..Len(below) : u[i] \in P[i]
    <2> HIDE DEF P
    <2> QED
        BY <1>0, <1>2, <1>3, Places, TurnByTurn
<1>5. u[Len(below)] \in P[Len(below)]
    BY <1>0, <1>4, Places
<1> QED
    BY <1>0, <1>1, <1>5, Places

\* w is acc with what the propagation from one more entry has added.
Joined(acc, w, n, b, fields, below) ==
    /\ w \in Accs(n, b) /\ Extends(acc.m, w.m)
    /\ w.m.ok => /\ acc.m.ok /\ w.m = below.m /\ below \in Accs(n, acc.m)
                 /\ ToSet(w.new) = ToSet(acc.new) \cup ToSet(below.new)
                 /\ \A x \in ToSet(below.new) : x.key \notin KeysOf(fields)

\* One turn of the loop over the entries.
LEMMA PropagateEntryFacts ==
    ASSUME NEW n \in Nat, CurrentTable(n), NEW b \in Machines(n), NEW acc \in Accs(n, b),
           NEW fields, NEW e, EntryOK(b, e), ~e.raw
    PROVE  Joined(acc, PropagateEntry(acc, fields, e), n, b, fields,
                  PropagateMutation(acc.m, fields, e))
<1> DEFINE w == PropagateEntry(acc, fields, e)
           below == PropagateMutation(acc.m, fields, e)
<1>1. /\ acc.m \in Machines(n) /\ Extends(b, acc.m) /\ acc.new \in Seq(Entries)
      /\ Len(acc.m.confs) = Len(b.confs)
    BY AccFacts
<1>2. CASE ~acc.m.ok
    <2>1. w = acc
        BY <1>2 DEF PropagateEntry
    <2> HIDE DEF w, below
    <2> QED
        BY <1>1, <1>2, <2>1, ExtendsReflexive DEF w, Joined
<1>3. CASE acc.m.ok
    <2>1. EntryOK(acc.m, e)
        BY <1>1, ExtendsEntry
    <2>2. /\ below \in Accs(n, acc.m)
          /\ below.m.ok => \A x \in ToSet(below.new) : x.key \notin KeysOf(fields)
        BY <1>1, <2>1, MutationFacts
    <2> HIDE DEF below
    <2>3. PICK new \in Seq(Entries) :
              new = acc.new \o below.new /\ ToSet(new) = ToSet(acc.new) \cup ToSet(below.new)
        <3>1. acc.new \in Seq(Entries) /\ below.new \in Seq(Entries)
            BY <1>1, <2>2, AccFacts
        <3>2. /\ acc.new \o below.new \in Seq(Entries)
              /\ ToSet(acc.new \o below.new) = ToSet(acc.new) \cup ToSet(below.new)
            BY <3>1, ConcatSet
        <3> QED
            BY <3>2
    <2>4. w = [m |-> below.m, new |-> new]
        BY <1>3, <2>3 DEF PropagateEntry, below
    <2>5. /\ below.m \in Machines(n) /\ Extends(acc.m, below.m)
          /\ Len(below.m.confs) = Len(b.confs)
        BY <1>1, <2>2, AccFacts
    <2>6. Extends(b, below.m)
        BY <1>1, <2>5, ExtendsTransitive
    <2>7. ASSUME below.m.ok, NEW x \in ToSet(new)
          PROVE  ~x.raw /\ EntryOK(below.m, x)
        <3>1. CASE x \in ToSet(below.new)
            BY <2>2, <2>7, <3>1, AccFacts
        <3>2. CASE x \in ToSet(acc.new)
            <4>1. ~x.raw /\ EntryOK(acc.m, x)
                BY <1>3, <3>2, AccFacts
            <4> QED
                BY <1>1, <2>5, <4>1, ExtendsEntry
        <3> QED
            BY <2>3, <2>7, <3>1, <3>2
    <2>8. [m |-> below.m, new |-> new] \in Accs(n, b)
        BY <2>5, <2>6, <2>7, AccIs
    <2> HIDE DEF w
    <2> QED
        BY <1>3, <2>2, <2>3, <2>4, <2>5, <2>8 DEF w, below, Joined
<1> QED
    BY <1>2, <1>3

\* The turns of PropagateAll.
EntryTurns(m, fields, n, u) ==
    /\ u \in [0..Len(fields) -> Accs(n, m)] /\ u[0] = [m |-> m, new |-> <<>>]
    /\ \A i \in 1..Len(fields) : u[i] = PropagateEntry(u[i - 1], fields, fields[i])
    /\ PropagateAll(m, fields) = Updated(m, fields, u[Len(fields)])

\* The recursive function of PropagateAll exists and takes its turns.
LEMMA PropagateAllLoop ==
    ASSUME NEW n \in Nat, CurrentTable(n), NEW m \in Machines(n), NEW fields,
           DictOK(m, fields), \A e \in ToSet(fields) : ~e.raw
    PROVE  \E u : EntryTurns(m, fields, n, u)
<1> DEFINE turn == [i \in 1..Len(fields) |-> [x \in Accs(n, m) |-> PropagateEntry(x, fields, fields[i])]]
           Right(u) == u = [i \in 0..Len(fields) |-> IF i = 0 THEN [m |-> m, new |-> <<>>] ELSE PropagateEntry(u[i - 1], fields, fields[i])]
           Until == CHOOSE u : Right(u)
<1>0. fields \in Seq(Entries)
    BY DEF DictOK, Dicts
<1>e. \A i \in 1..Len(fields) : EntryOK(m, fields[i]) /\ ~fields[i].raw
    BY <1>0, KeysFacts DEF DictOK
<1>1. turn \in Turns(Len(fields), Accs(n, m)) /\ [m |-> m, new |-> <<>>] \in Accs(n, m)
    <2>1. \A i \in 1..Len(fields), x \in Accs(n, m) : PropagateEntry(x, fields, fields[i]) \in Accs(n, m)
        BY <1>0, <1>e, PropagateEntryFacts DEF Joined
    <2> QED
        BY <2>1, AccStart DEF Turns
<1>2. \A i \in 1..Len(fields), x \in Accs(n, m) : turn[i][x] = PropagateEntry(x, fields, fields[i])
    OBVIOUS
<1> HIDE DEF turn
<1>3. PICK u : IsLoop(u, Len(fields), Accs(n, m), [m |-> m, new |-> <<>>], turn)
    BY <1>0, <1>1, Places, LoopExists
<1>4. Right(u)
    <2>1. u \in [0..Len(fields) -> Accs(n, m)] /\ u[0] = [m |-> m, new |-> <<>>]
        BY <1>3 DEF IsLoop
    <2>2. ASSUME NEW i \in 0..Len(fields), i # 0
          PROVE  u[i] = PropagateEntry(u[i - 1], fields, fields[i])
        <3>1. i \in 1..Len(fields) /\ u[i - 1] \in Accs(n, m)
            BY <1>0, <2>1, <2>2, Places
        <3> QED
            BY <1>2, <1>3, <3>1 DEF IsLoop
    <2> QED
        BY <2>1, <2>2
<1>5. Right(Until)
    <2> HIDE DEF Right
    <2> QED
        BY <1>4
<1>6. PropagateAll(m, fields) = Updated(m, fields, Until[Len(fields)])
    BY DEF PropagateAll
<1> HIDE DEF Until
<1>7. /\ Until = [i \in 0..Len(fields) |-> Until[i]] /\ Until[0] = [m |-> m, new |-> <<>>]
      /\ \A i \in 1..Len(fields) : Until[i] = PropagateEntry(Until[i - 1], fields, fields[i])
    BY <1>0, <1>5, Places
<1> HIDE DEF Right
<1>8. IsLoop(Until, Len(fields), Accs(n, m), [m |-> m, new |-> <<>>], turn)
    <2>1. \A i \in 1..Len(fields) : Until[i - 1] \in Accs(n, m) => Until[i] = turn[i][Until[i - 1]]
        BY <1>2, <1>7
    <2> QED
        BY <1>0, <1>1, <1>7, <2>1, Places, LoopIs
<1> QED
    BY <1>6, <1>7, <1>8 DEF IsLoop, EntryTurns

\* The propagation keeps the entries and their modes, and adds mutators.
LEMMA PropagateAllFacts ==
    ASSUME NEW n \in Nat, CurrentTable(n), NEW m \in Machines(n), m.ok, NEW fields,
           DictOK(m, fields), KeysOf(fields) \subseteq Variables, \A e \in ToSet(fields) : ~e.raw
    PROVE  LET w == PropagateAll(m, fields)
           IN  /\ Keeps(m, fields, w, n)
               /\ w.m.ok => \A x \in ToSet(w.fields) : ~x.raw
               /\ ~w.m.ok => w.fields = fields
<1>0. fields \in Dicts /\ fields \in Seq(Entries)
    BY DEF DictOK, Dicts
<1>e. \A i \in 1..Len(fields) : EntryOK(m, fields[i]) /\ ~fields[i].raw
    BY <1>0, KeysFacts DEF DictOK
<1>1. PICK u : EntryTurns(m, fields, n, u)
    BY PropagateAllLoop
<1> USE DEF EntryTurns
<1> DEFINE P == [i \in 0..Len(fields) |-> {acc \in Accs(n, m) :
                    acc.m.ok => \A x \in ToSet(acc.new) : x.key \notin KeysOf(fields)}]
<1>2. u[0] \in P[0]
    <2>1. u[0] = [m |-> m, new |-> <<>>] /\ 0 \in 0..Len(fields)
        BY <1>0, <1>1, Places
    <2>2. u[0] \in Accs(n, m) /\ ToSet(u[0].new) = {}
        BY <2>1, AccStart, EmptyDict
    <2> QED
        BY <2>1, <2>2
<1>3. ASSUME NEW i \in 1..Len(fields), u[i - 1] \in P[i - 1]
      PROVE  u[i] \in P[i]
    <2>0. i \in 0..Len(fields) /\ i - 1 \in 0..Len(fields)
        BY <1>0, Places
    <2>1. PICK acc \in Accs(n, m) :
              /\ acc = u[i - 1]
              /\ acc.m.ok => \A x \in ToSet(acc.new) : x.key \notin KeysOf(fields)
        BY <1>3, <2>0
    <2>2. PICK e : e = fields[i] /\ EntryOK(m, e) /\ ~e.raw
        BY <1>e
    <2>3. PICK w, below : /\ w = PropagateEntry(acc, fields, e) /\ w = u[i]
                          /\ below = PropagateMutation(acc.m, fields, e)
        BY <1>1, <2>1, <2>2
    <2>4. /\ w \in Accs(n, m)
          /\ w.m.ok => /\ acc.m.ok
                       /\ ToSet(w.new) = ToSet(acc.new) \cup ToSet(below.new)
                       /\ \A x \in ToSet(below.new) : x.key \notin KeysOf(fields)
        <3>1. Joined(acc, w, n, m, fields, below)
            BY <2>2, <2>3, PropagateEntryFacts
        <3> QED
            BY <3>1 DEF Joined
    <2> QED
        BY <2>0, <2>1, <2>3, <2>4
<1>4. \A i \in 0..Len(fields) : u[i] \in P[i]
    <2> HIDE DEF P
    <2> QED
        BY <1>0, <1>2, <1>3, Places, TurnByTurn
<1>5. PICK r \in Accs(n, m) :
          /\ r = u[Len(fields)]
          /\ r.m.ok => \A x \in ToSet(r.new) : x.key \notin KeysOf(fields)
    <2>1. u[Len(fields)] \in P[Len(fields)]
        BY <1>0, <1>4, Places
    <2> QED
        BY <1>0, <2>1, Places
<1>6. r.m.ok => Replaces(m, fields, r)
    BY <1>0, <1>5, DictFacts DEF Replaces
<1>7. PICK w : w = PropagateAll(m, fields) /\ w = Updated(m, fields, r)
    BY <1>1, <1>5
<1>8. /\ Keeps(m, fields, w, n) /\ w.m.ok = r.m.ok
      /\ ~r.m.ok => w.fields = fields
      /\ w.m.ok => \A x \in ToSet(w.fields) : ~x.raw
    BY <1>6, <1>7, UpdatedFacts
<1> QED
    BY <1>7, <1>8

\* normalize_mappingFieldsMutators: the modes stay, and if it ends well all is
\* a mutator.
LEMMA NormalizeMappingFacts ==
    ASSUME NEW n \in Nat, CurrentTable(n), NEW m \in Machines(n), m.ok, NEW fields,
           DictOK(m, fields), KeysOf(fields) \subseteq Variables
    PROVE  LET w == NormalizeMapping(m, fields)
           IN  /\ Keeps(m, fields, w, n)
               /\ w.m.ok => \A x \in ToSet(w.fields) : ~x.raw
<1>1. PICK v : /\ v = NormalizeValues(m, fields)
               /\ Keeps(m, fields, v, n)
               /\ v.m.ok => \A x \in ToSet(v.fields) : ~x.raw
    BY NormalizeValuesFacts
<1>2. CASE ~v.m.ok
    <2>1. NormalizeMapping(m, fields) = v
        BY <1>1, <1>2 DEF NormalizeMapping
    <2> QED
        BY <1>1, <1>2, <2>1
<1>3. CASE v.m.ok
    <2>1. /\ v.m \in Machines(n) /\ Extends(m, v.m) /\ DictOK(v.m, v.fields)
          /\ KeysOf(v.fields) \subseteq Variables
        BY <1>1 DEF Keeps
    <2>2. PICK w : w = PropagateAll(v.m, v.fields)
        OBVIOUS
    <2>3. NormalizeMapping(m, fields) = w
        BY <1>1, <1>3, <2>2 DEF NormalizeMapping
    <2>4. /\ Keeps(v.m, v.fields, w, n)
          /\ w.m.ok => \A x \in ToSet(w.fields) : ~x.raw
        BY <1>1, <1>3, <2>1, <2>2, PropagateAllFacts
    <2>5. w.m \in Machines(n) /\ Extends(v.m, w.m)
        BY <2>4 DEF Keeps
    <2>6. Extends(m, w.m)
        BY <2>1, <2>5, ExtendsTransitive
    <2>7. ASSUME NEW e \in ToSet(fields)
          PROVE  \E x \in ToSet(w.fields) :
                     x.key = e.key /\ ModeIn(w.m, x) = ModeIn(m, e) /\ (~e.raw => x = e)
        <3>1. PICK y \in ToSet(v.fields) :
                  y.key = e.key /\ ModeIn(v.m, y) = ModeIn(m, e) /\ (~e.raw => y = e)
            BY <1>1 DEF Keeps
        <3>2. PICK x \in ToSet(w.fields) :
                  x.key = y.key /\ ModeIn(w.m, x) = ModeIn(v.m, y) /\ (~y.raw => x = y)
            BY <2>4 DEF Keeps
        <3> QED
            BY <3>1, <3>2
    <2>8. Keeps(m, fields, w, n)
        BY <2>4, <2>6, <2>7 DEF Keeps
    <2> QED
        BY <2>3, <2>4, <2>8
<1> QED
    BY <1>2, <1>3

-----------------------------------------------------------------------------
(* How far a mutation reaches. *)

Mutates(m, x) == MutatesChildren(m.mutators[x.id])

\* If x mutates its children, they have an entry.
Reaches(m, x, keys) == Mutates(m, x) => ToSet(Children[x.key]) \subseteq keys

\* No key twice, of the root of a propagation and what it has added.
Apart(new, root) ==
    \A x, y \in ToSet(new) \cup {root} : x.key = y.key => x = y

\* A turn of the propagation that comes to v goes on from the mutator of its
\* parent: if that mutates its children, v is configured or gets an entry.
LEMMA TurnReaches ==
    ASSUME NEW n, CurrentTable(n), NEW b \in Machines(n), NEW acc \in Accs(n, b),
           NEW v \in Variables, NEW fields, NEW root, EntryOK(b, root), ~root.raw,
           Apart(acc.new, root), NEW w, w = Propagate(acc, v, fields, root), w.m.ok
    PROVE  /\ w \in Accs(n, b) /\ Extends(acc.m, w.m) /\ acc.m.ok
           /\ \/ w = acc
              \/ \E y \in Entries : w.new = Append(acc.new, y) /\ y.key = v /\ ~y.raw
           /\ \A x \in ToSet(acc.new) \cup {root} :
                 Parent(v) = x.key /\ Mutates(acc.m, x) => v \in KeysOf(fields) \cup KeysOf(w.new)
<1>1. n \in Nat
    BY DEF CurrentTable
<1>2. /\ w \in Accs(n, b) /\ Extends(acc.m, w.m)
      /\ \/ w = acc
         \/ acc.m.ok /\ v \notin KeysOf(fields) /\ \E mode : Added(acc, w, n, b, v, mode)
    <2>1. LET z == Propagate(acc, v, fields, root)
          IN  /\ z \in Accs(n, b) /\ Extends(acc.m, z.m)
              /\ \/ z = acc
                 \/ acc.m.ok /\ v \notin KeysOf(fields) /\ \E mode : Added(acc, z, n, b, v, mode)
        BY PropagateFacts
    <2> QED
        BY <2>1
<1>3. \/ w = acc
      \/ \E y \in Entries : w.new = Append(acc.new, y) /\ y.key = v /\ ~y.raw
    BY <1>2 DEF Added
<1>4. acc.m.ok
    BY <1>2
<1>5. ASSUME NEW x \in ToSet(acc.new) \cup {root}, Parent(v) = x.key, Mutates(acc.m, x),
             v \notin KeysOf(fields)
      PROVE  v \in KeysOf(w.new)
    <2> DEFINE known == Append(acc.new, root)
    <2>1. acc.m \in Machines(n) /\ Extends(b, acc.m) /\ acc.new \in Seq(Entries) /\ root \in Entries
        BY <1>1, AccFacts DEF EntryOK
    <2>2. known \in Seq(Entries) /\ ToSet(known) = ToSet(acc.new) \cup {root}
        BY <2>1, AppendSet
    <2>3. Parent(v) \in KeysOf(known)
        <3>1. KeysOf(known) = {y.key : y \in ToSet(known)}
            BY <2>2, KeysFacts
        <3> HIDE DEF known
        <3> QED
            BY <1>5, <2>2, <3>1
    <2>4. known[IndexOf(known, Parent(v))] = x
        <3>1. At(known, Parent(v)) \in ToSet(known) /\ At(known, Parent(v)).key = Parent(v)
            BY <2>2, <2>3, KeysFacts
        <3> HIDE DEF known
        <3>2. At(known, Parent(v)) = x
            BY <1>5, <2>2, <3>1 DEF Apart
        <3> QED
            BY <3>2 DEF At
    <2>5. PICK from : from = acc.m.mutators[x.id] /\ MutatesChildren(from)
        BY <1>5 DEF Mutates
    <2>6. from \in Mutators(n)
        <3>1. ~x.raw /\ EntryOK(acc.m, x)
            <4>1. EntryOK(acc.m, root)
                BY <1>1, <2>1, ExtendsEntry
            <4>2. \A y \in ToSet(acc.new) : ~y.raw /\ EntryOK(acc.m, y)
                BY <1>1, <1>4, AccFacts
            <4> QED
                BY <4>1, <4>2
        <3>2. acc.m.mutators \in Seq(Mutators(n)) /\ x.id \in 1..Len(acc.m.mutators)
            BY <1>1, <2>1, <3>1, MachineFacts DEF EntryOK
        <3> QED
            BY <2>5, <3>2, ElementOfSeq
    <2>7. w = PropagateTo(acc, v, from)
        <3> DEFINE from0 == acc.m.mutators[known[IndexOf(known, Parent(v))].id]
        <3>1. from0 = from
            BY <2>4, <2>5
        <3>2. w = IF ~acc.m.ok \/ v \in KeysOf(fields) \/ Parent(v) \notin KeysOf(known) THEN acc
                  ELSE PropagateTo(acc, v, from0)
            BY DEF Propagate
        <3>3. PICK p : p = PropagateTo(acc, v, from0)
            OBVIOUS
        <3>4. w = p
            <4> HIDE DEF known, from0
            <4> QED
                BY <1>4, <1>5, <2>3, <3>2, <3>3
        <3>5. p = PropagateTo(acc, v, from)
            <4> HIDE DEF known, from0
            <4> QED
                BY <3>1, <3>3
        <3> QED
            BY <3>4, <3>5
    <2>8. Added(acc, w, n, b, v, from.params["mode"])
        <3>1. LET z == PropagateTo(acc, v, from)
              IN  IF MutatesChildren(from)
                  THEN Added(acc, z, n, b, v, from.params["mode"])
                  ELSE z = acc
            BY <1>4, <2>6, PropagateToFacts
        <3> QED
            BY <2>5, <2>7, <3>1
    <2>9. PICK y \in Entries : w.new = Append(acc.new, y) /\ y.key = v
        BY <2>8 DEF Added
    <2>10. w.new \in Seq(Entries) /\ y \in ToSet(w.new)
        BY <2>1, <2>9, AppendSet
    <2>11. KeysOf(w.new) = {z.key : z \in ToSet(w.new)}
        BY <2>10, KeysFacts
    <2> QED
        BY <2>9, <2>10, <2>11
<1> QED
    BY <1>2, <1>3, <1>4, <1>5

\* What the propagation has done after i turns over the variables below: its
\* entries are apart and for these variables, and the children among them of
\* what mutates its children are configured.
Advanced(acc, i, below, fields, root) ==
    /\ Apart(acc.new, root)
    /\ \A x \in ToSet(acc.new) : \E j \in 1..i : below[j] = x.key
    /\ \A x \in ToSet(acc.new) \cup {root} : Mutates(acc.m, x) =>
          \A j \in 1..i : below[j] \in ToSet(Children[x.key]) =>
                below[j] \in KeysOf(fields) \cup KeysOf(acc.new)

\* A turn keeps to what Advanced says.
LEMMA TurnAdvances ==
    ASSUME NEW n, CurrentTable(n), NEW b \in Machines(n), NEW acc \in Accs(n, b),
           NEW fields, NEW root, EntryOK(b, root), ~root.raw,
           NEW below, below = Descendants[root.key], NEW i \in 1..Len(below),
           Advanced(acc, i - 1, below, fields, root),
           NEW w, w = Propagate(acc, below[i], fields, root), w.m.ok
    PROVE  Advanced(w, i, below, fields, root)
<1>1. /\ n \in Nat /\ root.key \in Variables
      /\ below \in Seq(Variables) /\ IsInjective(below) /\ root.key \notin ToSet(below)
      /\ Ordered(below)
    BY DescendantsFacts DEF CurrentTable, EntryOK
<1>2. PICK l \in Nat : l = Len(below) /\ DOMAIN below = 1..l
    BY <1>1
<1>3. /\ \A j, k \in 1..l : below[j] = below[k] => j = k
      /\ \A j \in 1..l : below[j] \in Variables /\ below[j] # root.key
    <2>1. \A j, k \in 1..l : below[j] = below[k] => j = k
        BY <1>1, <1>2 DEF IsInjective
    <2>2. \A j \in 1..l : below[j] \in ToSet(below)
        BY <1>2 DEF ToSet
    <2>3. \A j \in 1..l : below[j] \in Variables
        BY <1>1, <1>2
    <2> QED
        BY <1>1, <2>1, <2>2, <2>3
<1>4. /\ i \in 1..l /\ \A j \in 1..(i - 1) : j \in 1..i /\ j \in 1..l /\ j # i
      /\ \A j \in 1..i : j \in 1..l /\ (j # i => j \in 1..(i - 1))
    BY <1>2
<1>5. PICK v \in Variables : v = below[i]
    BY <1>3, <1>4
<1>6. /\ Apart(acc.new, root)
      /\ \A x \in ToSet(acc.new) : \E j \in 1..(i - 1) : below[j] = x.key
      /\ \A x \in ToSet(acc.new) \cup {root} : Mutates(acc.m, x) =>
            \A j \in 1..(i - 1) : below[j] \in ToSet(Children[x.key]) =>
                below[j] \in KeysOf(fields) \cup KeysOf(acc.new)
    BY DEF Advanced
<1>7. /\ w \in Accs(n, b) /\ Extends(acc.m, w.m) /\ acc.m.ok
      /\ \/ w = acc
         \/ \E y \in Entries : w.new = Append(acc.new, y) /\ y.key = v /\ ~y.raw
      /\ \A x \in ToSet(acc.new) \cup {root} :
            Parent(v) = x.key /\ Mutates(acc.m, x) => v \in KeysOf(fields) \cup KeysOf(w.new)
    BY <1>5, <1>6, TurnReaches
<1>8. /\ acc.m \in Machines(n) /\ acc.new \in Seq(Entries) /\ Extends(b, acc.m)
      /\ w.m \in Machines(n) /\ w.new \in Seq(Entries)
      /\ \A x \in ToSet(acc.new) : EntryOK(acc.m, x) /\ ~x.raw
    BY <1>1, <1>7, AccFacts
<1>9. ASSUME NEW x \in ToSet(acc.new) \cup {root}
      PROVE  /\ EntryOK(acc.m, x) /\ ~x.raw /\ x.key \in Variables
             /\ Mutates(w.m, x) <=> Mutates(acc.m, x)
    <2>1. EntryOK(acc.m, x) /\ ~x.raw
        BY <1>1, <1>8, ExtendsEntry
    <2>2. w.m.mutators[x.id] = acc.m.mutators[x.id]
        BY <1>1, <1>7, <1>8, <2>1, ExtendsEntry
    <2> QED
        BY <2>1, <2>2 DEF Mutates, EntryOK
<1>10. KeysOf(acc.new) \subseteq KeysOf(w.new)
    <2>1. CASE w = acc
        BY <2>1
    <2>2. ASSUME NEW y \in Entries, w.new = Append(acc.new, y)
          PROVE  KeysOf(acc.new) \subseteq KeysOf(w.new)
        <3>1. ToSet(w.new) = ToSet(acc.new) \cup {y}
            BY <1>8, <2>2, AppendSet
        <3>2. /\ KeysOf(acc.new) = {x.key : x \in ToSet(acc.new)}
              /\ KeysOf(w.new) = {x.key : x \in ToSet(w.new)}
            BY <1>8, KeysFacts
        <3> QED
            BY <3>1, <3>2
    <2> QED
        BY <1>7, <2>1, <2>2
<1>11. ASSUME NEW x \in ToSet(acc.new) \cup {root}, Mutates(w.m, x),
              NEW j \in 1..i, below[j] \in ToSet(Children[x.key])
       PROVE  below[j] \in KeysOf(fields) \cup KeysOf(w.new)
    <2>1. Mutates(acc.m, x) /\ x.key \in Variables
        BY <1>9, <1>11
    <2>2. CASE j = i
        <3>1. Parent(v) = x.key
            BY <1>5, <1>11, <2>1, <2>2, OneParent
        <3> QED
            BY <1>5, <1>7, <2>1, <2>2, <3>1
    <2>3. CASE j # i
        <3>1. j \in 1..(i - 1)
            BY <1>4, <2>3
        <3> QED
            BY <1>6, <1>10, <1>11, <2>1, <3>1
    <2> QED
        BY <2>2, <2>3
<1>12. CASE w = acc
    <2>1. \A x \in ToSet(w.new) : \E j \in 1..i : below[j] = x.key
        BY <1>4, <1>6, <1>12
    <2> QED
        BY <1>6, <1>11, <1>12, <2>1 DEF Advanced
<1>13. ASSUME NEW y \in Entries, w.new = Append(acc.new, y), y.key = v, ~y.raw
       PROVE  Advanced(w, i, below, fields, root)
    <2>1. ToSet(w.new) = ToSet(acc.new) \cup {y}
        BY <1>8, <1>13, AppendSet
    <2>2. \A x \in ToSet(acc.new) \cup {root} : x.key # y.key
        <3>1. \A x \in ToSet(acc.new) : x.key # v
            BY <1>3, <1>4, <1>5, <1>6
        <3> QED
            BY <1>3, <1>4, <1>5, <1>13, <3>1
    <2>3. Apart(w.new, root)
        BY <1>6, <2>1, <2>2 DEF Apart
    <2>4. \A x \in ToSet(w.new) : \E j \in 1..i : below[j] = x.key
        <3>1. i \in 1..i
            BY <1>4
        <3> QED
            BY <1>4, <1>5, <1>6, <1>13, <2>1, <3>1
    <2>5. ASSUME NEW j \in 1..i
          PROVE  below[j] \notin ToSet(Children[y.key])
        <3>1. SUFFICES ASSUME below[j] \in ToSet(Children[below[i]])
                       PROVE  FALSE
            BY <1>5, <1>13
        <3>2. PICK k \in (i + 1)..l : below[k] = below[j]
            <4>1. i \in 1..Len(below) /\ Len(below) = l
                BY <1>2, <1>4
            <4>2. \A c \in ToSet(Children[below[i]]) :
                      \E k \in (i + 1)..Len(below) : below[k] = c
                BY <1>1, <4>1 DEF Ordered
            <4> QED
                BY <3>1, <4>1, <4>2
        <3>3. k \in 1..l /\ j \in 1..l /\ k # j
            BY <1>4
        <3> QED
            BY <1>3, <3>2, <3>3
    <2>6. \A x \in ToSet(w.new) \cup {root} : Mutates(w.m, x) =>
              \A j \in 1..i : below[j] \in ToSet(Children[x.key]) =>
                  below[j] \in KeysOf(fields) \cup KeysOf(w.new)
        BY <1>11, <2>1, <2>5
    <2> QED
        BY <2>3, <2>4, <2>6 DEF Advanced
<1> QED
    BY <1>7, <1>12, <1>13

\* The propagation from an entry that has a mutator reaches the children of
\* each node that mutates them.
LEMMA MutationReaches ==
    ASSUME NEW n, CurrentTable(n), NEW m \in Machines(n), NEW fields,
           NEW root, EntryOK(m, root), ~root.raw,
           NEW w, w = PropagateMutation(m, fields, root), w.m.ok
    PROVE  \A x \in ToSet(w.new) \cup {root} : Reaches(w.m, x, KeysOf(fields) \cup KeysOf(w.new))
<1> DEFINE below == Descendants[root.key]
<1>0. /\ n \in Nat /\ root.key \in Variables
      /\ below \in Seq(Variables) /\ Ordered(below)
      /\ ToSet(Children[root.key]) \subseteq ToSet(below)
    BY DescendantsFacts DEF CurrentTable, EntryOK
<1>1. PICK u : MutationTurns(m, fields, root, n, u)
    BY <1>0, MutationLoop
<1>2. /\ u \in [0..Len(below) -> Accs(n, m)] /\ u[0] = [m |-> m, new |-> <<>>]
      /\ \A i \in 1..Len(below) : u[i] = Propagate(u[i - 1], below[i], fields, root)
      /\ w = u[Len(below)]
    BY <1>1 DEF MutationTurns
<1>3. PICK d : d = below
    OBVIOUS
<1> DEFINE P == [i \in 0..Len(below) |-> {acc \in Accs(n, m) :
                    acc.m.ok => Advanced(acc, i, d, fields, root)}]
<1>4. u[0] \in P[0]
    <2>1. 0 \in 0..Len(below) /\ 1..0 = {}
        BY <1>0, Places
    <2>2. PICK z : z = u[0].new /\ z = <<>> /\ ToSet(z) = {}
        <3>1. u[0].new = <<>>
            BY <1>2
        <3> QED
            BY <3>1, EmptyFacts
    <2>3. Advanced(u[0], 0, d, fields, root)
        BY <2>1, <2>2 DEF Advanced, Apart
    <2> QED
        BY <1>2, <2>1, <2>3
<1>5. ASSUME NEW i \in 1..Len(below), u[i - 1] \in P[i - 1]
      PROVE  u[i] \in P[i]
    <2>1. i \in 0..Len(below) /\ i - 1 \in 0..Len(below) /\ below[i] \in Variables
        BY <1>0, Places
    <2>2. PICK acc \in Accs(n, m) :
              acc = u[i - 1] /\ (acc.m.ok => Advanced(acc, i - 1, d, fields, root))
        BY <1>5, <2>1
    <2>3. PICK z : z = u[i] /\ z = Propagate(acc, below[i], fields, root)
        BY <1>2, <2>2
    <2>4. z \in Accs(n, m)
        BY <1>2, <2>1, <2>3
    <2>5. ASSUME z.m.ok
          PROVE  Advanced(z, i, d, fields, root)
        <3>1. acc.m.ok
            BY <2>3, <2>5 DEF Propagate
        <3> HIDE DEF below
        <3> QED
            BY <1>3, <2>2, <2>3, <2>5, <3>1, TurnAdvances DEF below
    <2> QED
        BY <2>1, <2>3, <2>4, <2>5
<1>6. \A i \in 0..Len(below) : u[i] \in P[i]
    <2> HIDE DEF P
    <2> QED
        BY <1>0, <1>4, <1>5, Places, TurnByTurn
<1>7. Advanced(w, Len(below), d, fields, root)
    <2>1. u[Len(below)] \in P[Len(below)] /\ Len(below) \in 0..Len(below)
        BY <1>0, <1>6, Places
    <2> QED
        BY <1>2, <2>1
<1>8. PICK l \in Nat : l = Len(d) /\ DOMAIN d = 1..l /\ l = Len(below)
    BY <1>0, <1>3
<1>9. ASSUME NEW x \in ToSet(w.new) \cup {root}, NEW c \in ToSet(Children[x.key])
      PROVE  \E j \in 1..l : d[j] = c
    <2>1. CASE x = root
        BY <1>0, <1>3, <1>8, <1>9, <2>1 DEF ToSet
    <2>2. CASE x \in ToSet(w.new)
        <3>1. PICK k \in 1..l : d[k] = x.key
            BY <1>7, <1>8, <2>2 DEF Advanced
        <3>2. PICK j \in (k + 1)..l : d[j] = c
            BY <1>0, <1>3, <1>8, <1>9, <3>1 DEF Ordered
        <3>3. j \in 1..l
            OBVIOUS
        <3> QED
            BY <3>2, <3>3
    <2> QED
        BY <1>9, <2>1, <2>2
<1>10. \A x \in ToSet(w.new) \cup {root} : Mutates(w.m, x) =>
          \A j \in 1..l : d[j] \in ToSet(Children[x.key]) =>
                d[j] \in KeysOf(fields) \cup KeysOf(w.new)
    BY <1>7, <1>8 DEF Advanced
<1> QED
    BY <1>9, <1>10 DEF Reaches

\* What all the entries of a dictionary reach is configured in it.
AllReach(r) == \A x \in ToSet(r.fields) : Reaches(r.m, x, KeysOf(r.fields))

\* What the loop over the entries has done after i turns: the entries that it
\* has visited and those that it has added reach what is configured.
Reached(acc, i, fields) ==
    \A x \in ToSet(acc.new) \cup {fields[j] : j \in 1..i} :
        Reaches(acc.m, x, KeysOf(fields) \cup KeysOf(acc.new))

\* A turn of the loop over the entries keeps to what Reached says.
LEMMA EntryReaches ==
    ASSUME NEW n \in Nat, CurrentTable(n), NEW b \in Machines(n), NEW acc \in Accs(n, b),
           NEW fields \in Seq(Entries), \A j \in 1..Len(fields) : EntryOK(b, fields[j]) /\ ~fields[j].raw,
           NEW i \in 1..Len(fields), Reached(acc, i - 1, fields),
           NEW w, w = PropagateEntry(acc, fields, fields[i]), w.m.ok
    PROVE  Reached(w, i, fields)
<1>1. PICK e : e = fields[i] /\ EntryOK(b, e) /\ ~e.raw
    OBVIOUS
<1>2. PICK below : below = PropagateMutation(acc.m, fields, e)
    OBVIOUS
<1>3. Joined(acc, w, n, b, fields, below)
    BY <1>1, <1>2, PropagateEntryFacts
<1>4. /\ w \in Accs(n, b) /\ Extends(acc.m, w.m) /\ acc.m.ok /\ w.m = below.m
      /\ below \in Accs(n, acc.m) /\ ToSet(w.new) = ToSet(acc.new) \cup ToSet(below.new)
    BY <1>3 DEF Joined
<1>5. /\ acc.m \in Machines(n) /\ acc.new \in Seq(Entries) /\ Extends(b, acc.m)
      /\ w.m \in Machines(n) /\ w.new \in Seq(Entries) /\ below.new \in Seq(Entries)
      /\ \A x \in ToSet(acc.new) : EntryOK(acc.m, x) /\ ~x.raw
    BY <1>4, AccFacts
<1>6. KeysOf(w.new) = KeysOf(acc.new) \cup KeysOf(below.new)
    <2>1. /\ KeysOf(w.new) = {x.key : x \in ToSet(w.new)}
          /\ KeysOf(acc.new) = {x.key : x \in ToSet(acc.new)}
          /\ KeysOf(below.new) = {x.key : x \in ToSet(below.new)}
        BY <1>5, KeysFacts
    <2> QED
        BY <1>4, <2>1
<1>7. PICK l \in Nat : l = Len(fields)
    OBVIOUS
<1>8. ASSUME NEW x \in ToSet(acc.new) \cup {fields[j] : j \in 1..(i - 1)}
      PROVE  Reaches(w.m, x, KeysOf(fields) \cup KeysOf(w.new))
    <2>1. Reaches(acc.m, x, KeysOf(fields) \cup KeysOf(acc.new))
        BY DEF Reached
    <2>2. EntryOK(acc.m, x) /\ ~x.raw
        <3>1. CASE x \in ToSet(acc.new)
            BY <1>5, <3>1
        <3>2. CASE x \in {fields[j] : j \in 1..(i - 1)}
            <4>1. PICK j \in 1..Len(fields) : x = fields[j]
                BY <1>7, <3>2
            <4>2. EntryOK(b, x) /\ ~x.raw
                BY <4>1
            <4> QED
                BY <1>5, <4>2, ExtendsEntry
        <3> QED
            BY <1>8, <3>1, <3>2
    <2>3. w.m.mutators[x.id] = acc.m.mutators[x.id]
        BY <1>4, <1>5, <2>2, ExtendsEntry
    <2>4. Mutates(w.m, x) <=> Mutates(acc.m, x)
        BY <2>3 DEF Mutates
    <2> QED
        BY <1>6, <2>1, <2>4 DEF Reaches
<1>9. ASSUME NEW x \in ToSet(below.new) \cup {e}
      PROVE  Reaches(w.m, x, KeysOf(fields) \cup KeysOf(w.new))
    <2>1. EntryOK(acc.m, e)
        BY <1>1, <1>5, ExtendsEntry
    <2>2. Reaches(below.m, x, KeysOf(fields) \cup KeysOf(below.new))
        BY <1>1, <1>2, <1>4, <1>5, <2>1, MutationReaches
    <2> QED
        BY <1>4, <1>6, <2>2 DEF Reaches
<1>10. \A j \in 1..i : j = i \/ j \in 1..(i - 1)
    BY <1>7
<1> QED
    <2>1. SUFFICES ASSUME NEW x \in ToSet(w.new) \cup {fields[j] : j \in 1..i}
                   PROVE  Reaches(w.m, x, KeysOf(fields) \cup KeysOf(w.new))
        BY DEF Reached
    <2>2. CASE x \in ToSet(w.new)
        BY <1>4, <1>8, <1>9, <2>2
    <2>3. ASSUME NEW j \in 1..i, x = fields[j]
          PROVE  Reaches(w.m, x, KeysOf(fields) \cup KeysOf(w.new))
        BY <1>1, <1>8, <1>9, <1>10, <2>3
    <2> QED
        BY <2>1, <2>2, <2>3

\* When no exception was raised, the children of all entries are reached.
LEMMA PropagateAllReaches ==
    ASSUME NEW n \in Nat, CurrentTable(n), NEW m \in Machines(n), m.ok, NEW fields,
           DictOK(m, fields), KeysOf(fields) \subseteq Variables, \A e \in ToSet(fields) : ~e.raw,
           NEW w, w = PropagateAll(m, fields), w.m.ok
    PROVE  AllReach(w)
<1>0. fields \in Dicts /\ fields \in Seq(Entries)
    BY DEF DictOK, Dicts
<1>e. \A i \in 1..Len(fields) : EntryOK(m, fields[i]) /\ ~fields[i].raw
    BY <1>0, KeysFacts DEF DictOK
<1>1. PICK u : EntryTurns(m, fields, n, u)
    BY PropagateAllLoop
<1>2. /\ u \in [0..Len(fields) -> Accs(n, m)] /\ u[0] = [m |-> m, new |-> <<>>]
      /\ \A i \in 1..Len(fields) : u[i] = PropagateEntry(u[i - 1], fields, fields[i])
      /\ w = Updated(m, fields, u[Len(fields)])
    BY <1>1 DEF EntryTurns
<1> DEFINE P == [i \in 0..Len(fields) |-> {acc \in Accs(n, m) :
                    acc.m.ok => /\ Reached(acc, i, fields)
                                /\ \A x \in ToSet(acc.new) : x.key \notin KeysOf(fields)}]
<1>3. u[0] \in P[0]
    <2>1. 0 \in 0..Len(fields) /\ 1..0 = {}
        BY <1>0, Places
    <2>2. PICK z : z = u[0].new /\ z = <<>> /\ ToSet(z) = {}
        <3>1. u[0].new = <<>>
            BY <1>2
        <3> QED
            BY <3>1, EmptyFacts
    <2>3. Reached(u[0], 0, fields)
        BY <2>1, <2>2 DEF Reached
    <2> QED
        BY <1>2, <2>1, <2>2, <2>3
<1>4. ASSUME NEW i \in 1..Len(fields), u[i - 1] \in P[i - 1]
      PROVE  u[i] \in P[i]
    <2>1. i \in 0..Len(fields) /\ i - 1 \in 0..Len(fields)
        BY <1>0, Places
    <2>2. PICK acc \in Accs(n, m) :
              /\ acc = u[i - 1]
              /\ acc.m.ok => /\ Reached(acc, i - 1, fields)
                             /\ \A x \in ToSet(acc.new) : x.key \notin KeysOf(fields)
        BY <1>4, <2>1
    <2>3. PICK e : e = fields[i] /\ EntryOK(m, e) /\ ~e.raw
        BY <1>e
    <2>4. PICK z, below : /\ z = u[i] /\ z = PropagateEntry(acc, fields, e)
                          /\ below = PropagateMutation(acc.m, fields, e)
        BY <1>2, <2>2, <2>3
    <2>5. /\ z \in Accs(n, m)
          /\ z.m.ok => /\ acc.m.ok
                       /\ ToSet(z.new) = ToSet(acc.new) \cup ToSet(below.new)
                       /\ \A x \in ToSet(below.new) : x.key \notin KeysOf(fields)
        <3>1. Joined(acc, z, n, m, fields, below)
            BY <2>3, <2>4, PropagateEntryFacts
        <3> QED
            BY <3>1 DEF Joined
    <2>6. ASSUME z.m.ok
          PROVE  Reached(z, i, fields)
        BY <1>0, <1>e, <2>2, <2>3, <2>4, <2>5, <2>6, EntryReaches
    <2> QED
        BY <2>1, <2>2, <2>4, <2>5, <2>6
<1>5. \A i \in 0..Len(fields) : u[i] \in P[i]
    <2> HIDE DEF P
    <2> QED
        BY <1>0, <1>3, <1>4, Places, TurnByTurn
<1>6. PICK r \in Accs(n, m) :
          /\ r = u[Len(fields)]
          /\ r.m.ok => /\ Reached(r, Len(fields), fields)
                       /\ \A x \in ToSet(r.new) : x.key \notin KeysOf(fields)
    <2>1. u[Len(fields)] \in P[Len(fields)]
        BY <1>0, <1>5, Places
    <2> QED
        BY <1>0, <2>1, Places
<1>7. r.m.ok => Replaces(m, fields, r)
    BY <1>0, <1>6, DictFacts DEF Replaces
<1>8. w.m.ok = r.m.ok /\ (r.m.ok => w.m = r.m /\ w.fields = PutAll(fields, r.new))
    <2>1. LET z == Updated(m, fields, r)
          IN  /\ Keeps(m, fields, z, n) /\ z.m.ok = r.m.ok
              /\ ~r.m.ok => z.fields = fields
              /\ r.m.ok => z.m = r.m /\ z.fields = PutAll(fields, r.new)
              /\ (\A e \in ToSet(fields) : e.raw => e.key \in KeysOf(r.new))
                    => (z.m.ok => \A x \in ToSet(z.fields) : ~x.raw)
        BY <1>7, UpdatedFacts
    <2>2. w = Updated(m, fields, r)
        BY <1>2, <1>6
    <2> QED
        BY <2>1, <2>2
<1>9. r.new \in Seq(Entries) /\ r.m.ok /\ w.m = r.m /\ w.fields = PutAll(fields, r.new)
    BY <1>6, <1>8, AccFacts
<1>10. /\ KeysOf(w.fields) = KeysOf(fields) \cup KeysOf(r.new)
       /\ \A x \in ToSet(w.fields) : x \in ToSet(r.new) \/ x \in ToSet(fields)
    BY <1>0, <1>9, PutAllFacts
<1>11. ToSet(fields) = {fields[j] : j \in 1..Len(fields)}
    BY <1>0 DEF ToSet
<1> QED
    BY <1>6, <1>9, <1>10, <1>11 DEF AllReach, Reached

\* normalize_mappingFieldsMutators, when it ends well, leaves the children of
\* every entry that mutates its children configured.
LEMMA NormalizeMappingReaches ==
    ASSUME NEW n \in Nat, CurrentTable(n), NEW m \in Machines(n), m.ok, NEW fields,
           DictOK(m, fields), KeysOf(fields) \subseteq Variables,
           NEW w, w = NormalizeMapping(m, fields), w.m.ok
    PROVE  AllReach(w)
<1>1. PICK v : /\ v = NormalizeValues(m, fields)
               /\ Keeps(m, fields, v, n)
               /\ v.m.ok => \A x \in ToSet(v.fields) : ~x.raw
    BY NormalizeValuesFacts
<1>2. v.m.ok /\ w = PropagateAll(v.m, v.fields)
    BY <1>1 DEF NormalizeMapping
<1>3. /\ v.m \in Machines(n) /\ DictOK(v.m, v.fields) /\ KeysOf(v.fields) \subseteq Variables
    BY <1>1 DEF Keeps
<1> QED
    BY <1>1, <1>2, <1>3, PropagateAllReaches
=============================================================================
