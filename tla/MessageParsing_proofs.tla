------------------------ MODULE MessageParsing_proofs ------------------------
(***************************************************************************)
(* For any symbols, types, scopes and data: a session value that is known  *)
(* stays, and what the parser returns is right: a message is accepted only *)
(* if it fits the symbol and as the first of the cuts that fit, refused    *)
(* only if none does, and what the actor has written itself is understood. *)
(***************************************************************************)
EXTENDS MessageParsing, SequenceTheorems, WellFoundedInduction, TLAPS

Generators ==
    [at : Nat, size : Nat, how : {"valueCMP", "learn", "domainCMP"}]

\* The suspended generators stay within the data; the last one may not have
\* tried a size yet.
Typing ==
    /\ memory \in [Leafs -> Values \cup {None}]
    /\ before \in [Leafs -> Values \cup {None}]
    /\ data \in Values
    /\ symbol \in 1..Len(Symbols)
    /\ phase \in {"idle", "field", "back"}
    /\ paths \in Seq(Generators)
    /\ Len(paths) <= Len(Fields)
    /\ \A k \in 1..Len(paths) : paths[k].at + paths[k].size <= Len(data) + 1
    /\ phase = "field" => Rest >= 0

\* SessionStable is not inductive: a generator that was started when the session
\* value was unknown learns it anew with each size it tries.
LearnsNewOnly ==
    \A k \in 1..Len(paths) :
        /\ paths[k].how = "learn"
        /\ Scope[Fields[k]] = "SESSION"
        => before[Fields[k]] = None

MemoryInvariant == Typing /\ SessionStable /\ LearnsNewOnly

-----------------------------------------------------------------------------
(* Facts about the definitions. *)

\* The values of a leaf are sequences of bytes.
LEMMA DomainValues ==
    ASSUME NEW v \in Leafs, NEW c \in Domain(v)
    PROVE  c \in Values
<1>1. CASE Constant[v] # None
    BY <1>1, ParsingAssumption DEF Domain
<1>2. CASE Constant[v] = None
    <2>1. PICK n \in MinSize[v]..MaxSize[v] : c \in [1..n -> Alphabet[v]]
        BY <1>2 DEF Domain
    <2>2. n \in Nat /\ Alphabet[v] \subseteq Units
        BY <2>1, ParsingAssumption
    <2>3. c \in [1..n -> Units]
        BY <2>1, <2>2
    <2> QED
        BY <2>2, <2>3 DEF Values
<1> QED
    BY <1>1, <1>2

\* What use and valueCMP take is a value, or None.
LEMMA ExpectedValues ==
    ASSUME Typing, NEW v \in Leafs
    PROVE  Expected(v) \in Values \cup {None}
BY ParsingAssumption DEF Typing, Expected

LEMMA LeastNat ==
    ASSUME NEW v \in Leafs
    PROVE  Least(v) \in Nat /\ Greatest(v) \in Nat
BY ParsingAssumption DEF Least, Greatest, Values

\* A part of the data is a value.
LEMMA PartValues ==
    ASSUME Typing, NEW at \in Nat, NEW size \in Nat, at + size <= Len(data)
    PROVE  Part(at, size) \in Values
<1>1. \A i \in (at + 1)..(at + size) : data[i] \in Units
    BY DEF Typing, Values
<1> QED
    BY <1>1, SubSeqProperties DEF Part, Values

LEMMA FieldLeaf ==
    ASSUME Typing, NEW k \in 1..Len(Fields)
    PROVE  Fields[k] \in Leafs
BY ParsingAssumption DEF Typing, Fields

LEMMA LastPath ==
    ASSUME Typing, paths # <<>>
    PROVE  /\ Len(paths) \in 1..Len(Fields)
           /\ Last(paths) = paths[Len(paths)]
           /\ Last(paths) \in Generators
           /\ Fields[Len(paths)] \in Leafs
<1>1. Len(paths) \in Nat \ {0}
    BY EmptySeq DEF Typing
<1>2. Len(Fields) \in Nat
    BY ParsingAssumption DEF Typing, Fields
<1>3. Len(paths) \in 1..Len(Fields)
    BY <1>1, <1>2 DEF Typing
<1> QED
    BY <1>1, <1>3, FieldLeaf DEF Typing, Last

-----------------------------------------------------------------------------
(* The steps of the parser. *)

\* Appending a generator that stays within the data.
LEMMA PushKeepsTyping ==
    ASSUME Typing, Len(paths) < Len(Fields), NEW g \in Generators,
           paths' = Append(paths, g), g.at + g.size <= Len(data) + 1,
           phase' = "field" => g.at + g.size <= Len(data),
           phase' \in {"field", "back"},
           UNCHANGED <<memory, data, symbol, before>>
    PROVE  Typing'
<1>1. /\ paths' \in Seq(Generators)
      /\ Len(paths') = Len(paths) + 1
      /\ paths'[Len(paths) + 1] = g
      /\ \A k \in 1..Len(paths) : paths'[k] = paths[k]
      /\ paths' # <<>>
    BY AppendProperties DEF Typing
<1>2. Len(paths) \in Nat /\ Len(Fields) \in Nat /\ Fields' = Fields
    BY ParsingAssumption, SMTT(20) DEF Typing, Fields
<1>3. Len(paths') <= Len(Fields')
    BY <1>1, <1>2
<1>4. \A k \in 1..Len(paths') : paths'[k].at + paths'[k].size <= Len(data') + 1
    BY <1>1, <1>2 DEF Typing
<1>5. phase' = "field" => Rest' >= 0
    <2>1. Rest' = Len(data) - (g.at + g.size)
        BY <1>1, <1>2 DEF Rest, Consumed, Last
    <2>2. Len(data) \in Nat /\ g.at \in Nat /\ g.size \in Nat
        BY DEF Typing, Values, Generators
    <2> QED
        BY <2>1, <2>2
<1> QED
    BY <1>1, <1>3, <1>4, <1>5 DEF Typing

LEMMA PushKeepsLearning ==
    ASSUME Typing, LearnsNewOnly, Len(paths) < Len(Fields), NEW g \in Generators,
           paths' = Append(paths, g), UNCHANGED <<symbol, before>>,
           /\ g.how = "learn"
           /\ Scope[Fields[Len(paths) + 1]] = "SESSION"
           => before[Fields[Len(paths) + 1]] = None
    PROVE  LearnsNewOnly'
<1>1. /\ Len(paths') = Len(paths) + 1
      /\ paths'[Len(paths) + 1] = g
      /\ \A k \in 1..Len(paths) : paths'[k] = paths[k]
    BY AppendProperties DEF Typing
<1>2. Len(paths) \in Nat /\ Fields' = Fields
    BY DEF Typing, Fields
<1> QED
    BY <1>1, <1>2 DEF LearnsNewOnly

LEMMA EnterFieldKeeps ==
    ASSUME MemoryInvariant, EnterField
    PROVE  MemoryInvariant'
<1> DEFINE v   == Fields[Len(paths) + 1]
           how == How(v)
           e   == Expected(v)
           top == IF Greatest(v) < Rest THEN Greatest(v) ELSE Rest
<1>1. /\ Typing /\ phase = "field" /\ Len(paths) < Len(Fields)
      /\ UNCHANGED <<memory, data, symbol, before>>
    BY DEF MemoryInvariant, EnterField
<1>2. v \in Leafs
    <2>1. Len(paths) + 1 \in 1..Len(Fields)
        BY <1>1, ParsingAssumption DEF Typing, Fields
    <2> QED
        BY <1>1, <2>1, FieldLeaf
<1>3. Consumed \in Nat /\ Rest \in Nat /\ Rest = Len(data) - Consumed
    <2>1. Len(data) \in Nat
        BY <1>1 DEF Typing, Values
    <2>2. CASE paths = <<>>
        BY <1>1, <2>1, <2>2 DEF Typing, Rest, Consumed
    <2>3. CASE paths # <<>>
        <3>1. Last(paths).at \in Nat /\ Last(paths).size \in Nat
            BY <1>1, <2>3, LastPath DEF Generators
        <3> QED
            BY <1>1, <2>1, <2>3, <3>1 DEF Typing, Rest, Consumed
    <2> QED
        BY <2>2, <2>3
<1>4. SessionStable'
    BY <1>1 DEF MemoryInvariant, SessionStable
<1>5. /\ how = "learn"
      /\ Scope[v] = "SESSION"
      => before[v] = None
    BY <1>2 DEF MemoryInvariant, SessionStable, How, IsDefined, Expected
<1>6. CASE /\ how = "valueCMP" /\ Begins(e)
           /\ paths' = Append(paths, Path(Consumed, Len(e), how))
           /\ phase' = "field"
    <2>1. e \in Values
        <3>1. e # None
            BY <1>2, <1>6, ParsingAssumption DEF How, IsDefined
        <3> QED
            BY <1>1, <1>2, <3>1, ExpectedValues
    <2>2. Len(e) \in Nat /\ Len(e) <= Rest
        BY <1>6, <2>1 DEF Begins, Values
    <2> DEFINE g == Path(Consumed, Len(e), how)
    <2>3. g \in Generators /\ g.at + g.size <= Len(data) /\ g.how = how
        BY <1>3, <1>6, <2>2 DEF Path, Generators
    <2>4. g.at + g.size <= Len(data) + 1
        BY <1>1, <2>3 DEF Generators, Typing, Values
    <2> HIDE DEF g
    <2>5. Typing'
        BY <1>1, <1>6, <2>3, <2>4, PushKeepsTyping DEF g
    <2>6. LearnsNewOnly'
        BY <1>1, <1>5, <1>6, <2>3, PushKeepsLearning DEF g, MemoryInvariant
    <2> QED
        BY <1>4, <2>5, <2>6 DEF MemoryInvariant
<1>7. CASE paths' = paths /\ phase' = "back"
    BY <1>1, <1>4, <1>7 DEF MemoryInvariant, Typing, LearnsNewOnly, Fields
<1>8. CASE /\ how \in {"learn", "domainCMP"}
           /\ paths' = Append(paths, Path(Consumed, top + 1, how))
           /\ phase' = "back"
    <2>1. top \in Nat /\ top <= Rest
        BY <1>2, <1>3, LeastNat
    <2> DEFINE g == Path(Consumed, top + 1, how)
    <2> HIDE DEF top
    <2>2. g \in Generators /\ g.at + g.size <= Len(data) + 1 /\ g.how = how
        BY <1>1, <1>3, <1>8, <2>1 DEF Path, Generators, Typing, Values
    <2> HIDE DEF g
    <2>3. Typing'
        BY <1>1, <1>8, <2>2, PushKeepsTyping DEF g
    <2>4. LearnsNewOnly'
        BY <1>1, <1>5, <1>8, <2>2, PushKeepsLearning DEF g, MemoryInvariant
    <2> QED
        BY <1>4, <2>3, <2>4 DEF MemoryInvariant
<1> QED
    BY <1>6, <1>7, <1>8 DEF EnterField

LEMMA TrySizeKeeps ==
    ASSUME MemoryInvariant, TrySize
    PROVE  MemoryInvariant'
<1> DEFINE n == Len(paths)
           p == Last(paths)
           v == Fields[n]
           c == Part(p.at, p.size - 1)
<1>1. /\ Typing /\ paths # <<>> /\ p.size > Least(v)
      /\ paths' = [paths EXCEPT ![n].size = @ - 1]
      /\ UNCHANGED <<data, symbol, before>>
      /\ phase' \in {"field", "back"}
    BY DEF MemoryInvariant, TrySize
<1>2. /\ n \in 1..Len(Fields) /\ p = paths[n] /\ p \in Generators /\ v \in Leafs
    BY <1>1, LastPath
<1>3. /\ p.at \in Nat /\ p.size - 1 \in Nat /\ p.at + (p.size - 1) <= Len(data)
    <2>1. n \in 1..Len(paths)
        BY <1>2
    <2>2. p.at + p.size <= Len(data) + 1
        BY <1>1, <1>2, <2>1 DEF Typing
    <2>3. Least(v) \in Nat /\ Len(data) \in Nat
        BY <1>1, <1>2, LeastNat DEF Typing, Values
    <2>4. p.at \in Nat /\ p.size \in Nat
        BY <1>2 DEF Generators
    <2> QED
        BY <1>1, <2>2, <2>3, <2>4
<1>4. c \in Values
    BY <1>1, <1>3, PartValues
<1> HIDE DEF c
<1>5. /\ paths' \in Seq(Generators) /\ Len(paths') = n
      /\ paths'[n] = [p EXCEPT !.size = p.size - 1]
      /\ \A k \in 1..n : k # n => paths'[k] = paths[k]
    <2>1. [p EXCEPT !.size = p.size - 1] \in Generators
        BY <1>2, <1>3 DEF Generators
    <2>2. paths' = [paths EXCEPT ![n] = [p EXCEPT !.size = p.size - 1]]
        BY <1>1, <1>2
    <2> HIDE DEF p
    <2> QED
        BY <1>1, <1>2, <2>1, <2>2, ExceptSeq DEF Typing
<1>6. /\ paths'[n].at = p.at /\ paths'[n].size = p.size - 1 /\ paths'[n].how = p.how
    BY <1>2, <1>5 DEF Generators
<1>7. Fields' = Fields /\ Len(data') = Len(data)
    BY <1>1 DEF Fields
<1>8. memory' = memory \/ (p.how = "learn" /\ memory' = [memory EXCEPT ![v] = c])
    BY DEF TrySize, c
<1>9. Typing'
    <2>1. memory' \in [Leafs -> Values \cup {None}]
        BY <1>1, <1>2, <1>4, <1>8 DEF Typing
    <2>2. \A k \in 1..Len(paths') : paths'[k].at + paths'[k].size <= Len(data') + 1
        <3>1. TAKE k \in 1..Len(paths')
        <3>2. CASE k = n
            BY <1>1, <1>3, <1>6, <1>7, <3>2 DEF Typing, Values
        <3>3. CASE k # n
            BY <1>1, <1>5, <1>7, <3>1, <3>3 DEF Typing
        <3> QED
            BY <3>2, <3>3
    <2>3. Rest' >= 0
        <3>1. Last(paths') = paths'[n] /\ paths' # <<>>
            BY <1>2, <1>5 DEF Last
        <3>2. Rest' = Len(data) - (p.at + (p.size - 1))
            BY <1>6, <1>7, <3>1 DEF Rest, Consumed
        <3> QED
            BY <1>1, <1>3, <3>2 DEF Typing, Values
    <2> QED
        BY <1>1, <1>2, <1>5, <1>7, <2>1, <2>2, <2>3 DEF Typing
<1>10. LearnsNewOnly'
    BY <1>1, <1>2, <1>5, <1>6, <1>7 DEF MemoryInvariant, LearnsNewOnly
<1>11. SessionStable'
    <2>1. p.how = "learn" /\ Scope[v] = "SESSION" => before[v] = None
        BY <1>2 DEF MemoryInvariant, LearnsNewOnly
    <2> QED
        BY <1>1, <1>2, <1>8, <2>1 DEF MemoryInvariant, SessionStable, Typing
<1> QED
    BY <1>9, <1>10, <1>11 DEF MemoryInvariant

LEMMA BacktrackKeeps ==
    ASSUME MemoryInvariant, Backtrack
    PROVE  MemoryInvariant'
<1>1. /\ Typing /\ paths # <<>> /\ paths' = Front(paths) /\ phase' = "back"
      /\ UNCHANGED <<memory, data, symbol, before>>
    BY DEF MemoryInvariant, Backtrack
<1>2. Len(paths) \in Nat \ {0}
    BY <1>1, EmptySeq DEF Typing
<1>3. /\ paths' \in Seq(Generators) /\ Len(paths') = Len(paths) - 1
      /\ \A k \in 1..Len(paths') : paths'[k] = paths[k]
    <2>1. \A k \in 1..(Len(paths) - 1) : paths[k] \in Generators
        BY <1>1, <1>2 DEF Typing
    <2>2. paths' = SubSeq(paths, 1, Len(paths) - 1)
        BY <1>1 DEF Front
    <2> DEFINE m == Len(paths) - 1
    <2>3. m \in Nat /\ m = Len(paths) - 1
        BY <1>2
    <2> HIDE DEF m
    <2>4. /\ SubSeq(paths, 1, m) \in Seq(Generators)
          /\ Len(SubSeq(paths, 1, m)) = m
          /\ \A k \in 1..m : SubSeq(paths, 1, m)[k] = paths[k]
        <3>1. \A k \in 1..m : paths[k] \in Generators
            BY <2>1, <2>3
        <3>2. m - 1 + 1 = m /\ (IF 1 <= m THEN m - 1 + 1 ELSE 0) = m
            BY <2>3
        <3>3. SubSeq(paths, 1, m) \in Seq(Generators)
            BY <2>3, <3>1, SubSeqProperties
        <3>4. Len(SubSeq(paths, 1, m)) = IF 1 <= m THEN m - 1 + 1 ELSE 0
            BY <2>3, <3>1, SubSeqProperties
        <3>5. \A k \in 1..(m - 1 + 1) : SubSeq(paths, 1, m)[k] = paths[1 + k - 1]
            BY <2>3, <3>1, SubSeqProperties
        <3>6. ASSUME NEW k \in 1..m
              PROVE  SubSeq(paths, 1, m)[k] = paths[k]
            <4>1. k \in 1..(m - 1 + 1) /\ 1 + k - 1 = k
                BY <2>3, <3>2
            <4> QED
                BY <3>5, <4>1
        <3> QED
            BY <3>2, <3>3, <3>4, <3>6
    <2> QED
        BY <2>2, <2>3, <2>4
<1>4. Fields' = Fields
    BY <1>1 DEF Fields
<1>5. Typing'
    <2>1. Len(paths') <= Len(Fields')
        <3>1. Len(Fields) \in Nat
            BY <1>1, ParsingAssumption, SMTT(20) DEF Typing, Fields
        <3> QED
            BY <1>1, <1>2, <1>3, <1>4, <3>1 DEF Typing
    <2>2. ASSUME NEW k \in 1..Len(paths')
          PROVE  paths'[k].at + paths'[k].size <= Len(data') + 1
        <3>1. k \in 1..Len(paths) /\ paths'[k] = paths[k] /\ data' = data
            BY <1>1, <1>2, <1>3
        <3> QED
            BY <1>1, <3>1 DEF Typing
    <2> QED
        BY <1>1, <1>3, <2>1, <2>2 DEF Typing
<1>6. LearnsNewOnly'
    BY <1>1, <1>2, <1>3, <1>4 DEF MemoryInvariant, LearnsNewOnly
<1> QED
    BY <1>1, <1>5, <1>6 DEF MemoryInvariant, SessionStable

\* The steps that leave the memory alone and keep or drop all generators.
LEMMA IncompleteKeeps ==
    ASSUME MemoryInvariant, Incomplete
    PROVE  MemoryInvariant'
BY DEF MemoryInvariant, Typing, SessionStable, LearnsNewOnly, Incomplete, Fields

LEMMA ReturnKeeps ==
    ASSUME MemoryInvariant, Return, UNCHANGED <<memory, before>>
    PROVE  MemoryInvariant'
<1>1. /\ paths' = <<>> /\ data' = <<>> /\ symbol' = 1 /\ phase' = "idle"
    BY DEF Return
<1>2. /\ paths' \in Seq(Generators) /\ Len(paths') = 0 /\ data' \in Values
    BY <1>1, EmptySeq DEF Values
<1>3. symbol' \in 1..Len(Symbols) /\ Len(Fields') \in Nat
    BY <1>1, ParsingAssumption DEF Fields
<1> QED
    BY <1>1, <1>2, <1>3 DEF MemoryInvariant, Typing, SessionStable, LearnsNewOnly

LEMMA NextSymbolKeeps ==
    ASSUME MemoryInvariant, NextSymbol
    PROVE  MemoryInvariant'
<1>1. /\ paths = <<>> /\ paths' = <<>> /\ symbol' = symbol + 1
      /\ symbol < Len(Symbols) /\ phase' = "field"
      /\ UNCHANGED <<memory, data, before>>
    BY DEF NextSymbol, Refusing
<1>2. /\ paths' \in Seq(Generators) /\ Len(paths') = 0
    BY <1>1, EmptySeq
<1>3. symbol' \in 1..Len(Symbols)
    BY <1>1, ParsingAssumption DEF MemoryInvariant, Typing
<1>4. Len(Fields') \in Nat
    BY <1>3, ParsingAssumption DEF Fields
<1>5. Rest' >= 0
    BY <1>1 DEF MemoryInvariant, Typing, Rest, Consumed, Values
<1> QED
    BY <1>1, <1>2, <1>3, <1>4, <1>5
        DEF MemoryInvariant, Typing, SessionStable, LearnsNewOnly

-----------------------------------------------------------------------------
(* The steps of the actor between two reads. *)

LEMMA ReceiveKeeps ==
    ASSUME MemoryInvariant, Receive
    PROVE  MemoryInvariant'
<1>1. /\ paths' = <<>> /\ symbol' = 1 /\ phase' = "field"
      /\ before' = memory /\ memory' = memory
    BY DEF Receive
<1>2. PICK n \in 1..MaxData : data' \in [1..n -> Units]
    BY DEF Receive
<1>3. data' \in Values /\ Len(data') \in Nat
    BY <1>2, ParsingAssumption DEF Values
<1>4. /\ paths' \in Seq(Generators) /\ Len(paths') = 0
    BY <1>1, EmptySeq
<1>5. symbol' \in 1..Len(Symbols) /\ Len(Fields') \in Nat
    BY <1>1, ParsingAssumption DEF Fields
<1>6. Rest' >= 0
    BY <1>1, <1>3 DEF Rest, Consumed
<1> QED
    BY <1>1, <1>3, <1>4, <1>5, <1>6
        DEF MemoryInvariant, Typing, SessionStable, LearnsNewOnly

\* What a leaf emits is a value, and the remembered one if there is one.
LEMMA EmitsValues ==
    ASSUME Typing, NEW v \in Leafs, NEW c \in Emits(v)
    PROVE  /\ c \in Values
           /\ Scope[v] = "SESSION" /\ memory[v] # None => c = memory[v]
<1>1. CASE Scope[v] # "NONE" /\ IsDefined(v)
    <2>1. c = Expected(v) /\ Expected(v) # None
        BY <1>1 DEF Emits, IsDefined
    <2> QED
        BY <2>1, ExpectedValues DEF Expected
<1>2. CASE Scope[v] = "NONE"
    BY <1>2, DomainValues DEF Emits
<1>3. CASE Scope[v] # "NONE" /\ ~IsDefined(v)
    <2>1. c \in Domain(v)
        BY <1>3 DEF Emits
    <2>2. memory[v] = None
        BY <1>3 DEF IsDefined, Expected
    <2> QED
        BY <2>1, <2>2, DomainValues
<1> QED
    BY <1>1, <1>2, <1>3

LEMMA WriteKeeps ==
    ASSUME MemoryInvariant, Write
    PROVE  MemoryInvariant'
<1>1. Typing /\ UNCHANGED <<data, symbol, paths, phase, before>>
    BY DEF MemoryInvariant, Write
<1>2. PICK done, g :
        /\ \A v \in done : g[v] \in Emits(v)
        /\ memory' = [v \in Leafs |-> IF v \in done /\ Memorizes(v)
                                      THEN g[v] ELSE memory[v]]
    BY DEF Write
<1>3. \A v \in Leafs : \/ memory'[v] = memory[v]
                       \/ memory'[v] \in Emits(v)
    BY <1>2
<1>4. memory' \in [Leafs -> Values \cup {None}]
    <2>1. \A v \in Leafs : memory'[v] \in Values \cup {None}
        BY <1>1, <1>3, EmitsValues DEF Typing
    <2>2. memory' = [v \in Leafs |-> memory'[v]]
        BY <1>2
    <2> QED
        BY <2>1, <2>2
<1>5. Typing'
    BY <1>1, <1>4 DEF Typing, Fields, Rest, Consumed
<1>6. LearnsNewOnly'
    BY <1>1 DEF MemoryInvariant, LearnsNewOnly, Fields
<1>7. SessionStable'
    <2> SUFFICES ASSUME NEW v \in Leafs, Scope[v] = "SESSION", before[v] # None
                 PROVE  memory'[v] = before[v]
        BY <1>1 DEF SessionStable
    <2>1. memory[v] = before[v]
        BY DEF MemoryInvariant, SessionStable
    <2> QED
        BY <1>1, <1>3, <2>1, EmitsValues
<1> QED
    BY <1>5, <1>6, <1>7 DEF MemoryInvariant

LEMMA ResetKeeps ==
    ASSUME MemoryInvariant, Reset
    PROVE  MemoryInvariant'
<1>1. /\ memory' = Nothing /\ before' = Nothing
      /\ UNCHANGED <<data, symbol, paths, phase>>
    BY DEF Reset
<1>2. Nothing \in [Leafs -> Values \cup {None}]
    BY DEF Nothing
<1>3. Typing'
    BY <1>1, <1>2 DEF MemoryInvariant, Typing, Fields, Rest, Consumed
<1>4. LearnsNewOnly'
    <2> SUFFICES ASSUME NEW k \in 1..Len(paths)
                 PROVE  Nothing[Fields[k]] = None
        BY <1>1 DEF LearnsNewOnly, Fields
    <2>1. k \in 1..Len(Fields)
        BY ParsingAssumption DEF MemoryInvariant, Typing, Fields
    <2> QED
        BY <2>1, FieldLeaf DEF MemoryInvariant, Nothing
<1> QED
    BY <1>1, <1>3, <1>4 DEF MemoryInvariant, SessionStable

-----------------------------------------------------------------------------
(* The theorems. *)

LEMMA InitHolds ==
    ASSUME Init
    PROVE  MemoryInvariant
<1>1. paths \in Seq(Generators) /\ Len(paths) = 0 /\ data \in Values
    BY EmptySeq DEF Init, Values
<1>2. symbol \in 1..Len(Symbols) /\ Len(Fields) \in Nat
    BY ParsingAssumption DEF Init, Fields
<1>3. memory \in [Leafs -> Values \cup {None}] /\ before = memory
    BY ParsingAssumption DEF Init
<1> QED
    BY <1>1, <1>2, <1>3
        DEF Init, MemoryInvariant, Typing, SessionStable, LearnsNewOnly

\* Between any two steps of any parse, on every symbol and every data: the parser
\* stays within the data, and a generator that learns a session value was started
\* when the actor did not know it (AbstractVariableLeaf.parse, Data.learn).
THEOREM MemoryInvariantHolds == Spec => []MemoryInvariant
<1>1. Init => MemoryInvariant
    BY InitHolds
<1>2. MemoryInvariant /\ [Next]_vars => MemoryInvariant'
    <2> SUFFICES ASSUME MemoryInvariant, [Next]_vars
                 PROVE  MemoryInvariant'
        OBVIOUS
    <2>1. CASE EnterField
        BY <2>1, EnterFieldKeeps
    <2>2. CASE TrySize
        BY <2>2, TrySizeKeeps
    <2>3. CASE Backtrack
        BY <2>3, BacktrackKeeps
    <2>4. CASE Incomplete
        BY <2>4, IncompleteKeeps
    <2>5. CASE Accept
        BY <2>5, ReturnKeeps DEF Accept
    <2>6. CASE NextSymbol
        BY <2>6, NextSymbolKeeps
    <2>7. CASE ReturnUnknown
        BY <2>7, ReturnKeeps DEF ReturnUnknown
    <2>8. CASE Receive
        BY <2>8, ReceiveKeeps
    <2>9. CASE Write
        BY <2>9, WriteKeeps
    <2>10. CASE Reset
        BY <2>10, ResetKeeps
    <2>11. CASE UNCHANGED vars
        BY <2>11 DEF MemoryInvariant, Typing, SessionStable, LearnsNewOnly,
                     Fields, Rest, Consumed, vars
    <2> QED
        BY <2>1, <2>2, <2>3, <2>4, <2>5, <2>6, <2>7, <2>8, <2>9, <2>10, <2>11
            DEF Next, ParserStep
<1> QED
    BY <1>1, <1>2, PTL DEF Spec

\* A session value that was known when a message came is never replaced, whatever
\* the parser tries and abandons and whatever is written afterwards.
THEOREM SessionIsStable == Spec => []SessionStable
<1>1. MemoryInvariant => SessionStable
    BY DEF MemoryInvariant
<1> QED
    BY <1>1, MemoryInvariantHolds, PTL

-----------------------------------------------------------------------------
(* The invariant.                                                          *)

\* Where the part of field k ends.
EndOf(k) == IF k = 0 THEN 0 ELSE paths[k].at + paths[k].size

\* Generator k has yielded the path that the parser follows.  The last one has
\* not when the parser is back in it.
Settled(k) == phase = "field" \/ k < Len(paths)

\* Only the leafs that are memorized change while a message is read, and they
\* change to values of their domain.
Learned ==
    \A v \in Leafs :
        /\ memory[v] = before[v] \/ memory[v] \in Domain(v)
        /\ ~Memorizes(v) => memory[v] = before[v]

\* What is remembered was given, or is a value of the domain.
Given ==
    \A v \in Leafs :
        memory[v] \in Domain(v) \cup {m[v] : m \in Environments} \cup {None}

Idle == phase = "idle" => paths = <<>> /\ data = <<>> /\ symbol = 1

\* What generator k stands for: it was started where the one before it ends, as
\* the scope says, and its part of the data fits once it has yielded.
GeneratorFits(k) ==
    LET p == paths[k]
        v == Fields[k]
        c == SubSeq(data, p.at + 1, p.at + p.size)
    IN /\ p.at = EndOf(k - 1)
       /\ p.how = "learn" => Memorizes(v)
       /\ p.how = "domainCMP" => Scope[v] = "NONE"
       /\ p.how = "valueCMP" =>
             /\ Scope[v] \in {"SESSION", "CONSTANT"}
             /\ EndOf(k) <= Len(data)
             /\ IsDefined(v) /\ c = Expected(v)
       /\ p.how # "valueCMP" => p.size <= Greatest(v) + 1
       /\ Settled(k) =>
             /\ EndOf(k) <= Len(data)
             /\ p.how # "valueCMP" => c \in Domain(v)
             /\ p.how = "learn" => memory[v] = c

GeneratorsFit == \A k \in 1..Len(paths) : GeneratorFits(k)

ParserInvariant ==
    MemoryInvariant /\ Learned /\ Given /\ Idle /\ GeneratorsFit

\* The ways to cut content c into the fields of symbol i, for an actor that
\* remembers m.
Cuts(i, m, c) ==
    {b \in [0..Len(Symbols[i]) -> 0..Len(c)] :
        /\ b[0] = 0 /\ b[Len(Symbols[i])] = Len(c)
        /\ \A k \in 1..Len(Symbols[i]) :
              /\ b[k - 1] <= b[k]
              /\ Fits(m, Symbols[i][k], SubSeq(c, b[k - 1] + 1, b[k]))}

\* An actor that remembers m knows the session values of symbol i.
Knows(i, m) ==
    \A k \in 1..Len(Symbols[i]) :
        Scope[Symbols[i][k]] = "SESSION" =>
            m[Symbols[i][k]] # None \/ Constant[Symbols[i][k]] # None

\* Cut b and the generators agree on the first n fields.
Agree(b, n) == \A j \in 0..n : b[j] = EndOf(j)

\* Cut b is not one that the parser has passed by: at the first field where it
\* differs from the generators it gives less to the field.
Ahead(b, k) ==
    Agree(b, k - 1) =>
        /\ b[k] <= EndOf(k)
        /\ phase = "back" /\ k = Len(paths) => b[k] < EndOf(k)

\* The parser has passed by no cut that fits.
Explored ==
    phase # "idle" /\ Knows(symbol, before) =>
        \A b \in Cuts(symbol, before, data) :
            \A k \in 0..Len(paths) : Ahead(b, k)

\* The symbols that were refused do not fit.
Refuted ==
    \A i \in 1..(symbol - 1) : Knows(i, before) => Cuts(i, before, data) = {}

SearchInvariant == ParserInvariant /\ Explored /\ Refuted

\* An actor that remembers m would understand the message it has written.
EchoFits(m) ==
    echo # None =>
        \E i \in 1..Len(Symbols) : Knows(i, m) /\ Cuts(i, m, echo) # {}

\* The memories that an actor is given hold values of the domains of the leafs
\* whose value is learned with each message.
EnvironmentsFit ==
    \A m \in Environments :
        \A v \in Leafs : Scope[v] = "MESSAGE" => m[v] \in Domain(v) \cup {None}

EchoInvariant ==
    /\ EnvironmentsFit
    /\ SearchInvariant
    /\ EchoFits(IF phase = "idle" THEN memory ELSE before)

-----------------------------------------------------------------------------
(* Facts about generators.                                                 *)

LEMMA GeneratorTypes ==
    ASSUME Typing, NEW k \in 1..Len(paths)
    PROVE  /\ paths[k].at \in Nat /\ paths[k].size \in Nat
           /\ paths[k].how \in {"valueCMP", "learn", "domainCMP"}
           /\ k \in 1..Len(Fields) /\ Fields[k] \in Leafs
           /\ EndOf(k) = paths[k].at + paths[k].size /\ EndOf(k) \in Nat
           /\ EndOf(k) <= Len(data) + 1
<1>1. paths[k] \in Generators
    BY DEF Typing
<1>2. paths[k].at \in Nat /\ paths[k].size \in Nat
      /\ paths[k].how \in {"valueCMP", "learn", "domainCMP"}
    BY <1>1 DEF Generators
<1>3. Len(paths) \in Nat /\ Len(Fields) \in Nat /\ Len(paths) <= Len(Fields)
    BY ParsingAssumption DEF Typing, Fields
<1>4. k \in 1..Len(Fields)
    BY <1>3
<1>5. Fields[k] \in Leafs
    BY <1>4, FieldLeaf
<1>6. k # 0
    BY <1>3
<1>7. paths[k].at + paths[k].size <= Len(data) + 1
    BY DEF Typing
<1> QED
    BY <1>2, <1>4, <1>5, <1>6, <1>7 DEF EndOf

LEMMA Lengths ==
    ASSUME Typing
    PROVE  /\ Len(paths) \in Nat /\ Len(Fields) \in Nat \ {0} /\ Len(data) \in Nat
           /\ Len(paths) <= Len(Fields)
           /\ data \in Seq(Units)
BY ParsingAssumption DEF Typing, Fields, Values

\* The next field begins where the last one ends.
LEMMA ConsumedIsEnd ==
    ASSUME Typing
    PROVE  Consumed = EndOf(Len(paths)) /\ Consumed \in Nat
           /\ Rest = Len(data) - EndOf(Len(paths))
<1>1. CASE paths = <<>>
    BY <1>1 DEF Consumed, EndOf, Rest
<1>2. CASE paths # <<>>
    <2>1. Len(paths) \in 1..Len(paths) /\ Last(paths) = paths[Len(paths)]
        BY <1>2, LastPath, Lengths
    <2>2. Consumed = Last(paths).at + Last(paths).size
        BY <1>2 DEF Consumed
    <2> QED
        BY <2>1, <2>2, GeneratorTypes DEF Rest
<1> QED
    BY <1>1, <1>2

\* A leaf has one place in a symbol.
LEMMA OnePlace ==
    ASSUME Typing, NEW j \in 1..Len(Fields), NEW k \in 1..Len(Fields),
           Fields[j] = Fields[k]
    PROVE  j = k
<1>1. IsInjective(Fields) /\ Fields \in Seq(Leafs)
    BY ParsingAssumption DEF Typing, Fields
<1>2. DOMAIN Fields = 1..Len(Fields)
    BY <1>1
<1> QED
    BY <1>1, <1>2 DEF IsInjective

LEMMA PartLength ==
    ASSUME Typing, NEW at \in Nat, NEW size \in Nat, at + size <= Len(data)
    PROVE  Len(Part(at, size)) = size /\ Part(at, size) \in Values
<1>1. \A i \in (at + 1)..(at + size) : data[i] \in Units
    BY DEF Typing, Values
<1>2. Len(SubSeq(data, at + 1, at + size)) =
          IF at + 1 <= at + size THEN at + size - (at + 1) + 1 ELSE 0
    BY <1>1, SubSeqProperties
<1> QED
    BY <1>2, PartValues DEF Part

\* The type accepts what a generator tries, exactly when it is in the domain.
LEMMA AcceptedIsInDomain ==
    ASSUME NEW v \in Leafs, NEW c \in Values, Least(v) <= Len(c), Len(c) <= Greatest(v)
    PROVE  CanParse(v, c) <=> c \in Domain(v)
<1>1. Len(c) \in Nat /\ c \in [1..Len(c) -> Units]
    BY DEF Values
<1>2. CASE Constant[v] # None
    <2>1. Constant[v] \in Values /\ Len(c) = Len(Constant[v])
        BY <1>1, <1>2, ParsingAssumption DEF Least, Greatest, Values
    <2>2. c = <<>> => c = Constant[v]
        BY <2>1 DEF Values
    <2> QED
        BY <1>2, <2>2 DEF CanParse, Domain
<1>3. CASE Constant[v] = None
    <2>1. Len(c) \in MinSize[v]..MaxSize[v]
        BY <1>1, <1>3, ParsingAssumption DEF Least, Greatest
    <2>2. c = <<>> => c \in [1..Len(c) -> Alphabet[v]]
        BY <1>1
    <2>3. ToSet(c) \subseteq Alphabet[v] <=> c \in [1..Len(c) -> Alphabet[v]]
        BY <1>1 DEF ToSet
    <2>4. CanParse(v, c) <=> c \in [1..Len(c) -> Alphabet[v]]
        BY <1>3, <2>2, <2>3 DEF CanParse
    <2>5. ASSUME NEW n \in MinSize[v]..MaxSize[v], c \in [1..n -> Alphabet[v]]
          PROVE  n = Len(c)
        <3>1. n \in Nat
            BY ParsingAssumption
        <3>2. DOMAIN c = 1..n /\ DOMAIN c = 1..Len(c)
            BY <1>1, <2>5
        <3> QED
            BY <1>1, <3>1, <3>2
    <2>6. c \in Domain(v) <=> c \in [1..Len(c) -> Alphabet[v]]
        BY <1>3, <2>1, <2>5 DEF Domain
    <2> QED
        BY <2>4, <2>6
<1> QED
    BY <1>2, <1>3

\* The sizes of the values of a domain.
LEMMA DomainSizes ==
    ASSUME NEW v \in Leafs, NEW c \in Domain(v)
    PROVE  Least(v) <= Len(c) /\ Len(c) <= Greatest(v)
<1>1. CASE Constant[v] # None
    <2>1. c = Constant[v] /\ Len(c) \in Nat
        BY <1>1, ParsingAssumption DEF Domain, Values
    <2> QED
        BY <1>1, <2>1 DEF Least, Greatest
<1>2. CASE Constant[v] = None
    <2>1. PICK n \in MinSize[v]..MaxSize[v] : c \in [1..n -> Alphabet[v]]
        BY <1>2 DEF Domain
    <2>2. n \in Nat /\ MinSize[v] <= n /\ n <= MaxSize[v]
        BY ParsingAssumption
    <2>3. Len(c) = n
        BY <2>1, <2>2
    <2> QED
        BY <1>2, <2>2, <2>3 DEF Least, Greatest
<1> QED
    BY <1>1, <1>2

-----------------------------------------------------------------------------
(* Every step keeps the invariant of the generators.                       *)

\* A generator that a step leaves where it is still stands for the same.
LEMMA GeneratorKept ==
    ASSUME Typing, NEW k \in 1..Len(paths), GeneratorFits(k),
           paths'[k] = paths[k], k > 1 => paths'[k - 1] = paths[k - 1],
           Settled(k)' => Settled(k),
           memory'[Fields[k]] = memory[Fields[k]],
           UNCHANGED <<data, symbol>>
    PROVE  GeneratorFits(k)'
<1>1. k \in Nat /\ k >= 1
    BY Lengths
<1>2. EndOf(k)' = EndOf(k) /\ EndOf(k - 1)' = EndOf(k - 1)
    BY <1>1 DEF EndOf
<1>3. Fields' = Fields
    BY DEF Fields
<1> QED
    BY <1>2, <1>3 DEF GeneratorFits, Expected, IsDefined

LEMMA MemoryKept ==
    ASSUME Learned, Given, UNCHANGED <<memory, before>>
    PROVE  Learned' /\ Given'
BY DEF Learned, Given

\* A generator is appended; the others have yielded.
LEMMA PushKeepsFit ==
    ASSUME Typing, GeneratorsFit, phase = "field", NEW g \in Generators,
           NEW n \in Nat, n = Len(paths),
           paths' = Append(paths, g), GeneratorFits(n + 1)',
           UNCHANGED <<memory, data, symbol>>
    PROVE  GeneratorsFit'
<1>1. /\ Len(paths') = n + 1
      /\ \A k \in 1..n : paths'[k] = paths[k]
    BY AppendProperties DEF Typing
<1>2. ASSUME NEW k \in 1..n PROVE GeneratorFits(k)'
    <2>1. paths'[k] = paths[k] /\ (k > 1 => paths'[k - 1] = paths[k - 1])
        BY <1>1
    <2>2. Settled(k)
        BY DEF Settled
    <2> QED
        BY <2>1, <2>2, GeneratorKept DEF GeneratorsFit
<1>3. \A k \in 1..Len(paths') : k \in 1..n \/ k = n + 1
    BY <1>1
<1> QED
    BY <1>2, <1>3 DEF GeneratorsFit

\* The generator of the next field: a comparison that has yielded, or a search
\* that has not tried a size yet.
LEMMA NewGeneratorFits ==
    ASSUME Typing, GeneratorsFit, phase = "field",
           NEW n \in Nat, n = Len(paths), n < Len(Fields),
           NEW v \in Leafs, v = Fields[n + 1],
           NEW size \in Nat, NEW how \in {"valueCMP", "learn", "domainCMP"},
           paths' = Append(paths, Path(Consumed, size, how)),
           UNCHANGED <<memory, data, symbol>>,
           how = "valueCMP" => /\ Scope[v] \in {"SESSION", "CONSTANT"}
                               /\ IsDefined(v)
                               /\ Begins(Expected(v)) /\ size = Len(Expected(v)),
           how = "learn" => Memorizes(v),
           how = "domainCMP" => Scope[v] = "NONE",
           how # "valueCMP" => size <= Greatest(v) + 1 /\ phase' = "back"
    PROVE  GeneratorsFit'
<1>1. PICK at \in Nat : at = Consumed /\ at = EndOf(n) /\ Rest = Len(data) - at
    BY ConsumedIsEnd
<1> DEFINE g == Path(at, size, how)
<1>2. g \in Generators /\ g.at = at /\ g.size = size /\ g.how = how
    BY DEF Path, Generators
<1>3. paths' = Append(paths, g)
    BY <1>1
<1> HIDE DEF g
<1>4. /\ paths'[n + 1] = g /\ Len(paths') = n + 1
      /\ \A k \in 1..n : paths'[k] = paths[k]
    BY <1>2, <1>3, AppendProperties DEF Typing
<1>5. EndOf(n)' = EndOf(n)
    BY <1>4 DEF EndOf
<1>6. EndOf(n + 1)' = at + size
    BY <1>2, <1>4 DEF EndOf
<1>7. Fields' = Fields
    BY DEF Fields
<1>8. EndOf(n + 1 - 1)' = at
    BY <1>1, <1>5
<1>9. Settled(n + 1)' => phase' = "field"
    BY <1>4 DEF Settled
<1>10. how = "valueCMP" => /\ at + size <= Len(data)
                           /\ SubSeq(data, at + 1, at + size) = Expected(v)
    <2> SUFFICES ASSUME how = "valueCMP"
                 PROVE  /\ at + size <= Len(data)
                        /\ SubSeq(data, at + 1, at + size) = Expected(v)
        OBVIOUS
    <2>1. size <= Rest /\ Part(at, size) = Expected(v)
        BY <1>1 DEF Begins
    <2> QED
        <3>1. Len(data) \in Nat
            BY Lengths
        <3>2. at + size <= Len(data)
            BY <1>1, <2>1, <3>1
        <3>3. SubSeq(data, at + 1, at + size) = Expected(v)
            BY <2>1 DEF Part
        <3> QED
            BY <3>2, <3>3
<1>11. Expected(v)' = Expected(v) /\ IsDefined(v)' = IsDefined(v)
    BY DEF Expected, IsDefined
<1>12. /\ paths'[n + 1].at = at /\ paths'[n + 1].size = size
       /\ paths'[n + 1].how = how /\ Fields'[n + 1] = v
    BY <1>2, <1>4, <1>7
<1>13. GeneratorFits(n + 1)'
    BY <1>6, <1>8, <1>9, <1>10, <1>11, <1>12 DEF GeneratorFits, Expected, IsDefined
<1> QED
    BY <1>2, <1>3, <1>13, PushKeepsFit

LEMMA EnterFieldFits ==
    ASSUME ParserInvariant, EnterField
    PROVE  ParserInvariant'
<1>1. PICK n \in Nat : n = Len(paths)
    BY Lengths DEF ParserInvariant, MemoryInvariant
<1>2. /\ Typing /\ GeneratorsFit /\ phase = "field" /\ n < Len(Fields)
      /\ UNCHANGED <<memory, data, symbol, before>>
    BY <1>1 DEF ParserInvariant, MemoryInvariant, EnterField
<1>3. PICK v \in Leafs : v = Fields[n + 1]
    BY <1>1, <1>2, Lengths, FieldLeaf
<1> DEFINE how == How(v)
           e   == Expected(v)
           top == IF Greatest(v) < Rest THEN Greatest(v) ELSE Rest
<1>4. Rest \in Nat
    BY <1>2, ConsumedIsEnd, Lengths DEF Typing
<1>5. MemoryInvariant' /\ Learned' /\ Given'
    BY <1>2, EnterFieldKeeps, MemoryKept DEF ParserInvariant
<1>6. Idle'
    BY DEF EnterField, Idle
<1>7. /\ how \in {"valueCMP", "learn", "domainCMP", "none"}
      /\ how = "valueCMP" => Scope[v] \in {"SESSION", "CONSTANT"} /\ IsDefined(v)
      /\ how = "learn" => Memorizes(v)
      /\ how = "domainCMP" => Scope[v] = "NONE"
    <2>1. Scope[v] \in {"CONSTANT", "SESSION", "MESSAGE", "NONE"}
        BY ParsingAssumption
    <2>2. ~IsDefined(v) => Constant[v] = None
        BY DEF IsDefined, Expected
    <2> QED
        BY <2>1, <2>2 DEF How, Memorizes
<1> HIDE DEF how
<1>8. CASE paths' = paths /\ phase' = "back"
    <2>1. ASSUME NEW k \in 1..Len(paths) PROVE GeneratorFits(k)'
        BY <1>2, <1>8, <2>1, GeneratorKept DEF GeneratorsFit, Settled
    <2> QED
        BY <1>5, <1>6, <1>8, <2>1 DEF ParserInvariant, GeneratorsFit
<1>9. CASE /\ how = "valueCMP" /\ Begins(e)
           /\ paths' = Append(paths, Path(Consumed, Len(e), how))
    <2>1. Len(e) \in Nat
        BY <1>2, <1>7, <1>9, ExpectedValues DEF IsDefined, Values
    <2>2. GeneratorsFit'
        BY <1>1, <1>2, <1>3, <1>7, <1>9, <2>1, NewGeneratorFits
    <2> QED
        BY <1>5, <1>6, <2>2 DEF ParserInvariant
<1>10. CASE /\ how \in {"learn", "domainCMP"}
            /\ paths' = Append(paths, Path(Consumed, top + 1, how))
            /\ phase' = "back"
    <2>1. top + 1 \in Nat /\ top + 1 <= Greatest(v) + 1
        BY <1>4, LeastNat
    <2> HIDE DEF top
    <2>2. GeneratorsFit'
        BY <1>1, <1>2, <1>3, <1>7, <1>10, <2>1, NewGeneratorFits
    <2> QED
        BY <1>5, <1>6, <2>2 DEF ParserInvariant
<1> QED
    BY <1>1, <1>3, <1>8, <1>9, <1>10 DEF EnterField, how

\* A search that yields has found a value of the domain.
LEMMA TrySizeFits ==
    ASSUME ParserInvariant, TrySize
    PROVE  ParserInvariant'
<1>1. Typing /\ GeneratorsFit /\ paths # <<>> /\ phase = "back"
    BY DEF ParserInvariant, MemoryInvariant, TrySize
<1>2. PICK n \in 1..Len(Fields) : n = Len(paths) /\ n \in 1..Len(paths)
    BY <1>1, LastPath, Lengths
<1>3. PICK p \in Generators : p = paths[n] /\ p = Last(paths)
    BY <1>1, <1>2, LastPath
<1>4. PICK v \in Leafs : v = Fields[n]
    BY <1>2, <1>1, FieldLeaf
<1>5. /\ p.at \in Nat /\ p.size \in Nat /\ p.at + p.size <= Len(data) + 1
      /\ Len(data) \in Nat /\ n \in Nat /\ n # 0
    <2>1. Len(data) \in Nat /\ n \in Nat /\ n # 0
        BY <1>1, <1>2, Lengths
    <2>2. paths[n].at \in Nat /\ paths[n].size \in Nat
        BY <1>1, <1>2, GeneratorTypes
    <2>3. paths[n].at + paths[n].size <= Len(data) + 1
        BY <1>1, <1>2 DEF Typing
    <2> QED
        BY <1>3, <2>1, <2>2, <2>3
<1>6. /\ p.how # "valueCMP" /\ p.size > Least(v)
      /\ paths' = [paths EXCEPT ![n].size = p.size - 1]
      /\ UNCHANGED <<data, symbol, before>>
    BY <1>2, <1>3, <1>4 DEF TrySize
<1>7. PICK size \in Nat : size = p.size - 1
    BY <1>4, <1>5, <1>6, LeastNat
<1>8. PICK c : c = SubSeq(data, p.at + 1, p.at + size)
    OBVIOUS
<1>9. c \in Values /\ Len(c) = size /\ p.at + size <= Len(data)
    <2>1. p.at + size <= Len(data)
        BY <1>5, <1>7
    <2>2. c = Part(p.at, size)
        BY <1>8 DEF Part
    <2> QED
        BY <1>1, <1>5, <2>1, <2>2, PartLength
<1>10. \/ /\ CanParse(v, c) /\ phase' = "field"
          /\ memory' = IF p.how = "learn" THEN [memory EXCEPT ![v] = c] ELSE memory
       \/ /\ memory' = memory /\ phase' = "back"
    BY <1>1, <1>2, <1>3, <1>4, <1>7, <1>8 DEF TrySize, Part
<1>11. /\ p.at = EndOf(n - 1)
       /\ p.how = "learn" => Memorizes(v)
       /\ p.how = "domainCMP" => Scope[v] = "NONE"
       /\ p.size <= Greatest(v) + 1
    BY <1>1, <1>2, <1>3, <1>4, <1>6 DEF GeneratorsFit, GeneratorFits
<1>12. Least(v) <= size /\ size <= Greatest(v)
    <2>1. Least(v) \in Nat /\ Greatest(v) \in Nat
        BY LeastNat
    <2>2. p.size > Least(v) /\ p.size <= Greatest(v) + 1 /\ p.size \in Nat
        BY <1>5, <1>6, <1>11
    <2> QED
        BY <1>7, <2>1, <2>2
<1>13. phase' = "field" => c \in Domain(v)
    BY <1>9, <1>10, <1>12, AcceptedIsInDomain
<1>14. MemoryInvariant'
    BY TrySizeKeeps DEF ParserInvariant
<1>15. memory \in [Leafs -> Values \cup {None}]
    BY <1>1 DEF Typing
<1>16. \A w \in Leafs : \/ memory'[w] = memory[w]
                        \/ /\ w = v /\ p.how = "learn" /\ phase' = "field"
                           /\ memory'[w] = c
    BY <1>10, <1>15
<1>17. Learned' /\ Given'
    BY <1>6, <1>11, <1>13, <1>16 DEF ParserInvariant, Learned, Given, Memorizes
<1>18. Idle'
    BY <1>10 DEF Idle
<1>19. /\ Len(paths') = Len(paths)
       /\ paths'[n] = [p EXCEPT !.size = size]
       /\ \A k \in 1..Len(paths) : k # n => paths'[k] = paths[k]
    <2>1. [p EXCEPT !.size = size] \in Generators
        BY <1>7 DEF Generators
    <2>2. paths' = [paths EXCEPT ![n] = [p EXCEPT !.size = size]]
        BY <1>3, <1>6, <1>7
    <2> QED
        BY <1>1, <1>2, <2>1, <2>2, ExceptSeq DEF Typing
<1>20. /\ paths'[n].at = p.at /\ paths'[n].size = size /\ paths'[n].how = p.how
    BY <1>19 DEF Generators
<1>21. Fields' = Fields
    BY <1>6 DEF Fields
<1>22. ASSUME NEW k \in 1..Len(paths), k # n
       PROVE  GeneratorFits(k)'
    <2>1. k < n /\ k \in Nat
        BY <1>2, <1>5, <1>22
    <2>2. paths'[k] = paths[k] /\ (k > 1 => paths'[k - 1] = paths[k - 1])
        BY <1>2, <1>19, <2>1
    <2>3. k \in 1..Len(Fields) /\ Fields[k] \in Leafs
        BY <1>1, GeneratorTypes
    <2>4. Fields[k] # v
        BY <1>1, <1>4, <1>22, <2>3, OnePlace
    <2>5. memory'[Fields[k]] = memory[Fields[k]]
        BY <1>16, <2>3, <2>4
    <2>6. Settled(k)
        BY <1>2, <2>1 DEF Settled
    <2> QED
        BY <1>1, <1>6, <2>2, <2>5, <2>6, GeneratorKept DEF GeneratorsFit
<1>23. GeneratorFits(n)'
    <2>1. EndOf(n)' = p.at + size
        BY <1>5, <1>20 DEF EndOf
    <2>2. EndOf(n - 1)' = p.at
        <3>1. EndOf(n - 1)' = EndOf(n - 1)
            <4>1. CASE n = 1
                BY <4>1 DEF EndOf
            <4>2. CASE n # 1
                <5>1. n - 1 \in 1..Len(paths) /\ n - 1 # n /\ n - 1 # 0
                    BY <1>2, <1>5, <4>2
                <5>2. paths'[n - 1] = paths[n - 1]
                    BY <1>19, <5>1
                <5> QED
                    BY <5>1, <5>2 DEF EndOf
            <4> QED
                BY <4>1, <4>2
        <3> QED
            BY <1>11, <3>1
    <2>3. Settled(n)' => phase' = "field"
        BY <1>2, <1>5, <1>19 DEF Settled
    <2>4. phase' = "field" /\ p.how = "learn" => memory'[v] = c
        BY <1>10, <1>15
    <2>5. size <= Greatest(v) + 1
        BY <1>4, <1>12, LeastNat
    <2>6. Fields'[n] = v
        BY <1>4, <1>21
    <2> QED
        BY <1>6, <1>8, <1>9, <1>11, <1>13, <1>20, <2>1, <2>2, <2>3, <2>4, <2>5, <2>6
            DEF GeneratorFits
<1>24. GeneratorsFit'
    BY <1>19, <1>22, <1>23 DEF GeneratorsFit
<1> QED
    BY <1>14, <1>17, <1>18, <1>24 DEF ParserInvariant

\* Leaving the last generator leaves the others.
LEMMA Popped ==
    ASSUME Typing, paths # <<>>, paths' = Front(paths)
    PROVE  /\ Len(paths') = Len(paths) - 1
           /\ \A k \in 1..Len(paths') : paths'[k] = paths[k]
<1>1. PICK m \in Nat : m = Len(paths) - 1
    BY LastPath, Lengths
<1>2. paths' = SubSeq(paths, 1, m)
    BY <1>1 DEF Front
<1>3. \A k \in 1..m : paths[k] \in Generators
    BY <1>1 DEF Typing
<1>4. /\ Len(paths') = IF 1 <= m THEN m - 1 + 1 ELSE 0
      /\ \A k \in 1..(m - 1 + 1) : paths'[k] = paths[1 + k - 1]
    BY <1>2, <1>3, SubSeqProperties
<1>5. Len(paths') = m
    BY <1>4
<1>6. ASSUME NEW k \in 1..m PROVE paths'[k] = paths[k]
    <2>1. k \in 1..(m - 1 + 1) /\ 1 + k - 1 = k
        OBVIOUS
    <2> QED
        BY <1>4, <2>1
<1> QED
    BY <1>1, <1>5, <1>6

LEMMA BacktrackFits ==
    ASSUME ParserInvariant, Backtrack
    PROVE  ParserInvariant'
<1>1. /\ Typing /\ GeneratorsFit /\ paths # <<>> /\ paths' = Front(paths)
      /\ phase = "back" /\ phase' = "back"
      /\ UNCHANGED <<memory, data, symbol, before>>
    BY DEF ParserInvariant, MemoryInvariant, Backtrack
<1>2. /\ Len(paths') = Len(paths) - 1 /\ Len(paths) \in Nat
      /\ \A k \in 1..Len(paths') : paths'[k] = paths[k]
    BY <1>1, Popped, Lengths
<1>3. ASSUME NEW k \in 1..Len(paths') PROVE GeneratorFits(k)'
    <2>1. k \in 1..Len(paths) /\ paths'[k] = paths[k]
          /\ (k > 1 => paths'[k - 1] = paths[k - 1])
        BY <1>2
    <2>2. Settled(k)
        BY <1>2 DEF Settled
    <2> QED
        BY <1>1, <2>1, <2>2, GeneratorKept DEF GeneratorsFit
<1> QED
    BY <1>1, <1>3, BacktrackKeeps, MemoryKept
        DEF ParserInvariant, GeneratorsFit, Idle

LEMMA IncompleteFits ==
    ASSUME ParserInvariant, Incomplete
    PROVE  ParserInvariant'
<1>1. /\ Typing /\ GeneratorsFit /\ phase = "field" /\ phase' = "back"
      /\ UNCHANGED <<memory, data, symbol, paths, before>>
    BY DEF ParserInvariant, MemoryInvariant, Incomplete, Complete
<1>2. ASSUME NEW k \in 1..Len(paths) PROVE GeneratorFits(k)'
    BY <1>1, GeneratorKept DEF GeneratorsFit, Settled
<1> QED
    BY <1>1, <1>2, IncompleteKeeps, MemoryKept
        DEF ParserInvariant, GeneratorsFit, Idle

LEMMA ReturnFits ==
    ASSUME ParserInvariant, Return, UNCHANGED <<memory, before>>
    PROVE  ParserInvariant'
<1>1. GeneratorsFit' /\ Idle'
    BY DEF Return, GeneratorsFit, Idle
<1> QED
    BY <1>1, ReturnKeeps, MemoryKept DEF ParserInvariant

LEMMA NextSymbolFits ==
    ASSUME ParserInvariant, NextSymbol
    PROVE  ParserInvariant'
<1>1. GeneratorsFit' /\ Idle'
    BY DEF NextSymbol, Refusing, GeneratorsFit, Idle
<1>2. UNCHANGED <<memory, before>>
    BY DEF NextSymbol
<1> QED
    BY <1>1, <1>2, NextSymbolKeeps, MemoryKept DEF ParserInvariant

LEMMA ReceiveFits ==
    ASSUME ParserInvariant, Receive
    PROVE  ParserInvariant'
<1>1. GeneratorsFit' /\ Idle'
    BY DEF Receive, GeneratorsFit, Idle
<1>2. Learned' /\ Given'
    BY DEF Receive, ParserInvariant, Learned, Given
<1> QED
    BY <1>1, <1>2, ReceiveKeeps DEF ParserInvariant

\* What is memorized when a symbol is written was remembered already, or is a
\* value of the domain.
LEMMA EmitsDomain ==
    ASSUME NEW v \in Leafs, NEW c \in Emits(v)
    PROVE  c \in Domain(v) \/ (memory[v] # None /\ c = memory[v])
<1>1. CASE Scope[v] # "NONE" /\ IsDefined(v) /\ memory[v] = None
    BY <1>1 DEF Emits, IsDefined, Expected, Domain
<1>2. CASE Scope[v] # "NONE" /\ IsDefined(v) /\ memory[v] # None
    BY <1>2 DEF Emits, Expected
<1>3. CASE Scope[v] = "NONE" \/ ~IsDefined(v)
    BY <1>3 DEF Emits
<1> QED
    BY <1>1, <1>2, <1>3

\* What a write does to the memory and to the message that is remembered.
LEMMA WriteFacts ==
    ASSUME Write
    PROVE  \E i \in 1..Len(Symbols) : \E done, g :
              /\ \A v \in done : g[v] \in Emits(v)
              /\ memory' = [v \in Leafs |-> IF v \in done /\ Memorizes(v)
                                            THEN g[v] ELSE memory[v]]
              /\ \/ echo' = echo
                 \/ /\ done = {Symbols[i][k] : k \in 1..Len(Symbols[i])}
                    /\ echo' = Content(i, g)
<1>1. PICK i \in 1..Len(Symbols) :
         \E n \in 0..Len(Symbols[i]) :
         LET done == {Symbols[i][k] : k \in 1..n}
         IN /\ \A v \in done : Emits(v) # {}
            /\ n < Len(Symbols[i]) => Emits(Symbols[i][n + 1]) = {}
            /\ \E g \in [done -> UNION {Emits(v) : v \in done}] :
                  /\ \A v \in done : g[v] \in Emits(v)
                  /\ memory' = [v \in Leafs |-> IF v \in done /\ Memorizes(v)
                                                THEN g[v] ELSE memory[v]]
                  /\ echo' \in {echo} \cup (IF n = Len(Symbols[i])
                                            THEN {Content(i, g)} ELSE {})
    BY Zenon DEF Write
<1>2. PICK n \in 0..Len(Symbols[i]) :
         LET done == {Symbols[i][k] : k \in 1..n}
         IN \E g \in [done -> UNION {Emits(v) : v \in done}] :
               /\ \A v \in done : g[v] \in Emits(v)
               /\ memory' = [v \in Leafs |-> IF v \in done /\ Memorizes(v)
                                             THEN g[v] ELSE memory[v]]
               /\ echo' \in {echo} \cup (IF n = Len(Symbols[i])
                                         THEN {Content(i, g)} ELSE {})
    BY <1>1, Zenon
<1> DEFINE done == {Symbols[i][k] : k \in 1..n}
<1>3. PICK g : /\ \A v \in done : g[v] \in Emits(v)
               /\ memory' = [v \in Leafs |-> IF v \in done /\ Memorizes(v)
                                             THEN g[v] ELSE memory[v]]
               /\ echo' \in {echo} \cup (IF n = Len(Symbols[i])
                                         THEN {Content(i, g)} ELSE {})
    BY <1>2
<1>4. echo' = echo \/ (n = Len(Symbols[i]) /\ echo' = Content(i, g))
    BY <1>3
<1>5. n = Len(Symbols[i]) => done = {Symbols[i][k] : k \in 1..Len(Symbols[i])}
    OBVIOUS
<1> HIDE DEF done
<1> QED
    BY <1>3, <1>4, <1>5

LEMMA WriteFits ==
    ASSUME ParserInvariant, Write
    PROVE  ParserInvariant'
<1>1. /\ phase = "idle" /\ paths = <<>>
      /\ UNCHANGED <<data, symbol, paths, phase, before>>
    BY DEF ParserInvariant, Write, Idle
<1>2. PICK done, g :
        /\ \A v \in done : g[v] \in Emits(v)
        /\ memory' = [v \in Leafs |-> IF v \in done /\ Memorizes(v)
                                      THEN g[v] ELSE memory[v]]
    BY WriteFacts
<1>3. \A v \in Leafs : \/ memory'[v] = memory[v]
                       \/ Memorizes(v) /\ memory'[v] \in Emits(v)
    BY <1>2
<1>4. \A v \in Leafs : \/ memory'[v] = memory[v]
                       \/ Memorizes(v) /\ memory'[v] \in Domain(v)
    BY <1>3, EmitsDomain
<1>5. Learned' /\ Given'
    BY <1>1, <1>4 DEF ParserInvariant, Learned, Given, Memorizes, Domain
<1>6. GeneratorsFit' /\ Idle'
    BY <1>1 DEF ParserInvariant, GeneratorsFit, Idle
<1> QED
    BY <1>5, <1>6, WriteKeeps DEF ParserInvariant

LEMMA ResetFits ==
    ASSUME ParserInvariant, Reset
    PROVE  ParserInvariant'
<1>1. GeneratorsFit' /\ Idle'
    BY DEF Reset, ParserInvariant, GeneratorsFit, Idle
<1>2. Learned' /\ Given'
    BY DEF Reset, Learned, Given, Nothing
<1> QED
    BY <1>1, <1>2, ResetKeeps DEF ParserInvariant

LEMMA ParserInit ==
    ASSUME Init
    PROVE  ParserInvariant
<1>1. Learned /\ Given /\ Idle /\ GeneratorsFit
    BY DEF Init, Learned, Given, Idle, GeneratorsFit
<1> QED
    BY <1>1, InitHolds DEF ParserInvariant

LEMMA ParserStutter ==
    ASSUME ParserInvariant, UNCHANGED vars
    PROVE  ParserInvariant'
<1>1. MemoryInvariant'
    BY DEF ParserInvariant, MemoryInvariant, Typing, SessionStable, LearnsNewOnly,
           Fields, Rest, Consumed, vars
<1>2. ASSUME NEW k \in 1..Len(paths) PROVE GeneratorFits(k)'
    BY GeneratorKept DEF ParserInvariant, MemoryInvariant, GeneratorsFit, Settled, vars
<1> QED
    BY <1>1, <1>2, MemoryKept DEF ParserInvariant, GeneratorsFit, Idle, vars

LEMMA ParserStepFits ==
    ASSUME ParserInvariant, [Next]_vars
    PROVE  ParserInvariant'
<1>1. CASE Accept
    BY <1>1, ReturnFits DEF Accept
<1>2. CASE ReturnUnknown
    BY <1>2, ReturnFits DEF ReturnUnknown
<1> QED
    BY <1>1, <1>2, EnterFieldFits, TrySizeFits, BacktrackFits, IncompleteFits,
       NextSymbolFits, ReceiveFits, WriteFits, ResetFits, ParserStutter
        DEF Next, ParserStep

-----------------------------------------------------------------------------
(* An accepted message fits.                                               *)

\* What a generator has yielded fits its leaf, for an actor that remembers what
\* this one remembered when the read began.
LEMMA SettledPartFits ==
    ASSUME ParserInvariant, NEW k \in 1..Len(paths), Settled(k)
    PROVE  Fits(before, Fields[k], SubSeq(data, EndOf(k - 1) + 1, EndOf(k)))
<1>1. PICK v \in Leafs : v = Fields[k]
    BY GeneratorTypes DEF ParserInvariant, MemoryInvariant
<1>2. PICK c : c = SubSeq(data, EndOf(k - 1) + 1, EndOf(k))
    OBVIOUS
<1>3. /\ paths[k].how = "learn" => Memorizes(v)
      /\ paths[k].how = "domainCMP" => Scope[v] = "NONE"
      /\ paths[k].how = "valueCMP" => /\ Scope[v] \in {"SESSION", "CONSTANT"}
                                      /\ IsDefined(v) /\ c = Expected(v)
      /\ paths[k].how # "valueCMP" => c \in Domain(v)
    <2>1. EndOf(k) = paths[k].at + paths[k].size
        BY GeneratorTypes DEF ParserInvariant, MemoryInvariant
    <2>2. GeneratorFits(k)
        BY DEF ParserInvariant, GeneratorsFit
    <2>3. paths[k].at = EndOf(k - 1)
        BY <2>2 DEF GeneratorFits
    <2>4. c = SubSeq(data, paths[k].at + 1, paths[k].at + paths[k].size)
        BY <1>2, <2>1, <2>3
    <2> QED
        BY <1>1, <2>2, <2>4 DEF GeneratorFits
<1>4. /\ memory[v] = before[v] \/ memory[v] \in Domain(v)
      /\ ~Memorizes(v) => memory[v] = before[v]
      /\ Scope[v] = "SESSION" /\ before[v] # None => memory[v] = before[v]
    BY DEF ParserInvariant, MemoryInvariant, Learned, SessionStable
<1>5. CASE paths[k].how = "valueCMP"
    <2>1. CASE before[v] # None
        <3>1. memory[v] = before[v]
            BY <1>3, <1>4, <1>5, <2>1 DEF Memorizes
        <3> QED
            BY <1>1, <1>2, <1>3, <1>5, <2>1, <3>1 DEF Fits, Expected
    <2>2. CASE before[v] = None /\ Constant[v] # None
        <3>1. memory[v] = None
            BY <1>3, <1>4, <1>5, <2>2 DEF Memorizes
        <3> QED
            BY <1>1, <1>2, <1>3, <1>5, <2>2, <3>1 DEF Fits, Expected
    <2>3. CASE before[v] = None /\ Constant[v] = None
        <3>1. c = memory[v] /\ memory[v] # None
            BY <1>3, <1>5, <2>3 DEF Expected, IsDefined
        <3>2. c \in Domain(v) /\ Scope[v] # "CONSTANT"
            BY <1>4, <2>3, <3>1 DEF Memorizes
        <3> QED
            BY <1>1, <1>2, <2>3, <3>2 DEF Fits
    <2> QED
        BY <2>1, <2>2, <2>3
<1>6. CASE paths[k].how = "learn"
    <2>1. Scope[v] = "SESSION" => before[v] = None
        BY <1>1, <1>6 DEF ParserInvariant, MemoryInvariant, LearnsNewOnly
    <2>2. Scope[v] = "MESSAGE" \/ Scope[v] = "SESSION"
        BY <1>3, <1>6 DEF Memorizes
    <2>3. Constant[v] # None => c = Constant[v]
        BY <1>3, <1>6 DEF Domain
    <2> QED
        BY <1>1, <1>2, <1>3, <1>6, <2>1, <2>2, <2>3 DEF Fits
<1>7. CASE paths[k].how = "domainCMP"
    <2>1. Constant[v] # None => c = Constant[v]
        BY <1>3, <1>7 DEF Domain
    <2> QED
        BY <1>1, <1>2, <1>3, <1>7, <2>1 DEF Fits
<1> QED
    BY <1>5, <1>6, <1>7, GeneratorTypes DEF ParserInvariant, MemoryInvariant

LEMMA CutIsEnds ==
    ASSUME Typing
    PROVE  /\ DOMAIN Cut = 0..Len(paths)
           /\ \A k \in 0..Len(paths) : Cut[k] = EndOf(k)
BY DEF Cut, EndOf

\* Where the generators that have yielded end.
LEMMA SettledEnds ==
    ASSUME ParserInvariant, NEW k \in 1..Len(paths), Settled(k)
    PROVE  /\ EndOf(k) \in 0..Len(data) /\ EndOf(k - 1) \in Nat
           /\ EndOf(k - 1) <= EndOf(k)
<1>1. Typing /\ GeneratorFits(k)
    BY DEF ParserInvariant, MemoryInvariant, GeneratorsFit
<1>2. paths[k].at = EndOf(k - 1) /\ EndOf(k) <= Len(data)
    BY <1>1 DEF GeneratorFits
<1> QED
    BY <1>1, <1>2, GeneratorTypes, Lengths

LEMMA AcceptingFits ==
    ASSUME ParserInvariant
    PROVE  AcceptedFits
<1> SUFFICES ASSUME Accepting
             PROVE  Cut \in Alignments(before)
    BY DEF AcceptedFits
<1>1. Typing /\ phase = "field" /\ Len(paths) = Len(Fields) /\ Rest = 0
    BY DEF ParserInvariant, MemoryInvariant, Accepting, Complete
<1>2. PICK n \in Nat \ {0} : n = Len(paths) /\ n = Len(Fields)
    BY <1>1, Lengths
<1>3. \A k \in 1..n : Settled(k)
    BY <1>1 DEF Settled
<1>4. /\ DOMAIN Cut = 0..n /\ \A k \in 0..n : Cut[k] = EndOf(k)
      /\ Cut = [k \in 0..n |-> Cut[k]]
    BY <1>1, <1>2, CutIsEnds DEF Cut
<1>5. EndOf(0) = 0 /\ Len(data) \in Nat
    BY <1>1, Lengths DEF EndOf
<1>6. EndOf(n) = Len(data)
    <2>1. EndOf(n) \in Nat
        BY <1>1, <1>2, ConsumedIsEnd
    <2> QED
        BY <1>1, <1>2, <1>5, <2>1, ConsumedIsEnd
<1>7. \A k \in 0..n : Cut[k] \in 0..Len(data)
    <2>1. \A k \in 1..n : EndOf(k) \in 0..Len(data)
        BY <1>2, <1>3, SettledEnds
    <2>2. \A k \in 0..n : k = 0 \/ k \in 1..n
        OBVIOUS
    <2> QED
        BY <1>4, <1>5, <2>1, <2>2
<1>8. Cut \in [0..n -> 0..Len(data)]
    BY <1>4, <1>7
<1>9. ASSUME NEW k \in 1..n
      PROVE  /\ Cut[k - 1] <= Cut[k]
             /\ Fits(before, Fields[k], Part(Cut[k - 1], Cut[k] - Cut[k - 1]))
    <2>1. Cut[k] = EndOf(k) /\ Cut[k - 1] = EndOf(k - 1)
        BY <1>4
    <2>2. /\ EndOf(k) \in Nat /\ EndOf(k - 1) \in Nat /\ EndOf(k - 1) <= EndOf(k)
        BY <1>2, <1>3, <1>5, SettledEnds
    <2>3. Cut[k - 1] + (Cut[k] - Cut[k - 1]) = EndOf(k)
        BY <2>1, <2>2
    <2>4. Part(Cut[k - 1], Cut[k] - Cut[k - 1])
              = SubSeq(data, EndOf(k - 1) + 1, EndOf(k))
        BY <2>1, <2>3 DEF Part
    <2>5. Fits(before, Fields[k], SubSeq(data, EndOf(k - 1) + 1, EndOf(k)))
        BY <1>2, <1>3, SettledPartFits
    <2> QED
        BY <2>1, <2>2, <2>4, <2>5
<1>10. Cut[0] = 0 /\ Cut[n] = Len(data)
    BY <1>4, <1>5, <1>6
<1> QED
    BY <1>2, <1>8, <1>9, <1>10 DEF Alignments

LEMMA AcceptingRemembers ==
    ASSUME ParserInvariant
    PROVE  AcceptedIsRemembered
<1> SUFFICES ASSUME Accepting, NEW k \in 1..Len(Fields), Memorizes(Fields[k])
             PROVE  memory[Fields[k]] = Part(paths[k].at, paths[k].size)
    BY DEF AcceptedIsRemembered
<1>1. Typing /\ phase = "field" /\ k \in 1..Len(paths)
    BY DEF ParserInvariant, MemoryInvariant, Accepting, Complete
<1>2. GeneratorFits(k) /\ Settled(k)
    BY <1>1 DEF ParserInvariant, GeneratorsFit, Settled
<1>3. paths[k].how \in {"valueCMP", "learn", "domainCMP"}
    BY <1>1, GeneratorTypes
<1>4. CASE paths[k].how = "learn"
    BY <1>2, <1>4 DEF GeneratorFits, Part
<1>5. CASE paths[k].how = "domainCMP"
    BY <1>2, <1>5 DEF GeneratorFits, Memorizes
<1>6. CASE paths[k].how = "valueCMP"
    <2>1. /\ Scope[Fields[k]] \in {"SESSION", "CONSTANT"}
          /\ IsDefined(Fields[k])
          /\ Part(paths[k].at, paths[k].size) = Expected(Fields[k])
        BY <1>2, <1>6 DEF GeneratorFits, Part
    <2>2. Constant[Fields[k]] = None
        BY <2>1 DEF Memorizes
    <2> QED
        BY <2>1, <2>2 DEF Expected, IsDefined
<1> QED
    BY <1>3, <1>4, <1>5, <1>6

-----------------------------------------------------------------------------
(* The search passes by no cut that fits.                                  *)

LEMMA CutsAreAlignments ==
    ASSUME Typing
    PROVE  Alignments(before) = Cuts(symbol, before, data)
<1> DEFINE B == [0..Len(Fields) -> 0..Len(data)]
<1>1. PICK n \in Nat : n = Len(Fields)
    BY Lengths
<1>2. ASSUME NEW b \in B, NEW k \in 1..n
      PROVE  Part(b[k - 1], b[k] - b[k - 1]) = SubSeq(data, b[k - 1] + 1, b[k])
    <2>1. k - 1 \in 0..n /\ k \in 0..n /\ Len(data) \in Nat
        BY <1>1, Lengths
    <2>2. b[k - 1] \in Nat /\ b[k] \in Nat
        BY <1>1, <2>1
    <2>3. b[k - 1] + (b[k] - b[k - 1]) = b[k]
        BY <2>2
    <2> QED
        BY <2>3 DEF Part
<1>3. Fields = Symbols[symbol]
    BY DEF Fields
<1> QED
    BY <1>1, <1>2, <1>3 DEF Alignments, Cuts

\* What every cut of the message gives to a field.
LEMMA CutFacts ==
    ASSUME Typing, NEW b \in Cuts(symbol, before, data)
    PROVE  /\ b[0] = 0 /\ b[Len(Fields)] = Len(data)
           /\ \A k \in 0..Len(Fields) : b[k] \in Nat /\ b[k] <= Len(data)
           /\ \A k \in 1..Len(Fields) :
                 /\ b[k - 1] <= b[k]
                 /\ Fits(before, Fields[k], SubSeq(data, b[k - 1] + 1, b[k]))
                 /\ SubSeq(data, b[k - 1] + 1, b[k]) \in Values
                 /\ Len(SubSeq(data, b[k - 1] + 1, b[k])) = b[k] - b[k - 1]
<1>1. PICK n \in Nat : n = Len(Fields)
    BY Lengths
<1>2. /\ b \in [0..n -> 0..Len(data)] /\ b[0] = 0 /\ b[n] = Len(data)
      /\ \A k \in 1..n :
            /\ b[k - 1] <= b[k]
            /\ Fits(before, Fields[k], SubSeq(data, b[k - 1] + 1, b[k]))
    BY <1>1 DEF Cuts, Fields
<1>3. \A k \in 0..n : b[k] \in Nat /\ b[k] <= Len(data)
    BY <1>2, Lengths
<1>4. ASSUME NEW k \in 1..n
      PROVE  /\ SubSeq(data, b[k - 1] + 1, b[k]) \in Values
             /\ Len(SubSeq(data, b[k - 1] + 1, b[k])) = b[k] - b[k - 1]
    <2>1. k - 1 \in 0..n /\ k \in 0..n
        OBVIOUS
    <2>2. PICK at \in Nat : at = b[k - 1]
        BY <1>3, <2>1
    <2>3. PICK size \in Nat : size = b[k] - at /\ b[k] = at + size
        <3>1. b[k] \in Nat /\ at <= b[k]
            BY <1>2, <1>3, <2>1, <2>2
        <3>2. b[k] - at \in Nat /\ b[k] = at + (b[k] - at)
            BY <3>1
        <3> QED
            BY <3>2
    <2>4. at + size <= Len(data)
        BY <1>3, <2>1, <2>3
    <2>5. Part(at, size) = SubSeq(data, b[k - 1] + 1, b[k])
        BY <2>2, <2>3 DEF Part
    <2> QED
        BY <2>2, <2>3, <2>4, <2>5, PartLength
<1> QED
    BY <1>1, <1>2, <1>3, <1>4

\* An actor that knows the session values compares exactly what has to be equal.
LEMMA KnownFits ==
    ASSUME ParserInvariant, NEW v \in Leafs, NEW c, Fits(before, v, c),
           Scope[v] = "SESSION" => before[v] # None \/ Constant[v] # None
    PROVE  /\ Scope[v] \in {"SESSION", "CONSTANT"} => IsDefined(v) /\ c = Expected(v)
           /\ Scope[v] \notin {"SESSION", "CONSTANT"} => c \in Domain(v)
<1>1. /\ ~Memorizes(v) => memory[v] = before[v]
      /\ Scope[v] = "SESSION" /\ before[v] # None => memory[v] = before[v]
    BY DEF ParserInvariant, MemoryInvariant, Learned, SessionStable
<1>2. CASE Scope[v] \notin {"SESSION", "CONSTANT"}
    BY <1>2 DEF Fits, Domain
<1>3. CASE Scope[v] \in {"SESSION", "CONSTANT"} /\ before[v] # None
    <2>1. memory[v] = before[v]
        BY <1>1, <1>3 DEF Memorizes
    <2> QED
        BY <1>3, <2>1 DEF Fits, IsDefined, Expected
<1>4. CASE Scope[v] \in {"SESSION", "CONSTANT"} /\ before[v] = None
    <2>1. Constant[v] # None
        BY <1>4 DEF Fits
    <2>2. memory[v] = None
        BY <1>1, <1>4, <2>1 DEF Memorizes
    <2> QED
        BY <1>4, <2>1, <2>2 DEF Fits, IsDefined, Expected
<1> QED
    BY <1>2, <1>3, <1>4

\* What a cut gives to the field of leaf v: the content compared with, or a value
\* of the domain.
LEMMA CutField ==
    ASSUME ParserInvariant, Knows(symbol, before),
           NEW b \in Cuts(symbol, before, data),
           NEW k \in 1..Len(Fields), NEW v \in Leafs, v = Fields[k],
           NEW c, c = SubSeq(data, b[k - 1] + 1, b[k])
    PROVE  /\ c \in Values /\ Len(c) = b[k] - b[k - 1]
           /\ b[k] \in Nat /\ b[k - 1] \in Nat /\ b[k] <= Len(data)
           /\ Scope[v] \in {"SESSION", "CONSTANT"} => IsDefined(v) /\ c = Expected(v)
           /\ Scope[v] \notin {"SESSION", "CONSTANT"} =>
                 /\ c \in Domain(v)
                 /\ Least(v) <= Len(c) /\ Len(c) <= Greatest(v)
<1>1. Typing
    BY DEF ParserInvariant, MemoryInvariant
<1>2. k \in 0..Len(Fields) /\ k - 1 \in 0..Len(Fields)
    BY <1>1, Lengths
<1>3. /\ c \in Values /\ Len(c) = b[k] - b[k - 1]
      /\ b[k] \in Nat /\ b[k - 1] \in Nat /\ b[k] <= Len(data)
      /\ Fits(before, v, c)
    BY <1>1, <1>2, CutFacts
<1>4. Scope[v] = "SESSION" => before[v] # None \/ Constant[v] # None
    BY DEF Knows, Fields
<1> QED
    BY <1>3, <1>4, KnownFits, DomainSizes

\* While the actor knows the session values, only message values are learned.
LEMMA SearchesScope ==
    ASSUME ParserInvariant, Knows(symbol, before), NEW k \in 1..Len(paths)
    PROVE  paths[k].how = "valueCMP" <=> Scope[Fields[k]] \in {"SESSION", "CONSTANT"}
<1>1. GeneratorFits(k) /\ k \in 1..Len(Fields)
      /\ paths[k].how \in {"valueCMP", "learn", "domainCMP"}
    BY GeneratorTypes DEF ParserInvariant, MemoryInvariant, GeneratorsFit
<1>2. CASE paths[k].how = "learn" /\ Scope[Fields[k]] = "SESSION"
    <2>1. before[Fields[k]] = None /\ Constant[Fields[k]] = None
        BY <1>1, <1>2 DEF GeneratorFits, Memorizes, ParserInvariant, MemoryInvariant,
                          LearnsNewOnly
    <2> QED
        BY <1>1, <1>2, <2>1 DEF Knows, Fields
<1> QED
    BY <1>1, <1>2 DEF GeneratorFits, Memorizes

\* What the search has to show after a step on the same symbol.
LEMMA SearchGoal ==
    ASSUME UNCHANGED <<symbol, data, before>>, Refuted, ParserInvariant',
           Knows(symbol, before) =>
              \A b \in Cuts(symbol, before, data) : \A k \in 0..Len(paths') : Ahead(b, k)'
    PROVE  SearchInvariant'
<1>1. Refuted'
    <2> SUFFICES ASSUME NEW i \in 1..(symbol - 1), Knows(i, before)'
                 PROVE  Cuts(i, before, data)' = {}
        BY DEF Refuted
    <2>1. Knows(i, before)
        BY DEF Knows
    <2>2. Cuts(i, before, data) = {}
        BY <2>1 DEF Refuted
    <2> QED
        BY <2>2
<1>2. /\ Knows(symbol, before)' = Knows(symbol, before)
      /\ Cuts(symbol, before, data)' = Cuts(symbol, before, data)
    OBVIOUS
<1>3. Explored'
    BY <1>2 DEF Explored
<1> QED
    BY <1>1, <1>3 DEF SearchInvariant

\* A generator that the step does not touch.
LEMMA AheadKept ==
    ASSUME NEW b, NEW k \in Nat, Ahead(b, k), \A j \in 0..k : EndOf(j)' = EndOf(j),
           phase' = "back" /\ k = Len(paths') /\ Agree(b, k - 1) => b[k] < EndOf(k)
    PROVE  Ahead(b, k)'
<1>1. Agree(b, k - 1)' => Agree(b, k - 1)
    BY DEF Agree
<1>2. EndOf(k)' = EndOf(k)
    OBVIOUS
<1> QED
    BY <1>1, <1>2 DEF Ahead

\* After a field has been entered: the comparison yields the only size that fits,
\* a search starts beyond the sizes that fit, and a comparison that fails
\* shows that no cut agrees so far.
LEMMA EnterFieldSearches ==
    ASSUME SearchInvariant, EnterField
    PROVE  SearchInvariant'
<1>1. PICK n \in Nat : n = Len(paths)
    BY Lengths DEF SearchInvariant, ParserInvariant, MemoryInvariant
<1>2. /\ Typing /\ GeneratorsFit /\ phase = "field" /\ n < Len(Fields)
      /\ UNCHANGED <<memory, data, symbol, before>>
    BY <1>1 DEF SearchInvariant, ParserInvariant, MemoryInvariant, EnterField
<1>3. PICK v \in Leafs : v = Fields[n + 1] /\ n + 1 \in 1..Len(Fields)
    BY <1>1, <1>2, Lengths, FieldLeaf
<1>4. ParserInvariant' /\ ParserInvariant /\ Refuted
    BY EnterFieldFits DEF SearchInvariant
<1>5. PICK at \in Nat : at = EndOf(n) /\ Rest = Len(data) - at /\ Consumed = at
    BY <1>1, <1>2, ConsumedIsEnd
<1>6. Len(data) \in Nat /\ Greatest(v) \in Nat
    BY <1>2, Lengths, LeastNat
<1>7. SUFFICES ASSUME Knows(symbol, before), NEW b \in Cuts(symbol, before, data)
               PROVE  \A k \in 0..Len(paths') : Ahead(b, k)'
    BY <1>2, <1>4, SearchGoal
<1>8. \A k \in 0..n : Ahead(b, k)
    BY <1>1, <1>2, <1>7 DEF SearchInvariant, Explored
<1>9. PICK c : c = SubSeq(data, b[n] + 1, b[n + 1])
    OBVIOUS
<1>10. n + 1 - 1 = n
    BY <1>1
<1>11. /\ c \in Values /\ Len(c) = b[n + 1] - b[n]
       /\ b[n + 1] \in Nat /\ b[n] \in Nat /\ b[n + 1] <= Len(data)
       /\ Scope[v] \in {"SESSION", "CONSTANT"} => IsDefined(v) /\ c = Expected(v)
       /\ Scope[v] \notin {"SESSION", "CONSTANT"} => Len(c) <= Greatest(v)
    <2>1. PICK k \in 1..Len(Fields) : k = n + 1 /\ v = Fields[k]
        BY <1>3
    <2>2. k - 1 = n
        BY <2>1
    <2>3. c = SubSeq(data, b[k - 1] + 1, b[k])
        BY <1>9, <2>1, <2>2
    <2>4. ParserInvariant /\ v = Fields[k]
        BY <1>4, <2>1
    <2>5. /\ c \in Values /\ Len(c) = b[k] - b[k - 1]
          /\ b[k] \in Nat /\ b[k - 1] \in Nat /\ b[k] <= Len(data)
          /\ Scope[v] \in {"SESSION", "CONSTANT"} => IsDefined(v) /\ c = Expected(v)
          /\ Scope[v] \notin {"SESSION", "CONSTANT"} =>
                /\ c \in Domain(v)
                /\ Least(v) <= Len(c) /\ Len(c) <= Greatest(v)
        BY <1>7, <2>3, <2>4, CutField
    <2> QED
        BY <2>1, <2>2, <2>5
<1>12. Scope[v] \in {"CONSTANT", "SESSION", "MESSAGE", "NONE"}
    BY ParsingAssumption
<1>13. ASSUME NEW size \in Nat,
              NEW how \in {"valueCMP", "learn", "domainCMP"},
              paths' = Append(paths, Path(at, size, how)),
              Agree(b, n) => /\ b[n + 1] <= at + size
                             /\ phase' = "back" => b[n + 1] < at + size
       PROVE  \A k \in 0..Len(paths') : Ahead(b, k)'
    <2>1. Path(at, size, how) \in Generators
        BY DEF Path, Generators
    <2>2. /\ Len(paths') = n + 1 /\ paths'[n + 1] = Path(at, size, how)
          /\ \A k \in 1..n : paths'[k] = paths[k]
        BY <1>1, <1>2, <1>13, <2>1, AppendProperties DEF Typing
    <2>3. \A k \in 0..n : EndOf(k)' = EndOf(k)
        BY <2>2 DEF EndOf
    <2>4. EndOf(n + 1)' = at + size
        BY <2>2 DEF EndOf, Path
    <2>5. ASSUME NEW k \in 0..n PROVE Ahead(b, k)'
        BY <1>8, <2>2, <2>3, <2>5, AheadKept
    <2>6. Agree(b, n)' => Agree(b, n)
        BY <2>3 DEF Agree
    <2>7. Ahead(b, n + 1)'
        BY <1>10, <1>13, <2>4, <2>6 DEF Ahead
    <2>8. \A k \in 0..Len(paths') : k \in 0..n \/ k = n + 1
        BY <2>2
    <2> QED
        BY <2>5, <2>7, <2>8
<1>14. CASE /\ How(v) = "valueCMP" /\ Begins(Expected(v))
            /\ paths' = Append(paths, Path(Consumed, Len(Expected(v)), How(v)))
            /\ phase' = "field"
    <2>1. Scope[v] \in {"SESSION", "CONSTANT"}
        BY <1>12, <1>14 DEF How
    <2>2. c = Expected(v) /\ Len(c) \in Nat
        BY <1>11, <2>1 DEF Values
    <2>3. Agree(b, n) => b[n] = at
        BY <1>1, <1>5 DEF Agree
    <2>4. Agree(b, n) => b[n + 1] <= at + Len(c)
        BY <1>11, <2>2, <2>3
    <2>5. phase' # "back"
        BY <1>14
    <2> QED
        BY <1>5, <1>13, <1>14, <2>2, <2>4, <2>5
<1>15. CASE /\ How(v) = "none" \/ (How(v) = "valueCMP" /\ ~Begins(Expected(v)))
            /\ paths' = paths
    <2>1. Scope[v] \in {"SESSION", "CONSTANT"}
        BY <1>12, <1>15 DEF How
    <2>2. IsDefined(v) /\ c = Expected(v) /\ ~Begins(c)
        BY <1>11, <1>15, <2>1 DEF How
    <2>3. ~Agree(b, n)
        <3> SUFFICES ASSUME Agree(b, n)
                     PROVE  FALSE
            OBVIOUS
        <3>1. b[n] = at
            BY <1>1, <1>5 DEF Agree
        <3>2. Len(c) <= Rest /\ Len(c) \in Nat
            BY <1>5, <1>6, <1>11, <3>1
        <3>3. at + Len(c) = b[n + 1]
            BY <1>11, <3>1
        <3>4. Part(at, Len(c)) = c
            BY <1>9, <3>1, <3>3 DEF Part
        <3> QED
            BY <1>5, <2>2, <3>2, <3>4 DEF Begins
    <2>4. \A k \in 0..n : EndOf(k)' = EndOf(k)
        BY <1>15 DEF EndOf
    <2>5. Agree(b, n - 1) => b[n] < EndOf(n)
        <3> SUFFICES ASSUME Agree(b, n - 1)
                     PROVE  b[n] < EndOf(n)
            OBVIOUS
        <3>1. b[n] <= EndOf(n)
            BY <1>8 DEF Ahead
        <3>2. b[n] # EndOf(n)
            BY <1>1, <2>3 DEF Agree
        <3> QED
            BY <1>5, <1>11, <3>1, <3>2
    <2>6. ASSUME NEW k \in 0..n PROVE Ahead(b, k)'
        BY <1>1, <1>8, <1>15, <2>4, <2>5, AheadKept
    <2> QED
        BY <1>1, <1>15, <2>6
<1>16. CASE /\ How(v) \in {"learn", "domainCMP"}
            /\ paths' = Append(paths,
                 Path(Consumed, (IF Greatest(v) < Rest THEN Greatest(v) ELSE Rest) + 1,
                      How(v)))
    <2>1. PICK top \in Nat :
              /\ top = IF Greatest(v) < Rest THEN Greatest(v) ELSE Rest
              /\ top = Greatest(v) \/ top = Rest
        BY <1>2, <1>6, ConsumedIsEnd, Lengths DEF Typing
    <2>2. Agree(b, n) => b[n] = at
        BY <1>1, <1>5 DEF Agree
    <2>3. Scope[v] \notin {"SESSION", "CONSTANT"}
        <3>1. IsDefined(v) \/ Scope[v] \notin {"SESSION", "CONSTANT"}
            BY <1>11
        <3> QED
            BY <1>16, <3>1 DEF How
    <2>4. top + 1 \in Nat
        BY <2>1
    <2>5. Agree(b, n) => b[n + 1] < at + (top + 1) /\ b[n + 1] <= at + (top + 1)
        <3> SUFFICES ASSUME Agree(b, n)
                     PROVE  b[n + 1] < at + (top + 1) /\ b[n + 1] <= at + (top + 1)
            OBVIOUS
        <3>1. PICK m \in Nat : m = b[n + 1]
            BY <1>11
        <3>2. m - at <= Greatest(v)
            BY <1>11, <2>2, <2>3, <3>1
        <3>3. m - at <= Len(data) - at
            BY <1>6, <1>11, <3>1
        <3>4. m - at <= top
            BY <1>5, <2>1, <3>2, <3>3
        <3>5. m < at + (top + 1) /\ m <= at + (top + 1)
            BY <3>4
        <3> QED
            BY <3>1, <3>5
    <2>6. paths' = Append(paths, Path(at, top + 1, How(v)))
        BY <1>5, <1>16, <2>1
    <2> QED
        BY <1>13, <1>16, <2>4, <2>5, <2>6
<1> QED
    BY <1>1, <1>3, <1>14, <1>15, <1>16 DEF EnterField

\* A size that was tried and refused fits no cut.
LEMMA TrySizeSearches ==
    ASSUME SearchInvariant, TrySize
    PROVE  SearchInvariant'
<1>1. /\ Typing /\ paths # <<>> /\ phase = "back" /\ ParserInvariant /\ Refuted
    BY DEF SearchInvariant, ParserInvariant, MemoryInvariant, TrySize
<1>2. PICK n \in 1..Len(Fields) : n = Len(paths) /\ n \in 1..Len(paths)
    BY <1>1, LastPath, Lengths
<1>3. PICK p \in Generators : p = paths[n] /\ p = Last(paths)
    BY <1>1, <1>2, LastPath
<1>4. PICK v \in Leafs : v = Fields[n]
    BY <1>2, <1>1, FieldLeaf
<1>5. /\ p.at \in Nat /\ p.size \in Nat /\ n \in Nat /\ n # 0
      /\ EndOf(n) = p.at + p.size
    <2>1. n \in Nat /\ n # 0
        BY <1>1, <1>2, Lengths
    <2>2. paths[n].at \in Nat /\ paths[n].size \in Nat
          /\ EndOf(n) = paths[n].at + paths[n].size
        BY <1>1, <1>2, GeneratorTypes
    <2> QED
        BY <1>3, <2>1, <2>2
<1>6. /\ p.how # "valueCMP" /\ p.size > Least(v)
      /\ paths' = [paths EXCEPT ![n].size = p.size - 1]
      /\ UNCHANGED <<data, symbol, before>>
    BY <1>2, <1>3, <1>4 DEF TrySize
<1>7. PICK size \in Nat : size = p.size - 1
    BY <1>4, <1>5, <1>6, LeastNat
<1>8. phase' \in {"field", "back"}
      /\ (phase' = "back" => ~CanParse(v, Part(p.at, size)))
    BY <1>1, <1>2, <1>3, <1>4, <1>7 DEF TrySize
<1>9. /\ Len(paths') = n
      /\ paths'[n] = [p EXCEPT !.size = size]
      /\ \A k \in 1..n : k # n => paths'[k] = paths[k]
    <2>1. [p EXCEPT !.size = size] \in Generators
        BY <1>7 DEF Generators
    <2>2. paths' = [paths EXCEPT ![n] = [p EXCEPT !.size = size]]
        BY <1>3, <1>6, <1>7
    <2> QED
        BY <1>1, <1>2, <2>1, <2>2, ExceptSeq DEF Typing
<1>10. paths'[n].at = p.at /\ paths'[n].size = size
    BY <1>9 DEF Generators
<1>11. EndOf(n)' = p.at + size
    BY <1>5, <1>10 DEF EndOf
<1>12. ASSUME NEW j \in 0..(n - 1) PROVE EndOf(j)' = EndOf(j)
    <2>1. j = 0 \/ (j \in 1..n /\ j # n)
        BY <1>5
    <2> QED
        BY <1>9, <2>1 DEF EndOf
<1>13. SUFFICES ASSUME Knows(symbol, before), NEW b \in Cuts(symbol, before, data)
                PROVE  \A k \in 0..Len(paths') : Ahead(b, k)'
    BY <1>1, <1>6, TrySizeFits, SearchGoal
<1>14. \A k \in 0..n : Ahead(b, k)
    BY <1>1, <1>2, <1>13 DEF SearchInvariant, Explored
<1>15. ASSUME NEW k \in 0..(n - 1) PROVE Ahead(b, k)'
    <2>1. k \in Nat /\ k \in 0..n /\ k # Len(paths')
        BY <1>5, <1>9
    <2>2. \A j \in 0..k : EndOf(j)' = EndOf(j)
        BY <1>5, <1>12, <2>1
    <2> QED
        BY <1>14, <2>1, <2>2, AheadKept
<1>16. Ahead(b, n)'
    <2> SUFFICES ASSUME Agree(b, n - 1)'
                 PROVE  /\ b[n] <= p.at + size
                        /\ phase' = "back" => b[n] < p.at + size
        BY <1>11 DEF Ahead
    <2>1. Agree(b, n - 1)
        BY <1>12 DEF Agree
    <2>2. b[n] < p.at + p.size
        BY <1>1, <1>2, <1>5, <1>14, <2>1 DEF Ahead
    <2>3. b[n - 1] = p.at
        <3>1. GeneratorFits(n)
            BY <1>1, <1>2 DEF ParserInvariant, GeneratorsFit
        <3>2. p.at = EndOf(n - 1)
            BY <1>3, <3>1 DEF GeneratorFits
        <3> QED
            BY <1>5, <2>1, <3>2 DEF Agree
    <2>4. Scope[v] \notin {"SESSION", "CONSTANT"}
        BY <1>1, <1>2, <1>3, <1>4, <1>6, <1>13, SearchesScope
    <2>5. PICK c : c = SubSeq(data, b[n - 1] + 1, b[n])
        OBVIOUS
    <2>6. /\ c \in Values /\ Len(c) = b[n] - b[n - 1] /\ b[n] \in Nat
          /\ c \in Domain(v) /\ Least(v) <= Len(c) /\ Len(c) <= Greatest(v)
        BY <1>1, <1>4, <1>13, <2>4, <2>5, CutField
    <2>7. b[n] <= p.at + size
        <3>1. PICK m \in Nat : m = b[n]
            BY <2>6
        <3>2. PICK at \in Nat, old \in Nat : at = p.at /\ old = p.size
            BY <1>5
        <3>3. m < at + old /\ size = old - 1
            BY <1>7, <2>2, <3>1, <3>2
        <3>4. m <= at + size
            BY <3>3
        <3> QED
            BY <3>1, <3>2, <3>4
    <2>8. ASSUME phase' = "back", b[n] = p.at + size
          PROVE  FALSE
        <3>1. c = Part(p.at, size)
            BY <2>3, <2>5, <2>8 DEF Part
        <3>2. CanParse(v, c)
            BY <2>6, AcceptedIsInDomain
        <3> QED
            BY <1>8, <2>8, <3>1, <3>2
    <2> QED
        BY <1>5, <2>6, <2>7, <2>8
<1>17. \A k \in 0..Len(paths') : k \in 0..(n - 1) \/ k = n
    BY <1>5, <1>9
<1> QED
    BY <1>15, <1>16, <1>17

\* An exhausted generator shows that no cut agrees with those before it.
LEMMA BacktrackSearches ==
    ASSUME SearchInvariant, Backtrack
    PROVE  SearchInvariant'
<1>1. /\ Typing /\ paths # <<>> /\ phase = "back" /\ phase' = "back"
      /\ ParserInvariant /\ Refuted
      /\ paths' = Front(paths) /\ UNCHANGED <<memory, data, symbol, before>>
    BY DEF SearchInvariant, ParserInvariant, MemoryInvariant, Backtrack
<1>2. PICK n \in 1..Len(Fields) : n = Len(paths) /\ n \in 1..Len(paths)
    BY <1>1, LastPath, Lengths
<1>3. PICK p \in Generators : p = paths[n] /\ p = Last(paths)
    BY <1>1, <1>2, LastPath
<1>4. PICK v \in Leafs : v = Fields[n]
    BY <1>2, <1>1, FieldLeaf
<1>5. /\ p.at \in Nat /\ p.size \in Nat /\ n \in Nat /\ n # 0
      /\ EndOf(n) = p.at + p.size
    <2>1. n \in Nat /\ n # 0
        BY <1>1, <1>2, Lengths
    <2>2. paths[n].at \in Nat /\ paths[n].size \in Nat
          /\ EndOf(n) = paths[n].at + paths[n].size
        BY <1>1, <1>2, GeneratorTypes
    <2> QED
        BY <1>3, <2>1, <2>2
<1>6. p.how = "valueCMP" \/ p.size <= Least(v)
    BY <1>2, <1>3, <1>4 DEF Backtrack
<1>7. /\ Len(paths') = n - 1
      /\ \A k \in 1..(n - 1) : paths'[k] = paths[k]
    BY <1>1, <1>2, Popped
<1>8. \A j \in 0..(n - 1) : EndOf(j)' = EndOf(j)
    BY <1>7 DEF EndOf
<1>9. SUFFICES ASSUME Knows(symbol, before), NEW b \in Cuts(symbol, before, data)
               PROVE  \A k \in 0..Len(paths') : Ahead(b, k)'
    BY <1>1, BacktrackFits, SearchGoal
<1>10. \A k \in 0..n : Ahead(b, k)
    BY <1>1, <1>2, <1>9 DEF SearchInvariant, Explored
<1>11. PICK c : c = SubSeq(data, b[n - 1] + 1, b[n])
    OBVIOUS
<1>12. /\ c \in Values /\ Len(c) = b[n] - b[n - 1] /\ b[n] \in Nat /\ b[n - 1] \in Nat
       /\ Scope[v] \in {"SESSION", "CONSTANT"} => IsDefined(v) /\ c = Expected(v)
       /\ Scope[v] \notin {"SESSION", "CONSTANT"} => Least(v) <= Len(c)
    BY <1>1, <1>4, <1>9, <1>11, CutField
<1>13. ~Agree(b, n - 1)
    <2> SUFFICES ASSUME Agree(b, n - 1)
                 PROVE  FALSE
        OBVIOUS
    <2>1. b[n] < p.at + p.size
        BY <1>1, <1>2, <1>5, <1>10 DEF Ahead
    <2>2. GeneratorFits(n)
        BY <1>1, <1>2 DEF ParserInvariant, GeneratorsFit
    <2>3. b[n - 1] = p.at
        BY <1>3, <1>5, <2>2 DEF Agree, GeneratorFits
    <2>4. CASE p.how = "valueCMP"
        <3>1. /\ Scope[v] \in {"SESSION", "CONSTANT"}
              /\ EndOf(n) <= Len(data)
              /\ SubSeq(data, p.at + 1, p.at + p.size) = Expected(v)
            BY <1>3, <1>4, <2>2, <2>4 DEF GeneratorFits
        <3>2. p.at + p.size <= Len(data)
            BY <1>5, <3>1
        <3>3. Len(Part(p.at, p.size)) = p.size
            BY <1>1, <1>5, <3>2, PartLength
        <3>4. Len(c) = p.size
            BY <1>12, <3>1, <3>3 DEF Part
        <3> QED
            BY <1>5, <1>12, <2>1, <2>3, <3>4
    <2>5. CASE p.how # "valueCMP"
        <3>1. Scope[v] \notin {"SESSION", "CONSTANT"}
            BY <1>1, <1>2, <1>3, <1>4, <1>9, <2>5, SearchesScope
        <3> QED
            BY <1>4, <1>5, <1>6, <1>12, <2>1, <2>3, <2>5, <3>1, LeastNat
    <2> QED
        BY <2>4, <2>5
<1>14. ASSUME NEW k \in 0..(n - 1), Agree(b, k - 1), k = n - 1
       PROVE  b[k] < EndOf(k)
    <2>1. k \in Nat /\ k \in 0..n
        BY <1>5
    <2>2. b[k] <= EndOf(k)
        BY <1>10, <1>14, <2>1 DEF Ahead
    <2>3. b[k] # EndOf(k)
        BY <1>13, <1>14, <2>1 DEF Agree
    <2>4. EndOf(k) \in Nat
        <3>1. k = 0 \/ k \in 1..Len(paths)
            BY <1>2, <1>5, <2>1
        <3> QED
            BY <1>1, <3>1, GeneratorTypes DEF EndOf
    <2> QED
        BY <1>12, <1>14, <2>2, <2>3, <2>4
<1>15. ASSUME NEW k \in 0..(n - 1) PROVE Ahead(b, k)'
    <2>1. k \in Nat /\ k \in 0..n
        BY <1>5
    <2>2. \A j \in 0..k : EndOf(j)' = EndOf(j)
        BY <1>5, <1>8, <2>1
    <2> QED
        BY <1>7, <1>10, <1>14, <2>1, <2>2, AheadKept
<1> QED
    BY <1>7, <1>15

\* When something of the data remains no cut agrees with all the fields but one.
LEMMA IncompleteSearches ==
    ASSUME SearchInvariant, Incomplete
    PROVE  SearchInvariant'
<1>1. /\ Typing /\ phase = "field" /\ Len(paths) = Len(Fields) /\ Rest > 0
      /\ ParserInvariant /\ Refuted
      /\ UNCHANGED <<memory, data, symbol, paths, before>>
    BY DEF SearchInvariant, ParserInvariant, MemoryInvariant, Incomplete, Complete
<1>2. PICK n \in Nat \ {0} : n = Len(paths) /\ n = Len(Fields)
    BY <1>1, Lengths
<1>3. SUFFICES ASSUME Knows(symbol, before), NEW b \in Cuts(symbol, before, data)
               PROVE  \A k \in 0..Len(paths') : Ahead(b, k)'
    BY <1>1, IncompleteFits, SearchGoal
<1>4. \A k \in 0..n : Ahead(b, k)
    BY <1>1, <1>2, <1>3 DEF SearchInvariant, Explored
<1>5. \A j \in 0..n : EndOf(j)' = EndOf(j)
    BY <1>1 DEF EndOf
<1>6. ~Agree(b, n - 1)
    <2> SUFFICES ASSUME Agree(b, n - 1)
                 PROVE  FALSE
        OBVIOUS
    <2>1. b[n] <= EndOf(n)
        BY <1>2, <1>4 DEF Ahead
    <2>2. b[n] = Len(data) /\ Len(data) \in Nat
        BY <1>1, <1>2, <1>3, CutFacts, Lengths
    <2>3. EndOf(n) \in Nat /\ Rest = Len(data) - EndOf(n)
        BY <1>1, <1>2, ConsumedIsEnd
    <2> QED
        BY <1>1, <2>1, <2>2, <2>3
<1>7. ASSUME NEW k \in 0..n PROVE Ahead(b, k)'
    <2>1. k = n \/ k # Len(paths')
        BY <1>1, <1>2
    <2>2. \A j \in 0..k : EndOf(j)' = EndOf(j)
        BY <1>5
    <2> QED
        BY <1>2, <1>4, <1>6, <2>1, <2>2, AheadKept
<1> QED
    BY <1>1, <1>2, <1>7

\* A symbol that is refused does not fit, if the session values were known.
LEMMA RefusingRefutes ==
    ASSUME SearchInvariant, Refusing, Knows(symbol, before)
    PROVE  Cuts(symbol, before, data) = {}
<1>1. SUFFICES ASSUME NEW b \in Cuts(symbol, before, data)
               PROVE  FALSE
    OBVIOUS
<1>2. phase = "back" /\ paths = <<>> /\ Len(paths) = 0
    BY DEF Refusing
<1>3. Ahead(b, 0)
    BY <1>2 DEF SearchInvariant, Explored
<1>4. Agree(b, 0 - 1)
    BY DEF Agree
<1>5. b[0] < EndOf(0)
    BY <1>2, <1>3, <1>4 DEF Ahead
<1>6. b[0] = 0 /\ EndOf(0) = 0
    BY CutFacts DEF SearchInvariant, ParserInvariant, MemoryInvariant, EndOf
<1> QED
    BY <1>5, <1>6

\* At the first field the parser has passed by nothing.
LEMMA StartOfSearch ==
    ASSUME paths' = <<>>, phase' = "field"
    PROVE  Explored'
<1> SUFFICES ASSUME NEW b \in Cuts(symbol, before, data)', NEW k \in 0..Len(paths')
             PROVE  Ahead(b, k)'
    BY DEF Explored
<1>1. k = 0 /\ EndOf(0)' = 0
    BY DEF EndOf
<1>2. b[0] = 0
    BY DEF Cuts
<1> QED
    BY <1>1, <1>2 DEF Ahead

LEMMA NextSymbolSearches ==
    ASSUME SearchInvariant, NextSymbol
    PROVE  SearchInvariant'
<1>1. /\ ParserInvariant' /\ Typing'
    BY NextSymbolFits DEF SearchInvariant, ParserInvariant, MemoryInvariant
<1>2. /\ paths' = <<>> /\ phase' = "field" /\ symbol' = symbol + 1
      /\ UNCHANGED <<data, before>> /\ Refusing
    BY DEF NextSymbol, Refusing
<1>3. Explored'
    BY <1>2, StartOfSearch
<1>4. symbol \in Nat
    BY DEF SearchInvariant, ParserInvariant, MemoryInvariant, Typing
<1>5. Refuted'
    <2> SUFFICES ASSUME NEW i \in 1..(symbol' - 1), Knows(i, before)'
                 PROVE  Cuts(i, before, data)' = {}
        BY DEF Refuted
    <2>1. Knows(i, before)
        BY <1>2 DEF Knows
    <2>2. i \in 1..(symbol - 1) \/ i = symbol
        BY <1>2, <1>4
    <2>3. Cuts(i, before, data) = {}
        BY <1>2, <2>1, <2>2, RefusingRefutes DEF SearchInvariant, Refuted
    <2>4. data' = data /\ before' = before
        BY <1>2
    <2> QED
        BY <2>3, <2>4
<1> QED
    BY <1>1, <1>3, <1>5 DEF SearchInvariant

LEMMA ReceiveSearches ==
    ASSUME SearchInvariant, Receive
    PROVE  SearchInvariant'
<1>1. /\ ParserInvariant' /\ Typing'
    BY ReceiveFits DEF SearchInvariant, ParserInvariant, MemoryInvariant
<1>2. paths' = <<>> /\ phase' = "field" /\ symbol' = 1
    BY DEF Receive
<1>3. Explored'
    BY <1>2, StartOfSearch
<1>4. Refuted'
    BY <1>2 DEF Refuted
<1> QED
    BY <1>1, <1>3, <1>4 DEF SearchInvariant

\* Between two reads there is nothing to show of the search.
LEMMA IdleSearches ==
    ASSUME ParserInvariant', phase' = "idle"
    PROVE  SearchInvariant'
<1>1. symbol' = 1
    BY DEF ParserInvariant, Idle
<1> QED
    BY <1>1 DEF SearchInvariant, Explored, Refuted

LEMMA SearchStutter ==
    ASSUME SearchInvariant, UNCHANGED vars
    PROVE  SearchInvariant'
<1>1. ParserInvariant'
    BY ParserStutter DEF SearchInvariant
<1>2. UNCHANGED <<symbol, data, before, paths, phase>> /\ Refuted
    BY DEF SearchInvariant, vars
<1>3. CASE phase = "idle"
    BY <1>1, <1>2, <1>3, IdleSearches
<1>4. CASE phase # "idle"
    <2>1. SUFFICES ASSUME Knows(symbol, before), NEW b \in Cuts(symbol, before, data),
                          NEW k \in 0..Len(paths')
                   PROVE  Ahead(b, k)'
        BY <1>1, <1>2, SearchGoal
    <2>2. Ahead(b, k)
        BY <1>2, <1>4, <2>1 DEF SearchInvariant, Explored
    <2>3. \A j \in 0..k : EndOf(j)' = EndOf(j)
        BY <1>2 DEF EndOf
    <2> QED
        BY <1>2, <2>2, <2>3 DEF Ahead, Agree
<1> QED
    BY <1>3, <1>4

LEMMA SearchInit ==
    ASSUME Init
    PROVE  SearchInvariant
BY ParserInit DEF Init, SearchInvariant, Explored, Refuted

LEMMA SearchStep ==
    ASSUME SearchInvariant, [Next]_vars
    PROVE  SearchInvariant'
<1>1. ParserInvariant'
    BY ParserStepFits DEF SearchInvariant
<1>2. CASE Accept \/ ReturnUnknown
    BY <1>1, <1>2, IdleSearches DEF Accept, ReturnUnknown, Return
<1>3. CASE Write \/ Reset
    BY <1>1, <1>3, IdleSearches DEF Write, Reset
<1> QED
    BY <1>2, <1>3, EnterFieldSearches, TrySizeSearches, BacktrackSearches,
       IncompleteSearches, NextSymbolSearches, ReceiveSearches, SearchStutter
        DEF Next, ParserStep

\* Of two cuts that fit the one that the parser returns gives more to the first
\* field where they differ.
LEMMA AcceptingIsLongest ==
    ASSUME SearchInvariant
    PROVE  LongestFirst
<1>1. SUFFICES ASSUME Accepting, Acquainted, NEW b \in Alignments(before),
                      NEW k \in 1..Len(Fields),
                      b[k] > Cut[k], \A j \in 1..(k - 1) : b[j] = Cut[j]
               PROVE  FALSE
    BY DEF LongestFirst, Longer
<1>2. /\ Typing /\ phase = "field" /\ Len(paths) = Len(Fields)
    BY <1>1 DEF SearchInvariant, ParserInvariant, MemoryInvariant, Accepting, Complete
<1>3. PICK n \in Nat : n = Len(paths) /\ n = Len(Fields)
    BY <1>2, Lengths
<1>4. \A j \in 0..n : Cut[j] = EndOf(j)
    BY <1>2, <1>3, CutIsEnds
<1>5. b \in Cuts(symbol, before, data) /\ Knows(symbol, before)
    BY <1>1, <1>2, CutsAreAlignments DEF Acquainted, Knows, Fields
<1>6. Ahead(b, k)
    BY <1>2, <1>3, <1>5 DEF SearchInvariant, Explored
<1>7. b[0] = 0 /\ EndOf(0) = 0 /\ b[k] \in Nat
    BY <1>2, <1>3, <1>5, CutFacts DEF EndOf
<1>8. Agree(b, k - 1)
    <2>1. ASSUME NEW j \in 0..(k - 1) PROVE b[j] = EndOf(j)
        <3>1. j \in 0..n /\ (j = 0 \/ j \in 1..(k - 1))
            BY <1>3
        <3> QED
            BY <1>1, <1>4, <1>7, <3>1
    <2> QED
        BY <2>1 DEF Agree
<1>9. b[k] <= EndOf(k) /\ Cut[k] = EndOf(k)
    BY <1>3, <1>4, <1>6, <1>8 DEF Ahead
<1>10. EndOf(k) \in Nat
    BY <1>2, <1>3, GeneratorTypes
<1> QED
    BY <1>1, <1>7, <1>9, <1>10

LEMMA RefusingIsRight ==
    ASSUME SearchInvariant
    PROVE  RefusedDoesNotFit
<1> SUFFICES ASSUME Refusing, Acquainted
             PROVE  Alignments(before) = {}
    BY DEF RefusedDoesNotFit
<1>1. Knows(symbol, before)
    BY DEF Acquainted, Knows, Fields
<1> QED
    BY <1>1, RefusingRefutes, CutsAreAlignments
        DEF SearchInvariant, ParserInvariant, MemoryInvariant

-----------------------------------------------------------------------------
(* What is made by writing a symbol can be cut again into its fields.      *)

LEMMA LeastElement ==
    ASSUME NEW S \in SUBSET Nat, S # {}
    PROVE  \E i \in S : \A j \in S : i <= j
<1>1. PICK i \in S : \A j \in S : ~(<<j, i>> \in OpToRel(<, Nat))
    BY NatLessThanWellFounded, WFMin
<1>2. ASSUME NEW j \in S PROVE i <= j
    <2>1. ~(<<j, i>> \in OpToRel(<, Nat))
        BY <1>1
    <2>2. ~(j < i)
        BY <2>1 DEF OpToRel
    <2> QED
        BY <2>2
<1> QED
    BY <1>2

\* A set of numbers that has 1 and with each its successor, up to n.
LEMMA CountingUp ==
    ASSUME NEW n \in Nat, NEW S, 1 \in S,
           \A i \in 1..n : i \in S /\ i # n => i + 1 \in S
    PROVE  \A i \in 1..n : i \in S
<1> DEFINE R == {i \in 1..n : i \notin S}
<1>1. SUFFICES ASSUME R # {}
               PROVE  FALSE
    OBVIOUS
<1>2. R \in SUBSET Nat
    OBVIOUS
<1>3. PICK i \in R : \A j \in R : i <= j
    BY <1>1, <1>2, LeastElement
<1>4. i # 1 /\ i - 1 \in 1..n /\ i - 1 # n
    OBVIOUS
<1>5. i - 1 \in S
    BY <1>3, <1>4
<1>6. i - 1 + 1 \in S
    BY <1>4, <1>5
<1> QED
    BY <1>6

LEMMA SubSeqOfPrefix ==
    ASSUME NEW S, NEW s \in Seq(S), NEW t \in Seq(S),
           NEW a \in Nat, NEW e \in Nat, e <= Len(s)
    PROVE  SubSeq(s \o t, a + 1, e) = SubSeq(s, a + 1, e)
<1>1. /\ s \o t \in Seq(S) /\ Len(s \o t) = Len(s) + Len(t)
      /\ \A i \in 1..Len(s) : (s \o t)[i] = s[i]
    BY ConcatProperties
<1>2. \A i \in (a + 1)..e : s[i] \in S /\ (s \o t)[i] = s[i]
    BY <1>1
<1>3. /\ SubSeq(s, a + 1, e) \in Seq(S)
      /\ Len(SubSeq(s, a + 1, e)) = IF a + 1 <= e THEN e - (a + 1) + 1 ELSE 0
      /\ \A i \in 1..(e - (a + 1) + 1) : SubSeq(s, a + 1, e)[i] = s[a + 1 + i - 1]
    BY <1>2, SubSeqProperties
<1>4. /\ SubSeq(s \o t, a + 1, e) \in Seq(S)
      /\ Len(SubSeq(s \o t, a + 1, e)) = IF a + 1 <= e THEN e - (a + 1) + 1 ELSE 0
      /\ \A i \in 1..(e - (a + 1) + 1) :
            SubSeq(s \o t, a + 1, e)[i] = (s \o t)[a + 1 + i - 1]
    BY <1>2, SubSeqProperties
<1>5. ASSUME NEW i \in 1..Len(SubSeq(s, a + 1, e))
      PROVE  SubSeq(s \o t, a + 1, e)[i] = SubSeq(s, a + 1, e)[i]
    <2>1. i \in 1..(e - (a + 1) + 1) /\ a + 1 + i - 1 \in (a + 1)..e
        BY <1>3
    <2> QED
        BY <1>2, <1>3, <1>4, <2>1
<1> QED
    BY <1>3, <1>4, <1>5, SeqEqual

LEMMA SubSeqOfSuffix ==
    ASSUME NEW S, NEW s \in Seq(S), NEW t \in Seq(S)
    PROVE  SubSeq(s \o t, Len(s) + 1, Len(s) + Len(t)) = t
<1>1. PICK m \in Nat, n \in Nat : m = Len(s) /\ n = Len(t)
    OBVIOUS
<1>2. PICK w \in Seq(S) :
          /\ w = s \o t
          /\ \A i \in 1..(m + n) : w[i] = IF i <= m THEN s[i] ELSE t[i - m]
    <2>1. \A i \in 1..(Len(s) + Len(t)) :
              (s \o t)[i] = IF i <= Len(s) THEN s[i] ELSE t[i - Len(s)]
        BY ConcatProperties
    <2>2. s \o t \in Seq(S)
        BY ConcatProperties
    <2> QED
        BY <1>1, <2>1, <2>2
<1>3. PICK a \in Nat, e \in Nat : a = m + 1 /\ e = m + n
    OBVIOUS
<1>4. Len(w) = m + n
    BY <1>1, <1>2, ConcatProperties
<1>5. \A i \in a..e : w[i] \in S
    BY <1>2, <1>3, <1>4
<1>6. /\ SubSeq(w, a, e) \in Seq(S)
      /\ Len(SubSeq(w, a, e)) = IF a <= e THEN e - a + 1 ELSE 0
      /\ \A i \in 1..(e - a + 1) : SubSeq(w, a, e)[i] = w[a + i - 1]
    BY <1>5, SubSeqProperties
<1>7. Len(SubSeq(w, a, e)) = n
    BY <1>3, <1>6
<1>8. ASSUME NEW i \in 1..n
      PROVE  SubSeq(w, a, e)[i] = t[i]
    <2>1. PICK j \in 1..(m + n) : j = m + i /\ ~(j <= m) /\ j - m = i
        OBVIOUS
    <2>2. i \in 1..(e - a + 1) /\ a + i - 1 = j
        BY <1>3, <2>1
    <2> QED
        BY <1>2, <1>6, <2>1, <2>2
<1>9. SubSeq(w, a, e) = t
    BY <1>1, <1>6, <1>7, <1>8, SeqEqual
<1> QED
    BY <1>1, <1>2, <1>3, <1>9

\* The function by which FlattenSeq is defined.
Flattens(f, s) ==
    f = [i \in 1..Len(s) |-> IF i = 1 THEN s[i] ELSE f[i - 1] \o s[i]]

\* It exists, for any sequence of sequences.
LEMMA FlattenExists ==
    ASSUME NEW S, NEW s \in Seq(Seq(S)), s # <<>>
    PROVE  \E f : Flattens(f, s)
<1> DEFINE First(n) == {f \in [1..n -> Seq(S)] :
                          \A i \in 1..n : f[i] = IF i = 1 THEN s[i] ELSE f[i - 1] \o s[i]}
           T == {n \in Nat : First(n) # {}}
<1>1. Len(s) \in Nat /\ Len(s) >= 1 /\ \A i \in 1..Len(s) : s[i] \in Seq(S)
    BY EmptySeq
<1>2. 1 \in T
    <2>1. [i \in 1..1 |-> s[i]] \in First(1)
        BY <1>1
    <2> QED
        BY <2>1
<1>3. ASSUME NEW n \in 1..Len(s), n \in T, n # Len(s)
      PROVE  n + 1 \in T
    <2>1. PICK f \in [1..n -> Seq(S)] :
              \A i \in 1..n : f[i] = IF i = 1 THEN s[i] ELSE f[i - 1] \o s[i]
        BY <1>3
    <2>2. s[n + 1] \in Seq(S) /\ f[n] \in Seq(S) /\ f[n] \o s[n + 1] \in Seq(S)
        BY <1>1, <1>3, ConcatProperties
    <2> DEFINE g == [i \in 1..(n + 1) |-> IF i = n + 1 THEN f[n] \o s[n + 1] ELSE f[i]]
    <2>3. g \in [1..(n + 1) -> Seq(S)]
        BY <2>1, <2>2
    <2>4. ASSUME NEW i \in 1..(n + 1)
          PROVE  g[i] = IF i = 1 THEN s[i] ELSE g[i - 1] \o s[i]
        <3>1. CASE i = n + 1
            <4>1. i # 1 /\ i - 1 = n /\ n \in 1..(n + 1) /\ n # n + 1
                BY <1>1, <3>1
            <4>2. g[i - 1] = f[n]
                BY <4>1
            <4>3. g[i] = f[n] \o s[i]
                BY <3>1
            <4> QED
                BY <4>1, <4>2, <4>3
        <3>2. CASE i # n + 1
            <4>1. i \in 1..n /\ (i # 1 => i - 1 \in 1..(n + 1) /\ i - 1 # n + 1)
                BY <1>1, <3>2
            <4>2. g[i] = f[i] /\ (i # 1 => g[i - 1] = f[i - 1])
                BY <3>2, <4>1
            <4> QED
                BY <2>1, <4>1, <4>2
        <3> QED
            BY <3>1, <3>2
    <2>5. g \in First(n + 1)
        BY <2>3, <2>4
    <2> HIDE DEF First
    <2> QED
        BY <1>1, <2>5
<1> HIDE DEF T
<1>4. Len(s) \in T
    <2>1. \A i \in 1..Len(s) : i \in T
        BY <1>1, <1>2, <1>3, CountingUp
    <2> QED
        BY <1>1, <2>1
<1>5. PICK f \in First(Len(s)) : TRUE
    BY <1>4 DEF T
<1>6. Flattens(f, s)
    BY <1>5 DEF Flattens
<1> QED
    BY <1>6

LEMMA FlattenIs ==
    ASSUME NEW S, NEW s \in Seq(Seq(S)), s # <<>>
    PROVE  \E f : /\ f = [i \in 1..Len(s) |-> IF i = 1 THEN s[i] ELSE f[i - 1] \o s[i]]
                  /\ FlattenSeq(s) = f[Len(s)]
<1>1. Len(s) # 0
    BY EmptySeq
<1> DEFINE F == CHOOSE f : f = [i \in 1..Len(s) |-> IF i = 1 THEN s[i]
                                                    ELSE f[i - 1] \o s[i]]
<1>2. \E f : f = [i \in 1..Len(s) |-> IF i = 1 THEN s[i] ELSE f[i - 1] \o s[i]]
    BY FlattenExists DEF Flattens
<1>3. F = [i \in 1..Len(s) |-> IF i = 1 THEN s[i] ELSE F[i - 1] \o s[i]]
    BY <1>2
<1>4. FlattenSeq(s) = F[Len(s)]
    BY <1>1 DEF FlattenSeq
<1> HIDE DEF F
<1> QED
    BY <1>3, <1>4

\* Positions b cut c into the first n of the sequences s.
CutsInto(b, c, s, n) ==
    /\ b \in [0..n -> 0..Len(c)]
    /\ b[0] = 0 /\ b[n] = Len(c)
    /\ \A k \in 1..n : b[k - 1] <= b[k] /\ SubSeq(c, b[k - 1] + 1, b[k]) = s[k]

\* One more sequence, one more position.
LEMMA CutExtended ==
    ASSUME NEW S, NEW s \in Seq(Seq(S)), NEW n \in Nat, NEW b, NEW c \in Seq(S),
           NEW t \in Seq(S), t = s[n + 1], CutsInto(b, c, s, n)
    PROVE  \E d : CutsInto(d, c \o t, s, n + 1)
<1> DEFINE d == [k \in 0..(n + 1) |-> IF k = n + 1 THEN Len(c) + Len(t) ELSE b[k]]
<1>1. /\ Len(c) \in Nat /\ Len(t) \in Nat /\ Len(c \o t) = Len(c) + Len(t)
    BY ConcatProperties
<1>2. /\ b \in [0..n -> 0..Len(c)] /\ b[0] = 0 /\ b[n] = Len(c)
      /\ \A k \in 1..n : b[k - 1] <= b[k] /\ SubSeq(c, b[k - 1] + 1, b[k]) = s[k]
    BY DEF CutsInto
<1>3. /\ d[n + 1] = Len(c) + Len(t)
      /\ \A k \in 0..n : d[k] = b[k] /\ b[k] \in Nat /\ b[k] <= Len(c)
    BY <1>1, <1>2
<1>4. d \in [0..(n + 1) -> 0..Len(c \o t)]
    <2>1. ASSUME NEW k \in 0..(n + 1) PROVE d[k] \in 0..Len(c \o t)
        <3>1. CASE k = n + 1
            BY <1>1, <1>3, <3>1
        <3>2. CASE k # n + 1
            <4>1. k \in 0..n
                BY <3>2
            <4>2. d[k] \in Nat /\ d[k] <= Len(c)
                BY <1>3, <4>1
            <4> QED
                BY <1>1, <4>2
        <3> QED
            BY <3>1, <3>2
    <2> QED
        BY <2>1
<1> HIDE DEF d
<1>5. ASSUME NEW k \in 1..(n + 1)
      PROVE  d[k - 1] <= d[k] /\ SubSeq(c \o t, d[k - 1] + 1, d[k]) = s[k]
    <2>1. CASE k = n + 1
        <3>1. n \in 0..n /\ k - 1 = n
            BY <2>1
        <3>2. d[k - 1] = Len(c) /\ d[k] = Len(c) + Len(t)
            BY <1>2, <1>3, <2>1, <3>1
        <3>3. SubSeq(c \o t, Len(c) + 1, Len(c) + Len(t)) = t
            BY SubSeqOfSuffix
        <3>4. SubSeq(c \o t, d[k - 1] + 1, d[k]) = t
            BY <3>2, <3>3
        <3> QED
            <4>1. Len(c) <= Len(c) + Len(t)
                BY <1>1
            <4> QED
                BY <2>1, <3>2, <3>4, <4>1
    <2>2. CASE k # n + 1
        <3>1. k \in 1..n /\ k \in 0..n /\ k - 1 \in 0..n
            BY <2>2
        <3>2. d[k - 1] = b[k - 1] /\ d[k] = b[k]
              /\ b[k - 1] \in Nat /\ b[k] \in Nat /\ b[k] <= Len(c)
            BY <1>3, <3>1
        <3>3. SubSeq(c \o t, b[k - 1] + 1, b[k]) = SubSeq(c, b[k - 1] + 1, b[k])
            <4>1. PICK a \in Nat, e \in Nat : a = b[k - 1] /\ e = b[k]
                BY <3>2
            <4>2. e <= Len(c)
                BY <3>2, <4>1
            <4>3. SubSeq(c \o t, a + 1, e) = SubSeq(c, a + 1, e)
                BY <4>2, SubSeqOfPrefix
            <4> QED
                BY <4>1, <4>3
        <3> QED
            BY <1>2, <3>1, <3>2, <3>3
    <2> QED
        BY <2>1, <2>2
<1>6. d[0] = 0
    BY <1>2, <1>3
<1>7. CutsInto(d, c \o t, s, n + 1)
    BY <1>1, <1>3, <1>4, <1>5, <1>6 DEF CutsInto
<1> QED
    BY <1>7

\* FlattenSeq makes a sequence that can be cut into what it was made of.
LEMMA FlattenCut ==
    ASSUME NEW S, NEW s \in Seq(Seq(S)), s # <<>>
    PROVE  /\ FlattenSeq(s) \in Seq(S)
           /\ \E b : CutsInto(b, FlattenSeq(s), s, Len(s))
<1>1. PICK f : /\ f = [i \in 1..Len(s) |-> IF i = 1 THEN s[i] ELSE f[i - 1] \o s[i]]
               /\ FlattenSeq(s) = f[Len(s)]
    BY FlattenIs
<1>2. PICK n \in Nat : n = Len(s) /\ n >= 1 /\ \A i \in 1..n : s[i] \in Seq(S)
    BY EmptySeq
<1> DEFINE T == {i \in 1..n : f[i] \in Seq(S) /\ \E b : CutsInto(b, f[i], s, i)}
<1>3. 1 \in T
    <2>1. f[1] = s[1] /\ s[1] \in Seq(S) /\ 1 \in 1..n
        BY <1>1, <1>2
    <2> DEFINE b == [k \in 0..1 |-> IF k = 0 THEN 0 ELSE Len(s[1])]
    <2>2. Len(s[1]) \in Nat
        BY <2>1
    <2>3. b \in [0..1 -> 0..Len(s[1])] /\ b[0] = 0 /\ b[1] = Len(s[1])
        BY <2>2
    <2>4. SubSeq(s[1], 1, Len(s[1])) = s[1]
        BY <2>1, SubSeqFull
    <2> HIDE DEF b
    <2>5. ASSUME NEW k \in 1..1
          PROVE  b[k - 1] <= b[k] /\ SubSeq(s[1], b[k - 1] + 1, b[k]) = s[k]
        <3>1. k = 1 /\ k - 1 = 0
            OBVIOUS
        <3> QED
            BY <2>2, <2>3, <2>4, <3>1
    <2>6. CutsInto(b, s[1], s, 1)
        BY <2>3, <2>5 DEF CutsInto
    <2> QED
        BY <2>1, <2>6
<1>4. ASSUME NEW i \in 1..n, i \in T, i # n
      PROVE  i + 1 \in T
    <2>1. i + 1 \in 1..n /\ i \in Nat /\ i + 1 # 1 /\ i + 1 - 1 = i
        BY <1>2, <1>4
    <2>2. f[i + 1] = f[i] \o s[i + 1]
        <3>1. PICK j \in 1..Len(s) : j = i + 1 /\ j # 1 /\ j - 1 = i
            BY <1>2, <2>1
        <3>2. f[j] = f[j - 1] \o s[j]
            BY <1>1, <3>1
        <3> QED
            BY <3>1, <3>2
    <2>3. f[i] \in Seq(S) /\ s[i + 1] \in Seq(S)
        BY <1>2, <1>4, <2>1
    <2>4. PICK b : CutsInto(b, f[i], s, i)
        BY <1>4
    <2>5. \E d : CutsInto(d, f[i] \o s[i + 1], s, i + 1)
        BY <2>1, <2>3, <2>4, CutExtended
    <2>6. f[i] \o s[i + 1] \in Seq(S)
        BY <2>3, ConcatProperties
    <2> QED
        BY <2>1, <2>2, <2>5, <2>6
<1> HIDE DEF T
<1>5. \A i \in 1..n : i \in T
    BY <1>2, <1>3, <1>4, CountingUp
<1>6. n \in T
    BY <1>2, <1>5
<1> QED
    BY <1>1, <1>2, <1>6 DEF T

-----------------------------------------------------------------------------
(* What is written is understood.                                          *)

\* What the fields of a symbol are given makes a message that can be cut again
\* into what they were given.
LEMMA ContentCut ==
    ASSUME NEW i \in 1..Len(Symbols), NEW g,
           \A k \in 1..Len(Symbols[i]) : g[Symbols[i][k]] \in Values
    PROVE  /\ Content(i, g) \in Values
           /\ \E b : /\ b \in [0..Len(Symbols[i]) -> 0..Len(Content(i, g))]
                     /\ b[0] = 0 /\ b[Len(Symbols[i])] = Len(Content(i, g))
                     /\ \A k \in 1..Len(Symbols[i]) :
                           /\ b[k - 1] <= b[k]
                           /\ SubSeq(Content(i, g), b[k - 1] + 1, b[k])
                                  = g[Symbols[i][k]]
<1>1. PICK n \in Nat \ {0} : n = Len(Symbols[i])
    BY ParsingAssumption
<1> DEFINE s == [k \in 1..n |-> g[Symbols[i][k]]]
<1>2. s \in Seq(Seq(Units)) /\ Len(s) = n /\ s # <<>>
    <2>1. \A k \in 1..n : s[k] \in Seq(Units)
        BY <1>1 DEF Values
    <2>2. s \in [1..n -> Seq(Units)]
        BY <2>1
    <2> HIDE DEF s
    <2>3. s \in Seq(Seq(Units)) /\ Len(s) = n
        BY <1>1, <2>2
    <2> QED
        BY <1>1, <2>3
<1>3. Content(i, g) = FlattenSeq(s)
    BY <1>1 DEF Content
<1>4. \A k \in 1..n : s[k] = g[Symbols[i][k]]
    OBVIOUS
<1> HIDE DEF s
<1>5. /\ FlattenSeq(s) \in Seq(Units)
      /\ \E b : CutsInto(b, FlattenSeq(s), s, n)
    BY <1>2, FlattenCut
<1>6. PICK b : CutsInto(b, Content(i, g), s, n)
    BY <1>3, <1>5
<1>7. Content(i, g) \in Values
    BY <1>3, <1>5 DEF Values
<1>8. /\ b \in [0..n -> 0..Len(Content(i, g))]
      /\ b[0] = 0 /\ b[n] = Len(Content(i, g))
      /\ \A k \in 1..n :
            /\ b[k - 1] <= b[k]
            /\ SubSeq(Content(i, g), b[k - 1] + 1, b[k]) = g[Symbols[i][k]]
    BY <1>4, <1>6 DEF CutsInto
<1> QED
    BY <1>1, <1>7, <1>8

\* An actor whose session values and constants are the same understands the same.
LEMMA EchoCarries ==
    ASSUME NEW m, NEW w, EchoFits(m),
           \A v \in Leafs :
              /\ Scope[v] = "CONSTANT" => w[v] = m[v]
              /\ Scope[v] = "SESSION" /\ (m[v] # None \/ Constant[v] # None)
                    => w[v] = m[v]
    PROVE  EchoFits(w)
<1> SUFFICES ASSUME echo # None
             PROVE  \E i \in 1..Len(Symbols) : Knows(i, w) /\ Cuts(i, w, echo) # {}
    BY DEF EchoFits
<1>1. PICK i \in 1..Len(Symbols) : Knows(i, m) /\ Cuts(i, m, echo) # {}
    BY DEF EchoFits
<1>2. \A k \in 1..Len(Symbols[i]) : Symbols[i][k] \in Leafs
    BY ParsingAssumption
<1>3. Knows(i, w)
    BY <1>1, <1>2 DEF Knows
<1>4. PICK b \in Cuts(i, m, echo) : TRUE
    BY <1>1
<1>5. ASSUME NEW k \in 1..Len(Symbols[i]), NEW c, Fits(m, Symbols[i][k], c)
      PROVE  Fits(w, Symbols[i][k], c)
    <2>1. PICK v \in Leafs : v = Symbols[i][k]
        BY <1>2
    <2>2. Scope[v] \in {"SESSION", "CONSTANT"} => w[v] = m[v]
        BY <1>1, <2>1 DEF Knows
    <2> QED
        BY <1>5, <2>1, <2>2 DEF Fits
<1>6. b \in Cuts(i, w, echo)
    BY <1>4, <1>5 DEF Cuts
<1> QED
    BY <1>3, <1>6

\* What is emitted for a leaf fits it afterwards.
LEMMA EmittedFits ==
    ASSUME ParserInvariant, EnvironmentsFit, NEW v \in Leafs, NEW c \in Emits(v),
           NEW w, Memorizes(v) => w[v] = c, ~Memorizes(v) => w[v] = memory[v]
    PROVE  Fits(w, v, c)
<1>1. Constant[v] # None => Domain(v) = {Constant[v]}
    BY DEF Domain
<1>2. c \in Domain(v) \/ (memory[v] # None /\ c = memory[v])
    BY EmitsDomain
<1>3. CASE Scope[v] \in {"SESSION", "CONSTANT"}
    <2>1. CASE Memorizes(v)
        <3>1. w[v] = c
            BY <2>1
        <3>2. c \in Values
            BY EmitsValues DEF ParserInvariant, MemoryInvariant
        <3> QED
            BY <1>3, <3>1, <3>2, ParsingAssumption DEF Fits
    <2>2. CASE ~Memorizes(v)
        <3>1. w[v] = memory[v] /\ (Constant[v] # None \/ Scope[v] = "CONSTANT")
            BY <1>3, <2>2 DEF Memorizes
        <3>2. IsDefined(v) /\ c = Expected(v)
            BY <1>3, <3>1 DEF Emits, IsDefined, Expected
        <3> QED
            BY <1>3, <3>1, <3>2 DEF Fits, IsDefined, Expected
    <2> QED
        BY <2>1, <2>2
<1>4. CASE Scope[v] \notin {"SESSION", "CONSTANT"}
    <2>1. c \in Domain(v)
        <3>1. CASE Scope[v] = "NONE"
            BY <3>1 DEF Emits
        <3>2. CASE Scope[v] = "MESSAGE"
            <4>1. memory[v] \in Domain(v) \cup {m[v] : m \in Environments} \cup {None}
                BY DEF ParserInvariant, Given
            <4>2. memory[v] \in Domain(v) \cup {None}
                BY <3>2, <4>1 DEF EnvironmentsFit
            <4> QED
                BY <1>2, <4>2
        <3> QED
            BY <1>4, <3>1, <3>2, ParsingAssumption
    <2> QED
        BY <1>1, <1>4, <2>1 DEF Fits
<1> QED
    BY <1>3, <1>4

LEMMA WriteTypesEcho ==
    ASSUME ParserInvariant, echo \in Values \cup {None}, Write
    PROVE  echo' \in Values \cup {None}
<1>a. PICK i \in 1..Len(Symbols) : \E done, g :
         /\ \A v \in done : g[v] \in Emits(v)
         /\ \/ echo' = echo
            \/ /\ done = {Symbols[i][k] : k \in 1..Len(Symbols[i])}
               /\ echo' = Content(i, g)
    BY WriteFacts
<1>1. PICK done, g :
         /\ \A v \in done : g[v] \in Emits(v)
         /\ \/ echo' = echo
            \/ /\ done = {Symbols[i][k] : k \in 1..Len(Symbols[i])}
               /\ echo' = Content(i, g)
    BY <1>a
<1>2. CASE /\ done = {Symbols[i][k] : k \in 1..Len(Symbols[i])}
           /\ echo' = Content(i, g)
    <2>1. ASSUME NEW k \in 1..Len(Symbols[i]) PROVE g[Symbols[i][k]] \in Values
        <3>1. Symbols[i][k] \in done /\ Symbols[i][k] \in Leafs
            BY <1>2, ParsingAssumption
        <3>2. g[Symbols[i][k]] \in Emits(Symbols[i][k])
            BY <1>1, <3>1
        <3> QED
            BY <3>1, <3>2, EmitsValues DEF ParserInvariant, MemoryInvariant
    <2> QED
        BY <1>2, <2>1, ContentCut
<1> QED
    BY <1>1, <1>2

LEMMA WriteEchoes ==
    ASSUME EchoInvariant, Write
    PROVE  EchoInvariant'
<1>1. /\ ParserInvariant /\ EnvironmentsFit /\ EchoFits(memory)
      /\ phase = "idle" /\ phase' = "idle"
    BY DEF EchoInvariant, SearchInvariant, Write
<1>2. SearchInvariant' /\ EnvironmentsFit'
    BY SearchStep DEF EchoInvariant, Next, EnvironmentsFit, Domain
<1>a. PICK i \in 1..Len(Symbols) : \E done, g :
         /\ \A v \in done : g[v] \in Emits(v)
         /\ memory' = [v \in Leafs |-> IF v \in done /\ Memorizes(v)
                                       THEN g[v] ELSE memory[v]]
         /\ \/ echo' = echo
            \/ /\ done = {Symbols[i][k] : k \in 1..Len(Symbols[i])}
               /\ echo' = Content(i, g)
    BY WriteFacts
<1>3. PICK done, g :
         /\ \A v \in done : g[v] \in Emits(v)
         /\ memory' = [v \in Leafs |-> IF v \in done /\ Memorizes(v)
                                       THEN g[v] ELSE memory[v]]
         /\ \/ echo' = echo
            \/ /\ done = {Symbols[i][k] : k \in 1..Len(Symbols[i])}
               /\ echo' = Content(i, g)
    BY <1>a
<1>4. PICK w : w = memory'
    OBVIOUS
<1>5. ASSUME NEW v \in Leafs
      PROVE  \/ w[v] = memory[v]
             \/ v \in done /\ Memorizes(v) /\ w[v] = g[v] /\ w[v] \in Emits(v)
    BY <1>3, <1>4
<1>6. CASE echo' = echo
    <2>1. ASSUME NEW v \in Leafs
          PROVE  /\ Scope[v] = "CONSTANT" => w[v] = memory[v]
                 /\ Scope[v] = "SESSION" /\ (memory[v] # None \/ Constant[v] # None)
                       => w[v] = memory[v]
        BY <1>1, <1>5, EmitsValues DEF Memorizes, ParserInvariant, MemoryInvariant
    <2>2. EchoFits(w)
        BY <1>1, <2>1, EchoCarries
    <2>3. EchoFits(memory)'
        BY <1>4, <1>6, <2>2 DEF EchoFits
    <2> QED
        BY <1>1, <1>2, <2>3 DEF EchoInvariant
<1>7. CASE /\ done = {Symbols[i][k] : k \in 1..Len(Symbols[i])}
           /\ echo' = Content(i, g)
    <2>1. ASSUME NEW k \in 1..Len(Symbols[i])
          PROVE  /\ Symbols[i][k] \in Leafs /\ Symbols[i][k] \in done
                 /\ g[Symbols[i][k]] \in Emits(Symbols[i][k])
                 /\ g[Symbols[i][k]] \in Values
        <3>1. Symbols[i][k] \in done /\ Symbols[i][k] \in Leafs
            BY <1>7, ParsingAssumption
        <3>2. g[Symbols[i][k]] \in Emits(Symbols[i][k])
            BY <1>3, <3>1
        <3> QED
            BY <1>1, <3>1, <3>2, EmitsValues DEF ParserInvariant, MemoryInvariant
    <2>2. ASSUME NEW v \in done, v \in Leafs
          PROVE  /\ Memorizes(v) => w[v] = g[v]
                 /\ ~Memorizes(v) => w[v] = memory[v]
        BY <1>3, <1>4, <2>2
    <2>3. Knows(i, w)
        <3> SUFFICES ASSUME NEW k \in 1..Len(Symbols[i]),
                            Scope[Symbols[i][k]] = "SESSION",
                            Constant[Symbols[i][k]] = None
                     PROVE  w[Symbols[i][k]] # None
            BY DEF Knows
        <3>1. w[Symbols[i][k]] = g[Symbols[i][k]]
            BY <2>1, <2>2 DEF Memorizes
        <3> QED
            BY <2>1, <3>1, ParsingAssumption
    <2>4. ASSUME NEW k \in 1..Len(Symbols[i])
          PROVE  Fits(w, Symbols[i][k], g[Symbols[i][k]])
        BY <1>1, <2>1, <2>2, EmittedFits
    <2>5. PICK b : /\ b \in [0..Len(Symbols[i]) -> 0..Len(Content(i, g))]
                   /\ b[0] = 0 /\ b[Len(Symbols[i])] = Len(Content(i, g))
                   /\ \A k \in 1..Len(Symbols[i]) :
                         /\ b[k - 1] <= b[k]
                         /\ SubSeq(Content(i, g), b[k - 1] + 1, b[k])
                                = g[Symbols[i][k]]
        BY <2>1, ContentCut
    <2>6. b \in Cuts(i, w, Content(i, g))
        BY <2>4, <2>5 DEF Cuts
    <2>7. EchoFits(memory)'
        <3>1. Knows(i, w) /\ Cuts(i, w, echo') # {}
            BY <1>7, <2>3, <2>6
        <3> QED
            BY <1>4, <3>1 DEF EchoFits
    <2> QED
        BY <1>1, <1>2, <2>7 DEF EchoInvariant
<1> QED
    BY <1>3, <1>6, <1>7

LEMMA EchoStep ==
    ASSUME EchoInvariant, [Next]_vars
    PROVE  EchoInvariant'
<1>1. SearchInvariant' /\ EnvironmentsFit' /\ SearchInvariant /\ ParserInvariant
    BY SearchStep DEF EchoInvariant, SearchInvariant, EnvironmentsFit, Domain
<1>2. CASE Write
    BY <1>2, WriteEchoes
<1>3. CASE Reset
    <2>1. EchoFits(IF phase = "idle" THEN memory ELSE before)'
        BY <1>3 DEF Reset, EchoFits
    <2> QED
        BY <1>1, <2>1 DEF EchoInvariant
<1>4. CASE Receive
    <2>1. phase = "idle" /\ phase' # "idle" /\ before' = memory /\ echo' = echo
        BY <1>4 DEF Receive
    <2>2. EchoFits(memory)
        BY <2>1 DEF EchoInvariant
    <2>3. EchoFits(before)'
        BY <2>1, <2>2 DEF EchoFits
    <2> QED
        BY <1>1, <2>1, <2>3 DEF EchoInvariant
<1>5. CASE Accept \/ ReturnUnknown
    <2>1. phase # "idle" /\ phase' = "idle"
          /\ UNCHANGED <<memory, echo>>
        BY <1>5 DEF Accept, ReturnUnknown, Return, Accepting, Complete, Refusing
    <2>2. EchoFits(before)
        BY <2>1 DEF EchoInvariant
    <2>3. EchoFits(memory)
        BY <1>1, <2>2, EchoCarries
            DEF ParserInvariant, MemoryInvariant, SessionStable, Learned, Memorizes
    <2>4. EchoFits(memory)'
        BY <2>1, <2>3 DEF EchoFits
    <2> QED
        BY <1>1, <2>1, <2>4 DEF EchoInvariant
<1>6. CASE EnterField \/ TrySize \/ Backtrack \/ Incomplete \/ NextSymbol
    <2>1. phase # "idle" /\ phase' # "idle" /\ UNCHANGED <<before, echo>>
        BY <1>6 DEF EnterField, TrySize, Backtrack, Incomplete, Complete, NextSymbol,
                    Refusing
    <2>2. EchoFits(before)
        BY <2>1 DEF EchoInvariant
    <2>3. EchoFits(before)'
        BY <2>1, <2>2 DEF EchoFits
    <2> QED
        BY <1>1, <2>1, <2>3 DEF EchoInvariant
<1>7. CASE UNCHANGED vars
    <2>1. UNCHANGED <<phase, memory, before, echo>>
        BY <1>7 DEF vars
    <2>2. EchoFits(IF phase = "idle" THEN memory ELSE before)'
        BY <2>1 DEF EchoInvariant, EchoFits
    <2> QED
        BY <1>1, <2>2 DEF EchoInvariant
<1> QED
    BY <1>2, <1>3, <1>4, <1>5, <1>6, <1>7 DEF Next, ParserStep

\* A message that every symbol has refused is not one that the actor wrote.
LEMMA EchoIsNotRefused ==
    ASSUME EchoInvariant
    PROVE  EchoUnderstood
<1> SUFFICES ASSUME Refusing, symbol = Len(Symbols), data = echo
             PROVE  FALSE
    BY DEF EchoUnderstood
<1>1. /\ SearchInvariant /\ Typing /\ EchoFits(before)
    BY DEF EchoInvariant, SearchInvariant, ParserInvariant, MemoryInvariant, Refusing
<1>2. echo # None
    BY <1>1, ParsingAssumption DEF Typing
<1>3. PICK i \in 1..Len(Symbols) : Knows(i, before) /\ Cuts(i, before, data) # {}
    BY <1>1, <1>2 DEF EchoFits
<1>4. i \in 1..(symbol - 1) \/ i = symbol
    BY <1>1 DEF Typing
<1> QED
    BY <1>1, <1>3, <1>4, RefusingRefutes DEF SearchInvariant, Refuted

-----------------------------------------------------------------------------
(* The theorems.                                                           *)

ResultInvariant == SearchInvariant /\ echo \in Values \cup {None}

LEMMA ResultStep ==
    ASSUME ResultInvariant, [Next]_vars
    PROVE  ResultInvariant'
<1>1. SearchInvariant' /\ ParserInvariant
    BY SearchStep DEF ResultInvariant, SearchInvariant
<1>2. CASE Write
    BY <1>1, <1>2, WriteTypesEcho DEF ResultInvariant
<1>3. CASE Reset
    BY <1>1, <1>3 DEF Reset, ResultInvariant
<1>4. CASE UNCHANGED echo
    BY <1>1, <1>4 DEF ResultInvariant
<1>5. ParserStep \/ Receive \/ UNCHANGED vars => UNCHANGED echo
    BY DEF ParserStep, EnterField, TrySize, Backtrack, Incomplete, Accept, NextSymbol,
           ReturnUnknown, Receive, vars
<1> QED
    BY <1>2, <1>3, <1>4, <1>5 DEF Next

LEMMA ResultTypes ==
    ASSUME ResultInvariant
    PROVE  TypeOK
<1>1. Typing /\ Given /\ GeneratorsFit /\ echo \in Values \cup {None}
    BY DEF ResultInvariant, SearchInvariant, ParserInvariant, MemoryInvariant
<1>2. ASSUME NEW k \in 1..Len(paths)
      PROVE  /\ paths[k].how = "valueCMP" => paths[k].at + paths[k].size <= Len(data)
             /\ paths[k].at + paths[k].size <= Len(data) + 1
    <2>1. GeneratorFits(k) /\ EndOf(k) = paths[k].at + paths[k].size
          /\ EndOf(k) <= Len(data) + 1
        BY <1>1, GeneratorTypes DEF GeneratorsFit
    <2> QED
        BY <2>1 DEF GeneratorFits
<1>3. DOMAIN memory = Leafs /\ DOMAIN before = Leafs
    BY <1>1 DEF Typing
<1> QED
    BY <1>1, <1>2, <1>3 DEF TypeOK, Typing, Given

\* Between any two steps of the parser, on every list of symbols and every data:
\* each generator stands for a part of the data that fits its leaf, and the parser
\* has passed by no cut of the data that fits the symbol, provided that the actor
\* knew the session values of the symbol (MessageParser, Data.valueCMP, learn and
\* domainCMP).
THEOREM SearchIsInvariant == Spec => []ResultInvariant
<1>1. Init => ResultInvariant
    BY SearchInit DEF Init, ResultInvariant
<1>2. ResultInvariant /\ [Next]_vars => ResultInvariant'
    BY ResultStep
<1> QED
    BY <1>1, <1>2, PTL DEF Spec

\* A message that is accepted is understood as the symbol says: its fields cover
\* the data and contradict nothing that the actor remembered, the actor remembers
\* what they said, and of several ways to fit it is the one with the longest first
\* fields (MessageParser.parseBitarray).
THEOREM AcceptedIsUnderstood == Spec => []AcceptedCorrectly
<1>1. ResultInvariant => AcceptedCorrectly
    BY ResultTypes, AcceptingFits, AcceptingRemembers, AcceptingIsLongest
        DEF ResultInvariant, SearchInvariant, AcceptedCorrectly
<1> QED
    BY <1>1, SearchIsInvariant, PTL

\* A symbol is refused only when there is no way to cut the data into its fields,
\* if the actor had met the session values of the symbol before.
THEOREM RefusedIsNoFit == Spec => []RefusedDoesNotFit
<1>1. ResultInvariant => RefusedDoesNotFit
    BY RefusingIsRight DEF ResultInvariant
<1> QED
    BY <1>1, SearchIsInvariant, PTL

\* What the actor has written in this session it also understands, whatever it has
\* read, refused or written in between, if the memory that it was given holds
\* values of the domains for the leafs that are learned with each message.
THEOREM EchoIsUnderstood == EnvironmentsFit /\ Spec => []EchoUnderstood
<1>1. EnvironmentsFit /\ Init => EchoInvariant
    BY SearchInit DEF Init, EchoInvariant, EchoFits
<1>2. EchoInvariant /\ [Next]_vars => EchoInvariant'
    BY EchoStep
<1>3. EchoInvariant => EchoUnderstood
    BY EchoIsNotRefused
<1> QED
    BY <1>1, <1>2, <1>3, PTL DEF Spec
=============================================================================
