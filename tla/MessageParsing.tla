---------------------------- MODULE MessageParsing ----------------------------
(***************************************************************************)
(* How an actor turns received data into symbols and symbols into data:    *)
(* AbstractionLayer.readSymbol and writeSymbol, the backtracking parser    *)
(* (MessageParser, Data.valueCMP, learn, domainCMP) and the memory, which  *)
(* all the parsing paths share.                                            *)
(*                                                                         *)
(* The generators of the parser are a stack with one entry for each field  *)
(* that has been given a part of the data.  A step resumes or leaves one   *)
(* generator.  Fields are leaves of type Data.                             *)
(***************************************************************************)
EXTENDS Integers, Sequences, FiniteSets, SequencesExt

CONSTANTS
    Leafs,       \* the Data variables, one for each field
    Units,       \* the bytes that occur
    None,        \* no value
    Symbols,     \* the list automata.symbols: lists of leafs
    Scope,       \* the scope of each leaf
    MinSize,     \* dataType.size, in bytes
    MaxSize,
    Alphabet,    \* the bytes its type accepts
    Constant,    \* dataType.value, or None
    Environments,  \* the memories that an actor may be given at the start
    MaxData      \* bound: the length of received data

Values == Seq(Units)

ASSUME ParsingAssumption ==
    /\ None \notin Values
    /\ Symbols \in Seq(Seq(Leafs)) /\ Len(Symbols) > 0
    /\ \A i \in 1..Len(Symbols) : Len(Symbols[i]) > 0 /\ IsInjective(Symbols[i])
    /\ Scope \in [Leafs -> {"CONSTANT", "SESSION", "MESSAGE", "NONE"}]
    /\ MinSize \in [Leafs -> Nat] /\ MaxSize \in [Leafs -> Nat]
    /\ Alphabet \in [Leafs -> SUBSET Units]
    /\ Constant \in [Leafs -> Values \cup {None}]
    /\ Environments \subseteq [Leafs -> Values \cup {None}]
    /\ MaxData \in Nat

VARIABLES
    memory,    \* Memory.memory of the actor, shared by all parsing paths
    data,      \* the received data
    symbol,    \* the index of potentialSymbol
    paths,     \* the suspended generators, one for each field parsed so far
    phase,     \* idle, at the next field, or back in the last generator
    before,    \* history: the memory when the last read began
    echo       \* history: some message written since the last reset, or None

vars == <<memory, data, symbol, paths, phase, before, echo>>

Nothing == [v \in Leafs |-> None]

Init ==
    /\ memory \in Environments /\ before = memory
    /\ data = <<>> /\ symbol = 1 /\ paths = <<>> /\ phase = "idle"
    /\ echo = None

-----------------------------------------------------------------------------
(* The leafs. *)

\* Data.isDefined and the value that valueCMP and use take: memory first.
Expected(v)  == IF memory[v] # None THEN memory[v] ELSE Constant[v]
IsDefined(v) == Expected(v) # None

\* Mutant of How: a session value is learned each time.
LearnsAgain(v) == IF Scope[v] = "NONE" THEN "domainCMP" ELSE "learn"

\* AbstractVariableLeaf.parse: which generator the scope calls for.
How(v) ==
    CASE Scope[v] = "NONE" -> "domainCMP"
      [] Scope[v] = "MESSAGE" -> "learn"
      [] Scope[v] = "SESSION" -> IF IsDefined(v) THEN "valueCMP" ELSE "learn"
      [] Scope[v] = "CONSTANT" -> IF IsDefined(v) THEN "valueCMP" ELSE "none"

\* getFixedBitSize of a type with a value is the length of the value.
Least(v)    == IF Constant[v] # None THEN Len(Constant[v]) ELSE MinSize[v]
Greatest(v) == IF Constant[v] # None THEN Len(Constant[v]) ELSE MaxSize[v]

\* dataType.canParse, which is not asked about an empty content.
CanParse(v, c) ==
    \/ c = <<>>
    \/ IF Constant[v] # None THEN c = Constant[v] ELSE ToSet(c) \subseteq Alphabet[v]

\* The values of the domain of v: what dataType.generate may return.
Domain(v) ==
    IF Constant[v] # None THEN {Constant[v]}
    ELSE UNION {[1..n -> Alphabet[v]] : n \in MinSize[v]..MaxSize[v]}

-----------------------------------------------------------------------------
(* Reading a message. *)

Fields == Symbols[symbol]

Consumed == IF paths = <<>> THEN 0 ELSE Last(paths).at + Last(paths).size

Rest == Len(data) - Consumed

\* A generator of field v that has been given size bytes from position at on.
Path(at, size, how) == [at |-> at, size |-> size, how |-> how]

Part(at, size) == SubSeq(data, at + 1, at + size)

\* valueCMP: the rest of the data begins with the value.
Begins(e) == Len(e) <= Rest /\ Part(Consumed, Len(e)) = e

\* readSymbol gets data, and tries the first symbol.
Receive ==
    /\ phase = "idle"
    /\ \E n \in 1..MaxData : data' \in [1..n -> Units]
    /\ symbol' = 1 /\ paths' = <<>>
    /\ phase' = "field"
    /\ before' = memory
    /\ UNCHANGED <<memory, echo>>

\* _parseBitArrayWithField calls parse on the leaf of the next field: valueCMP
\* yields at most one path, learn and domainCMP count the sizes down.
EnterField ==
    /\ phase = "field" /\ Len(paths) < Len(Fields)
    /\ LET v   == Fields[Len(paths) + 1]
           how == How(v)
           e   == Expected(v)
           top == IF Greatest(v) < Rest THEN Greatest(v) ELSE Rest
       IN \/ /\ how = "valueCMP" /\ Begins(e)
             /\ paths' = Append(paths, Path(Consumed, Len(e), how))
             /\ phase' = "field"
          \/ /\ how = "none" \/ (how = "valueCMP" /\ ~Begins(e))
             /\ paths' = paths
             /\ phase' = "back"
          \/ /\ how \in {"learn", "domainCMP"}
             /\ paths' = Append(paths, Path(Consumed, top + 1, how))
             /\ phase' = "back"
    /\ UNCHANGED <<memory, data, symbol, before, echo>>

\* The last generator tries the next smaller size; learn memorizes before it
\* yields the path.
TrySize ==
    /\ phase = "back" /\ paths # <<>>
    /\ LET p == Last(paths)
           v == Fields[Len(paths)]
           c == Part(p.at, p.size - 1)
       IN /\ p.how # "valueCMP" /\ p.size > Least(v)
          /\ paths' = [paths EXCEPT ![Len(paths)].size = @ - 1]
          /\ IF CanParse(v, c)
             THEN /\ memory' = IF p.how = "learn" THEN [memory EXCEPT ![v] = c]
                                                  ELSE memory
                  /\ phase' = "field"
             ELSE UNCHANGED <<memory, phase>>
    /\ UNCHANGED <<data, symbol, before, echo>>

\* Mutant of Backtrack: the generator stops before the smallest size.
StopEarly ==
    /\ phase = "back" /\ paths # <<>>
    /\ \/ Last(paths).how = "valueCMP"
       \/ Last(paths).size <= Least(Fields[Len(paths)]) + 1
    /\ paths' = Front(paths)
    /\ UNCHANGED <<memory, data, symbol, phase, before, echo>>

\* Mutant of Backtrack: an exhausted generator is started again.
StartAgain ==
    /\ phase = "back" /\ paths # <<>>
    /\ Last(paths).how = "valueCMP" \/ Last(paths).size <= Least(Fields[Len(paths)])
    /\ paths' = Front(paths)
    /\ phase' = "field"
    /\ UNCHANGED <<memory, data, symbol, before, echo>>

\* The last generator is exhausted; what it memorized stays in the memory.
Backtrack ==
    /\ phase = "back" /\ paths # <<>>
    /\ Last(paths).how = "valueCMP" \/ Last(paths).size <= Least(Fields[Len(paths)])
    /\ paths' = Front(paths)
    /\ UNCHANGED <<memory, data, symbol, phase, before, echo>>

\* All the fields have a part of the data.
Complete == phase = "field" /\ Len(paths) = Len(Fields)

\* Something remains: the path is abandoned.
Incomplete ==
    /\ Complete /\ Rest > 0
    /\ phase' = "back"
    /\ UNCHANGED <<memory, data, symbol, paths, before, echo>>

\* The parser returns; data and generators are forgotten.
Return == phase' = "idle" /\ data' = <<>> /\ symbol' = 1 /\ paths' = <<>>

\* Mutant of Accepting: what remains of the data is not looked at.
AcceptingPrefix == Complete

\* The first path that consumes everything is the result.
Accepting == Complete /\ Rest = 0

Accept ==
    /\ Accepting
    /\ Return
    /\ UNCHANGED <<memory, before, echo>>

\* InvalidParsingPathException: the symbol does not fit.
Refusing == phase = "back" /\ paths = <<>>

NextSymbol ==
    /\ Refusing /\ symbol < Len(Symbols)
    /\ symbol' = symbol + 1
    /\ phase' = "field"
    /\ UNCHANGED <<memory, data, paths, before, echo>>

\* No symbol fits: readSymbol returns an UnknownSymbol.
ReturnUnknown ==
    /\ Refusing /\ symbol = Len(Symbols)
    /\ Return
    /\ UNCHANGED <<memory, before, echo>>

ParserStep ==
    \/ EnterField \/ TrySize \/ Backtrack \/ Incomplete
    \/ Accept \/ NextSymbol \/ ReturnUnknown

-----------------------------------------------------------------------------
(* Writing a symbol. *)

\* Mutant of Memorizes: a generated session value is forgotten.
MemorizesMessage(v) == Scope[v] = "MESSAGE"

\* The scopes under which specialize memorizes what it generates.
Memorizes(v) ==
    Scope[v] = "MESSAGE" \/ (Scope[v] = "SESSION" /\ Constant[v] = None)

\* use, regenerate or regenerateAndMemorize.
Emits(v) ==
    IF Scope[v] = "NONE" THEN Domain(v)
    ELSE IF IsDefined(v) THEN {Expected(v)}
    ELSE IF Scope[v] = "CONSTANT" THEN {}
    ELSE Domain(v)

\* The message made of the values g of the fields of symbol i.
Content(i, g) == FlattenSeq([k \in 1..Len(Symbols[i]) |-> g[Symbols[i][k]]])

\* writeSymbol.  The fields are specialized in order; a constant leaf without
\* value makes it fail where it stands, after the fields before it memorized.
\* When channel.write fails the memory has changed and nothing is sent.
Write ==
    /\ phase = "idle"
    /\ \E i \in 1..Len(Symbols) :
       \E n \in 0..Len(Symbols[i]) :
       LET done == {Symbols[i][k] : k \in 1..n}
       IN /\ \A v \in done : Emits(v) # {}
          /\ n < Len(Symbols[i]) => Emits(Symbols[i][n + 1]) = {}
          /\ \E g \in [done -> UNION {Emits(v) : v \in done}] :
                /\ \A v \in done : g[v] \in Emits(v)
                /\ memory' = [v \in Leafs |-> IF v \in done /\ Memorizes(v)
                                              THEN g[v] ELSE memory[v]]
                /\ echo' \in {echo} \cup (IF n = Len(Symbols[i])
                                          THEN {Content(i, g)} ELSE {})
    /\ UNCHANGED <<data, symbol, paths, phase, before>>

\* AbstractionLayer.reset.
Reset ==
    /\ phase = "idle"
    /\ memory' = Nothing /\ before' = Nothing /\ echo' = None
    /\ UNCHANGED <<data, symbol, paths, phase>>

Next == ParserStep \/ Receive \/ Write \/ Reset

Spec == Init /\ [][Next]_vars

\* The parser runs to its end: nothing it calls blocks.
FairSpec == Spec /\ WF_vars(ParserStep)

-----------------------------------------------------------------------------
(* What the documentation of Scope means by a message that fits a symbol. *)

\* Content c fits leaf v for an actor that remembers m.
Fits(m, v, c) ==
    IF Scope[v] \in {"SESSION", "CONSTANT"} /\ m[v] # None THEN c = m[v]
    ELSE IF Constant[v] # None THEN c = Constant[v]
    ELSE Scope[v] # "CONSTANT" /\ c \in Domain(v)

\* The ways to cut the data into the fields of the symbol: the positions where
\* the fields end.
Alignments(m) ==
    {b \in [0..Len(Fields) -> 0..Len(data)] :
        /\ b[0] = 0 /\ b[Len(Fields)] = Len(data)
        /\ \A k \in 1..Len(Fields) :
              /\ b[k - 1] <= b[k]
              /\ Fits(m, Fields[k], Part(b[k - 1], b[k] - b[k - 1]))}

\* The cut that the suspended generators stand for.
Cut == [k \in 0..Len(paths) |-> IF k = 0 THEN 0 ELSE paths[k].at + paths[k].size]

\* Cut a gives more than cut b to the first field where they differ.
Longer(a, b) ==
    \E k \in 1..Len(Fields) : a[k] > b[k] /\ \A j \in 1..k-1 : a[j] = b[j]

\* The actor has met all the session values of the symbol before this read.
Acquainted ==
    \A k \in 1..Len(Fields) :
        Scope[Fields[k]] = "SESSION" =>
            before[Fields[k]] # None \/ Constant[Fields[k]] # None

-----------------------------------------------------------------------------
(* Properties. *)

\* The one type invariant: among others, what is remembered of a leaf is a value
\* of its domain, so that it can be written again, or what the actor was given
\* (Memory.memorize takes any value).
TypeOK ==
    /\ \A v \in Leafs :
          memory[v] \in Domain(v) \cup {m[v] : m \in Environments} \cup {None}
    /\ DOMAIN memory = Leafs /\ DOMAIN before = Leafs
    /\ data \in Values /\ echo \in Values \cup {None}
    /\ symbol \in 1..Len(Symbols) /\ phase \in {"idle", "field", "back"}
    /\ Len(paths) <= Len(Fields)
    /\ \A k \in 1..Len(paths) :
          /\ paths[k].how = "valueCMP" => paths[k].at + paths[k].size <= Len(data)
          /\ paths[k].at + paths[k].size <= Len(data) + 1

\* A session value that was known when a message came is never replaced, by
\* whatever paths the parser tries and abandons, nor by a later write
\* (AbstractVariableLeaf.parse, Data.learn, Data.regenerateAndMemorize).
SessionStable ==
    \A v \in Leafs :
        Scope[v] = "SESSION" /\ before[v] # None => memory[v] = before[v]

\* An accepted message really fits the symbol: its fields cover the data, and
\* none contradicts the memory the actor had (MessageParser.parseBitarray).
AcceptedFits == Accepting => Cut \in Alignments(before)

\* The actor remembers what an accepted message said, and not what a path that
\* was abandoned later said (Data.learn).
AcceptedIsRemembered ==
    Accepting =>
        \A k \in 1..Len(Fields) :
            Memorizes(Fields[k]) =>
                memory[Fields[k]] = Part(paths[k].at, paths[k].size)

\* A symbol is refused only when the message does not fit it, if the actor had
\* met the session values of the symbol before.
RefusedDoesNotFit == Refusing /\ Acquainted => Alignments(before) = {}

\* Of several ways to fit, the longest first field wins, then the second
\* (the sizes are counted down).
LongestFirst ==
    Accepting /\ Acquainted => \A b \in Alignments(before) : ~Longer(b, Cut)

\* A message that is accepted is understood as the symbol says: the types, the
\* parts of the data, what is remembered of them, and the choice among the cuts.
AcceptedCorrectly == TypeOK /\ AcceptedFits /\ AcceptedIsRemembered /\ LongestFirst

\* What the actor has written in this session, it also understands, however
\* many messages it read or refused in between.
EchoUnderstood == ~(Refusing /\ symbol = Len(Symbols) /\ data = echo)

\* Every message is accepted or refused: the backtracking ends.
ReadingEnds == phase # "idle" ~> phase = "idle"

=============================================================================
