------------------------------ MODULE DomainTrees ------------------------------
(***************************************************************************)
(* How a message is specialized from the domains of the fields of a symbol *)
(* and parsed against them: the leaves Data, Size, Value and checksums,    *)
(* the nodes Agg, Alt, Opt and Repeat, and the callbacks by which a path   *)
(* completes or verifies a relation when its targets get their values.     *)
(*                                                                         *)
(* A path is a value here.  Where the code goes on with the path that it   *)
(* has handed to a method, the model goes on with the path that comes      *)
(* back.  A generator of the parser is the sequence of the paths that it   *)
(* yields; a random choice of the specializer is a set of outcomes, of     *)
(* which only the first path that is yielded matters.                      *)
(***************************************************************************)
EXTENDS Integers, Sequences, FiniteSets, SequencesExt

CONSTANTS
    Variables,     \* the variables of the domains
    Kind,          \* the class of each variable
    Children,      \* the children of a node
    LastOptional,  \* the Aggs with last_optional
    Targets,       \* the targets of a relation
    Constant,      \* the value of a constant Data
    MinSize,       \* the sizes of a Data without value
    MaxSize,
    Alphabet,      \* the bytes that it accepts
    Times,         \* nbRepeat of a Repeat: a pair, or the variable that counts
    Delimiter,     \* of a Repeat, or <<>>
    Symbols,       \* for each symbol the domains of its fields
    MaxByte,       \* the greatest byte
    MaxData        \* bound: the length of received data

Bytes == 0..MaxByte
Relations == {"Size", "Value", "Checksum"}

ASSUME DomainsAssumption ==
    /\ Kind \in [Variables -> {"Constant", "Data", "Agg", "Alt", "Repeat"} \cup Relations]
    /\ Children \in [Variables -> Seq(Variables)]
    /\ Targets \in [Variables -> Seq(Variables)]
    /\ Constant \in [Variables -> Seq(Bytes)] /\ Delimiter \in [Variables -> Seq(Bytes)]
    /\ MinSize \in [Variables -> Nat] /\ MaxSize \in [Variables -> Nat]
    /\ Alphabet \in [Variables -> SUBSET Bytes]
    /\ Symbols \in Seq(Seq(Variables))
    /\ MaxByte \in Nat /\ MaxData \in Nat

VARIABLES
    phase,   \* idle, wire: a message is on its way, parsed
    symbol,  \* the symbol of the message
    data,    \* its content
    sent,    \* the path that it was specialized with, or None
    found    \* the path that parsing returned, or None

vars == <<phase, symbol, data, sent, found>>

None == [data |-> <<>>]

Init == phase = "idle" /\ symbol = 1 /\ data = <<>> /\ sent = None /\ found = None

-----------------------------------------------------------------------------
(* Paths. *)

\* variablesCallbacks is a list; _current_callbacks_operation is not copied.
NewPath == [data |-> <<>>, callbacks |-> <<>>, running |-> {}, ok |-> TRUE]

Has(p, v) == v \in DOMAIN p.data
AssignData(p, v, c) == [p EXCEPT !.data = [x \in DOMAIN @ \cup {v} |->
                                               IF x = v THEN c ELSE @[x]]]
RemoveData(p, gone) == [p EXCEPT !.data = [x \in DOMAIN @ \ gone |-> @[x]]]
CopyPath(p) == [p EXCEPT !.running = {}]

Register(p, targets, v) ==
    LET callback == [targets |-> targets, current |-> v]
    IN  IF callback \in ToSet(p.callbacks) THEN p
        ELSE [p EXCEPT !.callbacks = Append(@, callback)]

Starts(c, beginning) == IsPrefix(beginning, c)
From(c, n) == SubSeq(c, n + 1, Len(c))   \* c[n:]
To(c, n) == SubSeq(c, 1, IF n < Len(c) THEN n ELSE Len(c))   \* c[:n]
LesserOf(a, b) == IF a < b THEN a ELSE b

RECURSIVE Descendants(_)
Descendants(v) ==
    {v} \cup UNION {Descendants(Children[v][i]) : i \in DOMAIN Children[v]}

IsNode(v) == Kind[v] \in {"Agg", "Alt", "Repeat"}
IsParent(u, v) == v \in ToSet(Children[u])

-----------------------------------------------------------------------------
(* What a relation computes from its targets: a value, an exception that     *)
(* names a target that it misses, or another exception.                      *)

Computed(c) == [is |-> "value", value |-> c, target |-> 0]
Missing(v)  == [is |-> "missing", value |-> <<>>, target |-> v]
Failure     == [is |-> "error", value |-> <<>>, target |-> 0]

\* getFixedBitSize, or -1.  The dataType of a relation has one byte, that of a
\* Value too whatever its target.
FixedSize(v) ==
    CASE Kind[v] = "Constant" -> Len(Constant[v])
      [] Kind[v] = "Data" /\ MinSize[v] = MaxSize[v] -> MinSize[v]
      [] Kind[v] \in Relations -> 1
      [] OTHER -> -1

\* The terms of the sum: an aggregate without data stands for its children.
RECURSIVE Terms(_, _)
Terms(p, v) ==
    IF Has(p, v) \/ Kind[v] # "Agg" THEN <<v>>
    ELSE FlattenSeq([i \in DOMAIN Children[v] |-> Terms(p, Children[v][i])])

ComputeSize(p, v) ==
    LET terms == FlattenSeq([i \in DOMAIN Targets[v] |-> Terms(p, Targets[v][i])])
        SizeOf(t) == IF t # v /\ Has(p, t) THEN Len(p.data[t]) ELSE FixedSize(t)
        unknown == SelectSeq(terms, LAMBDA t : SizeOf(t) = -1)
        nodes == SelectSeq(unknown, IsNode)
        size == FoldLeft(LAMBDA s, t : s + SizeOf(t), 0, terms)
    IN  IF nodes # <<>> THEN Missing(nodes[1])
        ELSE IF unknown # <<>> THEN Missing(unknown[1])
        ELSE IF size > MaxByte THEN Failure   \* too big, or struct.error
        ELSE Computed(<<size>>)

\* Mutant of ComputeChecksum: a target without data counts for nothing.
ChecksumOfKnown(p, v) ==
    LET bytes == FlattenSeq([i \in DOMAIN Targets[v] |->
                    IF Has(p, Targets[v][i]) THEN p.data[Targets[v][i]] ELSE <<>>])
    IN  Computed(<<FoldLeft(LAMBDA s, b : s + b, 0, bytes) % (MaxByte + 1)>>)

\* The bytes of the targets; a relation counts itself as zeros.
ComputeChecksum(p, v) ==
    LET unknown == SelectSeq(Targets[v], LAMBDA t : t # v /\ ~Has(p, t))
        bytes == FlattenSeq([i \in DOMAIN Targets[v] |->
                    IF Targets[v][i] = v THEN <<0>> ELSE p.data[Targets[v][i]]])
    IN  IF unknown # <<>> THEN Missing(unknown[1])
        ELSE Computed(<<FoldLeft(LAMBDA s, b : s + b, 0, bytes) % (MaxByte + 1)>>)

ComputeValue(p, v) ==
    LET t == Targets[v][1]
    IN  IF Has(p, t) THEN Computed(p.data[t]) ELSE Missing(t)

ComputeExpectedValue(p, v) ==
    CASE Kind[v] = "Size" -> ComputeSize(p, v)
      [] Kind[v] = "Value" -> ComputeValue(p, v)
      [] Kind[v] = "Checksum" -> ComputeChecksum(p, v)

-----------------------------------------------------------------------------
(* Parsing.  Parse returns the paths, or the exception that a relation       *)
(* raises when a callback finds that it does not hold.                       *)

Yields(paths) == [mismatch |-> FALSE, paths |-> paths]
Mismatch == [mismatch |-> TRUE, paths |-> <<>>]

RECURSIVE Parse(_, _, _)
RECURSIVE RunParsing(_, _, _)
RECURSIVE ParseAgg(_, _, _, _)

\* _triggerVariablesCallbacks: the last callback first, and none after one that
\* raises no exception.
RunParsing(p, callbacks, succeeded) ==
    LET callback == Last(callbacks)
        Run(r) ==
            IF r.mismatch THEN RunParsing(p, Front(callbacks), FALSE)
            ELSE [succeeded |-> \E i \in DOMAIN r.paths : r.paths[i].ok,
                  paths |-> [i \in DOMAIN r.paths |-> [r.paths[i] EXCEPT !.running = p.running]]]
    IN  IF callbacks = <<>> THEN [succeeded |-> succeeded, paths |-> <<p>>]
        ELSE Run(Parse(callback.current, [p EXCEPT !.running = @ \cup {callback}], TRUE))

\* addResult.
AddParsed(p, v, c) ==
    RunParsing(AssignData(p, v, c),
               SelectSeq(p.callbacks, LAMBDA b :
                    b \notin p.running /\ b.current # v /\ v \in ToSet(b.targets)),
               TRUE)

\* The path itself after addResult, when the caller ignores what it returns.
WithParsed(p, v, c) ==
    LET First(paths) == IF paths # <<>> THEN paths[1] ELSE AssignData(p, v, c)
    IN  First(AddParsed(p, v, c).paths)

\* Data.valueCMP.
ParseConstant(p, v) ==
    IF Starts(p.data[v], Constant[v]) THEN AddParsed(p, v, Constant[v]).paths ELSE <<>>

\* The parts of the content from greatest to least.
Parts(content, least, greatest) ==
    LET top == LesserOf(greatest, Len(content))
    IN  [i \in 1..(IF top < least THEN 0 ELSE top - least + 1) |-> To(content, top - i + 1)]

\* Mutant of ParseData: what the result triggers is not looked at.
ParseDataAlone(p, v) ==
    LET parts == SelectSeq(Parts(p.data[v], MinSize[v], MaxSize[v]),
                           LAMBDA c : ToSet(c) \subseteq Alphabet[v])
    IN  [i \in DOMAIN parts |-> WithParsed(CopyPath(p), v, parts[i])]

\* Data.domainCMP.
ParseData(p, v) ==
    LET parts == SelectSeq(Parts(p.data[v], MinSize[v], MaxSize[v]),
                           LAMBDA c : ToSet(c) \subseteq Alphabet[v])
        Kept(r) == IF r.succeeded THEN r.paths ELSE <<>>
    IN  FlattenSeq([i \in DOMAIN parts |-> Kept(AddParsed(CopyPath(p), v, parts[i]))])

\* AbstractRelationVariableLeaf.domainCMP.  Any exception but a mismatch is
\* taken for a target that is not known yet.
ParseRelation(p, v, triggered) ==
    LET content == To(p.data[v], 1)
        Compare(expected) ==
            IF expected.is # "value"
            THEN Yields(<<AssignData(Register(p, Targets[v], v), v, content)>>)
            ELSE IF content = expected.value THEN Yields(<<WithParsed(p, v, content)>>)
            ELSE IF triggered THEN Mismatch
            ELSE Yields(<<>>)
    IN  Compare(ComputeExpectedValue(p, v))

\* Value.valueCMP: before its target, every size that the target may have.  All
\* data are whole bytes here; the code tries the sizes in between too when the
\* target is a node.
ParseValue(p, v) ==
    LET t == Targets[v][1]
        least == IF IsNode(t) THEN 0 ELSE IF FixedSize(t) # -1 THEN FixedSize(t) ELSE MinSize[t]
        greatest == IF IsNode(t) THEN Len(p.data[v])
                    ELSE IF FixedSize(t) # -1 THEN FixedSize(t) ELSE MaxSize[t]
        parts == Parts(p.data[v], least, greatest)
        Compare(expected) ==
            IF expected.is = "missing"
            THEN [i \in DOMAIN parts |->
                    Register(WithParsed(CopyPath(p), v, parts[i]), Targets[v], v)]
            ELSE IF Starts(p.data[v], expected.value)
            THEN <<WithParsed(p, v, expected.value)>>
            ELSE <<>>
    IN  Compare(ComputeExpectedValue(p, v))

Concatenation(p, vs) ==
    FlattenSeq([i \in DOMAIN vs |-> IF Has(p, vs[i]) THEN p.data[vs[i]] ELSE <<>>])

\* Agg._inner_parse.  allParsed stays set for the shorter alternatives of the
\* child before an optional last child; a child without data ends the path.
ParseAgg(p, v, i, allParsed) ==
    LET child == Children[v][i]
        last == i = Len(Children[v])
        before == p.data[child]
        Follow(acc, q) ==
            LET rest == From(before, Len(q.data[child]))
                skip == rest = <<>> /\ i = Len(Children[v]) - 1 /\ v \in LastOptional
                all == acc.all \/ skip
                q1 == IF skip THEN q ELSE AssignData(q, Children[v][i + 1], rest)
            IN  IF last THEN [acc EXCEPT !.paths = Append(@, q)]
                ELSE [all |-> all, paths |-> acc.paths \o ParseAgg(q1, v, i + 1, all)]
    IN  (IF allParsed THEN <<p>> ELSE <<>>)
        \o (IF ~Has(p, child) THEN <<>>
            ELSE FoldLeft(Follow, [all |-> allParsed, paths |-> <<>>],
                          Parse(child, p, FALSE).paths).paths)

\* One repetition more on each path; a path that reaches the end of the data
\* stops all of them.
RepeatOnce(v, content, more, paths) ==
    LET child == Children[v][1]
        delimiter == IF more THEN Delimiter[v] ELSE <<>>
        Result(q) == (IF Has(q, v) THEN q.data[v] ELSE <<>>) \o q.data[child]
        Taken(q, result) ==
            [WithParsed(q, v, result) EXCEPT !.ok = AddParsed(q, v, result).succeeded]
        Keep(q, end) == [kept |-> <<AssignData(q, child, end)>>, end |-> end = <<>>]
        Extend(q, result, rest) ==
            IF ~Starts(rest, delimiter)
            THEN [kept |-> <<>>, end |-> rest = <<>>]
            ELSE Keep(IF delimiter = <<>> THEN Taken(q, result)
                      ELSE WithParsed(Taken(q, result), v, result \o delimiter),
                      From(rest, Len(delimiter)))
        ExtendAll(qs) ==
            [i \in DOMAIN qs |->
                Extend([qs[i] EXCEPT !.ok = TRUE], Result(qs[i]), From(content, Len(Result(qs[i]))))]
        Sum(extended) ==
            [paths |-> FlattenSeq([i \in DOMAIN extended |-> extended[i].kept]),
             stop |-> \E i \in DOMAIN extended : extended[i].end]
    IN  Sum(ExtendAll(FlattenSeq([i \in DOMAIN paths |-> Parse(child, paths[i], FALSE).paths])))

RECURSIVE RepeatUpTo(_, _, _, _, _)
RepeatUpTo(v, content, i, n, paths) ==
    LET Continue(r) == IF r.stop THEN r.paths ELSE RepeatUpTo(v, content, i + 1, n, r.paths)
    IN  IF i > n THEN paths ELSE Continue(RepeatOnce(v, content, i < n, paths))

\* Mutant of RangeOfTimes: one repetition too many.
OnceMore(p, v) ==
    IF Times[v] \in Variables
    THEN LET n == p.data[Times[v]] IN <<n[1], n[1] + 1>>
    ELSE <<Times[v][1], Times[v][2] + 1>>

\* nbRepeat; the variable that counts comes before.
RangeOfTimes(p, v) ==
    IF Times[v] \in Variables
    THEN LET n == p.data[Times[v]] IN <<n[1], n[1]>>
    ELSE Times[v]

\* Repeat.parse.  When nothing fits the result is empty, whatever nbRepeat.
ParseRepeat(p, v) ==
    LET content == p.data[v]
        p0 == RemoveData(p, {v})
        range == RangeOfTimes(p, v)
        Counted(n) ==
            LET q == AssignData(CopyPath(p0), Children[v][1], content)
            IN  IF n = 0 THEN <<WithParsed(q, v, <<>>)>>
                ELSE RepeatUpTo(v, content, 1, n, <<q>>)
        results == FlattenSeq([k \in 1..(range[2] - range[1] + 1) |-> Counted(range[2] - k + 1)])
        OrEmpty(valid) == IF valid # <<>> THEN valid ELSE <<AssignData(CopyPath(p0), v, <<>>)>>
    IN  OrEmpty(SelectSeq(results, LAMBDA q : Has(q, v) /\ q.ok))

\* Mutant of ParseAlt: only the first child that parses something.
ParseFirstAlternative(p, v) ==
    LET content == p.data[v]
        Child(i) == Parse(Children[v][i], AssignData(p, Children[v][i], content), FALSE).paths
        fitting == SelectSeq([i \in DOMAIN Children[v] |-> i], LAMBDA i : Child(i) # <<>>)
        c == Children[v][fitting[1]]
        paths == Child(fitting[1])
    IN  IF fitting = <<>> THEN <<>>
        ELSE [k \in DOMAIN paths |-> WithParsed(paths[k], v, paths[k].data[c])]

\* Alt.parse: all the children, each on a path of its own.
ParseAlt(p, v) ==
    LET content == p.data[v]
        p1 == AssignData(p, Children[v][1], content)
        Path(i, c) == IF i = 1 THEN p1 ELSE AssignData(CopyPath(p1), c, content)
        Take(c, paths) == [k \in DOMAIN paths |-> WithParsed(paths[k], v, paths[k].data[c])]
        Child(i, c) == Take(c, Parse(c, Path(i, c), FALSE).paths)
    IN  FlattenSeq([i \in DOMAIN Children[v] |-> Child(i, Children[v][i])])

\* Agg.parse: what its own result triggers is not looked at.
ParseAggregate(p, v) ==
    LET p0 == AssignData(RemoveData(p, ToSet(Children[v])), Children[v][1], p.data[v])
        Take(paths) ==
            [i \in DOMAIN paths |-> WithParsed(paths[i], v, Concatenation(paths[i], Children[v]))]
    IN  Take(ParseAgg(p0, v, 1, FALSE))

Parse(v, p, triggered) ==
    CASE Kind[v] = "Constant" -> Yields(ParseConstant(p, v))
      [] Kind[v] = "Data"     -> Yields(ParseData(p, v))
      [] Kind[v] = "Value"    -> Yields(ParseValue(p, v))
      [] Kind[v] \in {"Size", "Checksum"} -> ParseRelation(p, v, triggered)
      [] Kind[v] = "Agg"      -> Yields(ParseAggregate(p, v))
      [] Kind[v] = "Alt"      -> Yields(ParseAlt(p, v))
      [] Kind[v] = "Repeat"   -> Yields(ParseRepeat(p, v))

\* MessageParser: the fields in order, on each path of the fields before.
RECURSIVE ParseFields(_, _, _)
ParseFields(fields, i, p) ==
    LET Rest(q) == From(p.data[fields[i]], Len(q.data[fields[i]]))
        Continue(q) ==
            IF i < Len(fields)
            THEN ParseFields(fields, i + 1, AssignData(q, fields[i + 1], Rest(q)))
            ELSE IF Rest(q) = <<>> THEN <<q>> ELSE <<>>
        Follow(paths) == FlattenSeq([k \in DOMAIN paths |-> Continue(paths[k])])
    IN  Follow(Parse(fields[i], p, FALSE).paths)

\* The paths that parseBitarray makes results of.
ParseMessage(fields, content) ==
    SelectSeq(ParseFields(fields, 1, AssignData(NewPath, fields[1], content)),
              LAMBDA q : q.ok /\ Concatenation(q, fields) = content)

-----------------------------------------------------------------------------
(* Specializing.  An outcome is a path, or the exception that ends it.       *)

Done(p)   == [raises |-> "nothing", path |-> p]
Raises(x) == [raises |-> x, path |-> NewPath]

\* Outcomes after one more step, where nothing was raised.
Then(outcomes, Step(_)) ==
    UNION {IF o.raises = "nothing" THEN Step(o.path) ELSE {o} : o \in outcomes}

RECURSIVE Specialize(_, _, _)
RECURSIVE RunSpecializing(_, _)
RECURSIVE SpecializeAgg(_, _, _)
RECURSIVE SpecializeRepeat(_, _, _, _)

\* _triggerVariablesCallbacks: every callback is tried again whatever has got
\* a value, but for that of a Repeat and of the parent.
RunSpecializing(p, callbacks) ==
    LET callback == Last(callbacks)
        current == callback.current
        Finish(o) ==
            IF o.raises = "missing" THEN RunSpecializing(p, Front(callbacks))
            ELSE {[o EXCEPT !.path.running = p.running,
                            !.path.callbacks = IF Kind[current] = "Repeat"
                                THEN SelectSeq(@, LAMBDA b : b # callback) ELSE @]}
    IN  IF callbacks = <<>> THEN {Done(p)}
        ELSE UNION {Finish(o) : o \in
                Specialize(current, [p EXCEPT !.running = @ \cup {callback}], FALSE)}

\* Mutant of AddSpecialized: only the callbacks that wait for v are tried.
AddToWaiting(p, v, c) ==
    RunSpecializing(AssignData(p, v, c),
        SelectSeq(p.callbacks, LAMBDA b :
            b \notin p.running /\ b.current # v /\ v \in ToSet(b.targets)))

AddSpecialized(p, v, c) ==
    RunSpecializing(AssignData(p, v, c),
        SelectSeq(p.callbacks, LAMBDA b :
            /\ b \notin p.running /\ b.current # v
            /\ \/ v \in ToSet(b.targets)
               \/ Kind[b.current] # "Repeat" /\ ~IsParent(b.current, v)))

\* dataType.generate.
Generated(v) ==
    UNION {[1..n -> Alphabet[v]] : n \in MinSize[v]..MaxSize[v]}

\* AbstractRelationVariableLeaf.regenerate.
SpecializeRelation(p, v, acceptCallback) ==
    LET Add(expected) ==
            CASE expected.is = "value" -> AddSpecialized(p, v, expected.value)
              [] expected.is = "error" -> {Raises("error")}
              [] expected.is = "missing" ->
                    IF acceptCallback THEN {Done(Register(p, <<expected.target>>, v))}
                    ELSE {Raises("missing")}
    IN  Add(ComputeExpectedValue(p, v))

\* Agg._produce_data, of the children that are specialized.
ProduceData(p, v, children) ==
    LET missing == SelectSeq(children, LAMBDA c : ~Has(p, c))
    IN  IF missing = <<>> THEN AddSpecialized(p, v, Concatenation(p, children))
        ELSE {Done(Register(p, <<missing[1]>>, v))}

\* Agg._inner_specialize.
SpecializeAgg(p, v, i) ==
    LET cs == Children[v]
        Go(q) == IF i = Len(cs) THEN ProduceData(q, v, cs) ELSE SpecializeAgg(q, v, i + 1)
    IN  (IF i = Len(cs) /\ v \in LastOptional THEN ProduceData(p, v, Front(cs)) ELSE {})
        \cup Then(IF Has(p, cs[i]) THEN {Done(p)} ELSE Specialize(cs[i], p, TRUE), Go)

\* Alt.specialize: the value of the child, or a callback when it comes.
SpecializeAlt(p, v) ==
    LET Pick(c) == Then(IF Has(p, c) THEN {Done(p)} ELSE Specialize(c, p, TRUE),
                        LAMBDA q : IF Has(q, c) THEN AddSpecialized(q, v, q.data[c])
                                   ELSE {Done(Register(q, <<c>>, v))})
    IN  UNION {Pick(Children[v][i]) : i \in DOMAIN Children[v]}

\* Repeat._inner_specialize: only the last repetition notifies.
SpecializeRepeat(p, v, i, n) ==
    LET c == Children[v][1]
        Forget(q) == RemoveData(q, Descendants(c))
        Add(q) ==
            LET result == (IF Has(q, v) THEN q.data[v] \o Delimiter[v] ELSE <<>>) \o q.data[c]
            IN  IF ~Has(q, c) THEN {Done(Register(q, <<c>>, v))}
                ELSE IF i = n
                THEN Then(AddSpecialized(q, v, result), LAMBDA r : {Done(Forget(r))})
                ELSE SpecializeRepeat(Forget(AssignData(q, v, result)), v, i + 1, n)
    IN  Then(Specialize(c, p, TRUE), Add)

Specialize(v, p, acceptCallback) ==
    CASE Kind[v] = "Constant" -> AddSpecialized(p, v, Constant[v])
      [] Kind[v] = "Data"     -> UNION {AddSpecialized(p, v, c) : c \in Generated(v)}
      [] Kind[v] \in Relations -> SpecializeRelation(p, v, acceptCallback)
      [] Kind[v] = "Agg"      -> SpecializeAgg(p, v, 1)
      [] Kind[v] = "Alt"      -> SpecializeAlt(p, v)
      [] Kind[v] = "Repeat"   ->
            LET range == RangeOfTimes(p, v)
            IN  UNION {IF n = 0 THEN AddSpecialized(p, v, <<>>)
                       ELSE SpecializeRepeat(p, v, 1, n) : n \in range[1]..range[2]}

\* MessageSpecializer: the fields in order; a field without data is an error.
RECURSIVE SpecializeFields(_, _, _)
SpecializeFields(fields, i, p) ==
    IF i > Len(fields)
    THEN {IF \A k \in DOMAIN fields : Has(p, fields[k]) THEN Done(p) ELSE Raises("error")}
    ELSE Then(Specialize(fields[i], p, TRUE),
              LAMBDA q : SpecializeFields(fields, i + 1, q))

-----------------------------------------------------------------------------
(* The actions. *)

\* Symbol.specialize.
SpecializeSymbol(s) ==
    /\ phase = "idle"
    /\ \E o \in SpecializeFields(Symbols[s], 1, NewPath) :
        /\ o.raises = "nothing"
        /\ data' = Concatenation(o.path, Symbols[s]) /\ sent' = [data |-> o.path.data]
    /\ symbol' = s /\ phase' = "wire"
    /\ UNCHANGED found

\* specialize raises: no message.
SpecializeFails(s) ==
    /\ phase = "idle"
    /\ \E o \in SpecializeFields(Symbols[s], 1, NewPath) : o.raises # "nothing"
    /\ symbol' = s /\ phase' = "failed"
    /\ UNCHANGED <<data, sent, found>>

\* Any data may come from outside; empty data is not parsed.
Receive(s) ==
    /\ phase = "idle"
    /\ \E n \in 1..MaxData : data' \in [1..n -> Bytes]
    /\ symbol' = s /\ phase' = "wire"
    /\ UNCHANGED <<sent, found>>

\* MessageParser.parseMessage: the first result.
ParseSymbol ==
    /\ phase = "wire" /\ data # <<>>
    /\ \E results \in {ParseMessage(Symbols[symbol], data)} :
          found' = IF results = <<>> THEN None ELSE [data |-> results[1].data]
    /\ phase' = "parsed"
    /\ UNCHANGED <<symbol, data, sent>>

Return ==
    /\ phase \in {"parsed", "failed"} \/ (phase = "wire" /\ data = <<>>)
    /\ phase' = "idle" /\ symbol' = 1 /\ data' = <<>> /\ sent' = None /\ found' = None

Next ==
    \/ \E s \in DOMAIN Symbols : SpecializeSymbol(s) \/ SpecializeFails(s) \/ Receive(s)
    \/ ParseSymbol
    \/ Return

Spec == Init /\ [][Next]_vars

-----------------------------------------------------------------------------
(* What the domains mean. *)

\* The repetitions that the documentation of nbRepeat permits.
Permitted(d, v) ==
    IF Times[v] \in Variables THEN {d[Times[v]][1]} ELSE Times[v][1]..Times[v][2]

\* Content c, which the data rest follows, belongs to the domain of v, the
\* relations aside; d has the counts.
RECURSIVE Fits(_, _, _, _)
RECURSIVE FitsAll(_, _, _, _)
RECURSIVE FitsTimes(_, _, _, _, _)
FitsAll(d, vs, c, rest) ==
    IF vs = <<>> THEN c = <<>>
    ELSE \E n \in 0..Len(c) :
            Fits(d, vs[1], To(c, n), From(c, n) \o rest) /\ FitsAll(d, Tail(vs), From(c, n), rest)

\* n more repetitions, with a delimiter in between.
FitsTimes(d, v, n, c, rest) ==
    IF n = 0 THEN c = <<>>
    ELSE IF n = 1 THEN Fits(d, Children[v][1], c, rest)
    ELSE \E k \in 0..Len(c) :
            /\ Fits(d, Children[v][1], To(c, k), From(c, k) \o rest)
            /\ Starts(From(c, k), Delimiter[v])
            /\ FitsTimes(d, v, n - 1, From(c, k + Len(Delimiter[v])), rest)

\* n repetitions with a delimiter after each.
Delimited(d, v, n, c, rest) ==
    \E k \in 0..Len(c) :
        From(c, k) = Delimiter[v] /\ FitsTimes(d, v, n, To(c, k), Delimiter[v] \o rest)

\* Where Repeat.parse leaves what is permitted: while it tries for most, it stops
\* at n when as few use up the data that it was given, behind a delimiter.
StopsShort(d, v, n, c, rest) ==
    /\ Delimited(d, v, n, c, rest)
    /\ Delimited(d, v, n, c \o rest, <<>>) \/ FitsTimes(d, v, n, c \o rest, <<>>)

\* And when nothing fits, its result is empty.
FitsRepeat(d, v, c, rest) ==
    \/ \E n \in Permitted(d, v) : FitsTimes(d, v, n, c, rest)
    \/ \E most \in Permitted(d, v) : \E n \in 1..(most - 1) : StopsShort(d, v, n, c, rest)
    \/ c = <<>>

Fits(d, v, c, rest) ==
    CASE Kind[v] = "Constant" -> c = Constant[v]
      [] Kind[v] = "Data" -> Len(c) \in MinSize[v]..MaxSize[v] /\ ToSet(c) \subseteq Alphabet[v]
      [] Kind[v] = "Value" -> TRUE
      [] Kind[v] \in {"Size", "Checksum"} -> Len(c) <= 1   \* the data may end before it
      [] Kind[v] = "Agg" -> \/ FitsAll(d, Children[v], c, rest)
                            \/ v \in LastOptional /\ FitsAll(d, Front(Children[v]), c, rest)
      [] Kind[v] = "Alt" -> \E i \in DOMAIN Children[v] : Fits(d, Children[v][i], c, rest)
      [] Kind[v] = "Repeat" -> FitsRepeat(d, v, c, rest)

Total(d, v) ==
    FlattenSeq([i \in DOMAIN Targets[v] |->
        IF Targets[v][i] = v /\ Kind[v] = "Checksum" THEN <<0>> ELSE d[Targets[v][i]]])

\* The relation v holds for the data d.
Holds(d, v) ==
    CASE Kind[v] = "Size" -> d[v] = <<Len(Total(d, v))>>
      [] Kind[v] = "Value" -> d[v] = Total(d, v)
      [] Kind[v] = "Checksum" ->
            d[v] = <<FoldLeft(LAMBDA s, b : s + b, 0, Total(d, v)) % (MaxByte + 1)>>

\* The sum of the sizes cannot be encoded.
IsTooBig(d, v) == Kind[v] = "Size" /\ Len(Total(d, v)) > MaxByte

\* The greatest size of the content of v.
RECURSIVE Longest(_)
Longest(v) ==
    CASE Kind[v] = "Data" -> MaxSize[v]
      [] Kind[v] = "Constant" -> Len(Constant[v])
      [] Kind[v] \in Relations -> 1
      [] OTHER -> FoldLeft(LAMBDA s, c : s + Longest(c), 0, Children[v])

VariablesOf(s) == UNION {Descendants(Symbols[s][i]) : i \in DOMAIN Symbols[s]}

\* The leaves of a symbol in the order in which they are parsed.
RECURSIVE Leaves(_)
Leaves(vs) ==
    FlattenSeq([i \in DOMAIN vs |->
        IF IsNode(vs[i]) THEN Leaves(Children[vs[i]]) ELSE <<vs[i]>>])

\* A relation is verified when it is parsed after its targets, or else when
\* the last of them is a Data that no other relation targets, the value of
\* which is not constant.
IsVerified(s, v) ==
    LET leaves == Leaves(Symbols[s])
        At(u) == CHOOSE i \in DOMAIN leaves : leaves[i] = u
        targets == ToSet(Targets[v]) \ {v}
    IN  /\ targets \subseteq ToSet(leaves)
        /\ \/ \A t \in targets : At(t) < At(v)
           \/ \E t \in targets :
                /\ Kind[t] = "Data" /\ \A u \in targets : At(u) <= At(t)
                /\ \A w \in ToSet(leaves) \ {v} : t \notin ToSet(Targets[w])

\* Type invariant.
TypeOK ==
    /\ phase \in {"idle", "wire", "parsed", "failed"}
    /\ symbol \in DOMAIN Symbols
    /\ data \in Seq(Bytes)
    /\ \A v \in DOMAIN sent.data : v \in Variables /\ sent.data[v] \in Seq(Bytes)
    /\ \A v \in DOMAIN found.data : v \in Variables /\ found.data[v] \in Seq(Bytes)

Accepted == found # None

\* The first result of the parser cuts the data into parts that belong to the
\* domains of the fields, through the optional and repeated parts, the
\* delimiters, the bounds of the repetitions and the counts that another field
\* gives.  The documentation of Repeat knows no exception to its minimum and to
\* its delimiters; the code has those of StopsShort and of the empty result.
AcceptedFits ==
    LET fields == Symbols[symbol]
        parts == [i \in DOMAIN fields |-> found.data[fields[i]]]
        After(i) == FlattenSeq(SubSeq(parts, i + 1, Len(parts)))
    IN  Accepted =>
            /\ data = FlattenSeq(parts)
            /\ \A i \in DOMAIN fields : Fits(found.data, fields[i], parts[i], After(i))

\* An accepted message is of the types and the domains of its symbol.
AcceptedCorrectly == TypeOK /\ AcceptedFits

\* In a message that the parser accepts, the relations hold that stand behind
\* their targets, and those that stand before, when the callback that verifies
\* them is the only one on their last target and that target can refuse.
VerifiedRelationsHold ==
    Accepted => \A v \in VariablesOf(symbol) :
        Kind[v] \in Relations /\ IsVerified(symbol, v) =>
            Holds(found.data, v) \/ IsTooBig(found.data, v)

\* In a message that the parser accepts, every relation holds.
AcceptedRelationsHold ==
    Accepted => \A v \in VariablesOf(symbol) :
        Kind[v] \in Relations /\ v \in DOMAIN found.data => Holds(found.data, v)

\* A Size that stands before a Value among its targets: it takes the Value for
\* one byte, and is not computed again.
CountsValueAhead(s, v) ==
    LET leaves == Leaves(Symbols[s])
        At(u) == CHOOSE i \in DOMAIN leaves : leaves[i] = u
    IN  /\ Kind[v] = "Size"
        /\ \E t \in ToSet(Leaves(Targets[v])) : Kind[t] = "Value" /\ At(v) < At(t)

\* In a message that is specialized, every relation holds, in whatever order the
\* callbacks completed the relations and the nodes around them, but a Size that
\* counts a Value after it, which Size.computeExpectedValue gets wrong.
SentRelationsHold ==
    \A v \in DOMAIN sent.data :
        Kind[v] \in Relations => Holds(sent.data, v) \/ CountsValueAhead(symbol, v)

\* However the relations wait for each other, specializing a symbol completes,
\* unless a Size may be too big to encode.
SpecializeSucceeds ==
    phase = "failed" => \E v \in VariablesOf(symbol) :
        /\ Kind[v] = "Size"
        /\ FoldLeft(LAMBDA s, t : s + Longest(t), 0, Targets[v]) > MaxByte

\* The symbol that a message was specialized from accepts it.
RoundTrip == phase = "parsed" /\ sent # None => Accepted
=============================================================================
